----------------------------- MODULE EcsAtomic -----------------------------
(***************************************************************************)
(* What ecs_receive() and ecs_send() of rtw/src/ecrt_support.c promise to  *)
(* the tasks of the model: what a call does at one master happens at once. *)
(* A process image is one value, since nobody sees it half converted, and  *)
(* there is no lock.                                                       *)
(***************************************************************************)
EXTENDS Integers, Sequences

CONSTANTS
  Tasks,         \* task ids that call
  Master,        \* sequence of masters [fastest_tid, refclk_trigger_init]
  Domain,        \* per master: sequence of domains [name, tid, input, output]
  DomainNames,   \* the names in Domain
  Values,        \* sample values of a signal are 0..Values-1
  Loss           \* whether frames may get lost

VARIABLES
  output,         \* task -> value of its output signals
  outimage,       \* domain -> outputs in its process image
  image,          \* domain -> inputs in its process image
  input,          \* domain -> the signals converted from its image
  refclk_trigger, \* master -> sends up to the next reference clock sync
  dgram,          \* domain -> "idle", "queued", "sent", "answered"
  wire,           \* domain -> outputs in the frame on the bus
  wc              \* domain -> working counter of the last process

vars == <<output, outimage, image, input, refclk_trigger, dgram, wire, wc>>

Value == 0..(Values - 1)
Names(m) == {Domain[m][k].name : k \in DOMAIN Domain[m]}
Select(m, P(_)) == {d.name : d \in {Domain[m][k] : k \in
                      {j \in DOMAIN Domain[m] : P(Domain[m][j])}}}
Mine(m, tid) == Select(m, LAMBDA d : d.tid = tid)
Inputs(m) == Select(m, LAMBDA d : d.input)
Outputs(m) == Select(m, LAMBDA d : d.output)

\* A function changed on a set: of every d in S the value is e(d).
Put(f, S, e(_)) == [d \in DOMAIN f |-> IF d \in S THEN e(d) ELSE f[d]]

\* ecrt_domain_process(): a domain that was sent and is not answered has lost
\* its frame.
Processed(status, counter) ==
  CASE status = "answered"                  -> "complete"
    [] status = "idle" /\ counter = "new"   -> "new"
    [] OTHER                                -> "zero"

(* ecs_receive(tid) at master m: the frame is fetched by the fastest task, *)
(* and the task's domains show the inputs that arrived last.               *)
Receive(m, tid) ==
  \E lost \in {FALSE, Loss}, v \in Value :
    LET back == IF Master[m].fastest_tid = tid
                THEN {d \in Names(m) : dgram[d] = "sent"} ELSE {}
        status == Put(dgram, back, LAMBDA d : IF lost THEN "idle"
                                                      ELSE "answered")
    IN  /\ image' = IF lost THEN image
                    ELSE Put(image, back \cap Inputs(m), LAMBDA d : v)
        /\ wc' = Put(wc, Mine(m, tid),
                     LAMBDA d : Processed(status[d], wc[d]))
        /\ dgram' = Put(status, {d \in Mine(m, tid) : status[d] = "answered"},
                        LAMBDA d : "idle")
        /\ input' = Put(input, Mine(m, tid) \cap Inputs(m),
                        LAMBDA d : image'[d])
        /\ UNCHANGED <<output, outimage, refclk_trigger, wire>>

(* ecs_send(tid) at master m: the task's outputs go into the images, its   *)
(* domains are queued, and the fastest task sends all that is queued.      *)
Send(m, tid) ==
  LET queued == Mine(m, tid) \cup {d \in Names(m) : dgram[d] = "queued"}
      init == Master[m].refclk_trigger_init
  IN  /\ outimage' = Put(outimage, Mine(m, tid) \cap Outputs(m),
                         LAMBDA d : output[tid])
      /\ IF Master[m].fastest_tid = tid
         THEN /\ dgram' = Put(dgram, queued, LAMBDA d : "sent")
              /\ wire' = Put(wire, queued, LAMBDA d : outimage'[d])
              /\ refclk_trigger' = [refclk_trigger EXCEPT ![m] =
                   CASE init = 0 -> @ [] init # 0 /\ @ = 1 -> init
                     [] OTHER -> @ - 1]
         ELSE /\ dgram' = Put(dgram, Mine(m, tid), LAMBDA d : "queued")
              /\ UNCHANGED <<wire, refclk_trigger>>
      /\ UNCHANGED <<output, image, input, wc>>

\* The blocks of a task compute new outputs.
Compute(tid) ==
  /\ output' = [output EXCEPT ![tid] = (@ + 1) % Values]
  /\ UNCHANGED <<outimage, image, input, refclk_trigger, dgram, wire, wc>>

Init ==
  /\ output = [t \in Tasks |-> 0]
  /\ outimage = [d \in DomainNames |-> 0]
  /\ image = [d \in DomainNames |-> 0]
  /\ input = [d \in DomainNames |-> 0]
  /\ refclk_trigger \in [DOMAIN Master -> 0..1]
  /\ \A m \in DOMAIN Master :
       Master[m].refclk_trigger_init # 0 => refclk_trigger[m] = 1
  /\ dgram = [d \in DomainNames |-> "idle"]
  /\ wire = [d \in DomainNames |-> 0]
  /\ wc = [d \in DomainNames |-> "new"]

Next ==
  \/ \E m \in DOMAIN Master, tid \in Tasks : Receive(m, tid) \/ Send(m, tid)
  \/ \E tid \in Tasks : Compute(tid)

Spec == Init /\ [][Next]_vars
=============================================================================
