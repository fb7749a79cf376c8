----------------------------- MODULE EcsCyclic -----------------------------
(***************************************************************************)
(* The cyclic half of rtw/src/ecrt_support.c: ecs_receive() and ecs_send() *)
(* as the tasks of the model call them, statement by statement, over       *)
(* masters that tasks of different sample times share.                     *)
(*                                                                         *)
(* A thread runs its calls round and round: in a multitasking build (MT)   *)
(* one thread per task id, <<receive t, send t>>; in a single-tasking one  *)
(* thread runs the calls of every task that has a sample hit.              *)
(*                                                                         *)
(* The EtherCAT library is external: a domain is queued, travels with the  *)
(* next frame its master sends and is answered, or lost, before the next   *)
(* receive. The process image of a domain has Words words for its inputs   *)
(* and as many for its outputs, read and written one conversion at a time. *)
(***************************************************************************)
EXTENDS Integers, Sequences

CONSTANTS
  MT,            \* the build's MT: the masters have a lock
  Threads,       \* threads that run the model
  Program,       \* thread -> sequence of calls [call, tid]
  Master,        \* sequence of masters [fastest_tid, refclk_trigger_init]
  Domain,        \* per master: sequence of domains [name, tid, input, output]
  DomainNames,   \* the names in Domain
  Words,         \* words of a process image
  Values,        \* bound: sample values of a signal, 0..Values-1
  Loss,          \* whether frames may get lost
  NoThread

Call == [call : {"receive", "send"}, tid : Nat]

Tids(m) == {Domain[m][k].tid : k \in DOMAIN Domain[m]}

ASSUME ConfigAssumption ==
  /\ MT \in BOOLEAN
  /\ Loss \in BOOLEAN
  /\ Words \in Nat \ {0}
  /\ Values \in Nat \ {0}
  /\ NoThread \notin Threads
  /\ ~MT => \E th \in Threads : Threads = {th}
  /\ Program \in [Threads -> Seq(Call)]
  /\ \A th \in Threads : Program[th] # <<>>
  /\ Master # <<>>
  /\ Master \in Seq([fastest_tid : Nat, refclk_trigger_init : Nat])
  /\ Domain \in [DOMAIN Master ->
       Seq([name : DomainNames, tid : Nat, input : BOOLEAN, output : BOOLEAN])]

\* One thread makes the calls of a task id.
ASSUME TaskAssumption ==
  \A a, b \in Threads :
    \A i \in DOMAIN Program[a], j \in DOMAIN Program[b] :
      Program[a][i].tid = Program[b][j].tid => a = b

(* What EcrtSupport shows of a successful start: every domain is in the    *)
(* list of one master, once, and a master's fastest task is the smallest   *)
(* of its users.                                                           *)
ASSUME ListAssumption ==
  /\ \A m, n \in DOMAIN Master :
       \A j \in DOMAIN Domain[m], k \in DOMAIN Domain[n] :
         Domain[m][j].name = Domain[n][k].name => m = n /\ j = k
  /\ \A m \in DOMAIN Master : \A t \in Tids(m) : Master[m].fastest_tid <= t

VARIABLES
  pos,          \* thread -> call of its program it is in
  pc,           \* thread -> place in ecs_receive() or ecs_send()
  at,           \* thread -> master the outer loop is at
  dom,          \* thread -> domain the inner loop is at, in the master's list
  word,         \* thread -> word the conversion loop is at
  lock,         \* master -> thread that holds its semaphore
  refclk_trigger, \* master -> sends up to the next reference clock sync
  since,        \* history: sends since the last sync, -1 before the first
  image,        \* domain -> inputs in its process image
  outimage,     \* domain -> outputs in its process image, elsewhere in it
  output,       \* task -> value of its output signals in this cycle
  input,        \* domain -> the block signals converted from its image
  dgram,        \* external: domain -> "idle", "queued", "sent", "answered"
  wire,         \* external: domain -> outputs in the frame on the bus
  wc            \* domain -> working counter of the last process: "new",
                \*   "complete", "zero" (after the domain was sent once)

threadVars == <<pos, pc, at, dom, word>>
libVars == <<dgram, wire>>
imageVars == <<image, outimage>>
vars == <<pos, pc, at, dom, word, lock, refclk_trigger, since, image, outimage,
          output, input, dgram, wire, wc>>

Tid(th) == Program[th][pos[th]].tid
Receiving(th) == Program[th][pos[th]].call = "receive"

\* The master's lock exists only in a multitasking build. And wrong: a lock
\* that is left out, or out of one of the two functions.
LocksNever(th) == FALSE
LocksReceiving(th) == MT /\ Receiving(th)
LocksSending(th) == MT /\ ~Receiving(th)
Locks(th) == MT

\* Only the master's fastest task receives and sends its frames. And wrong:
\* the comparison turned round.
ServesBelow(th) == Tid(th) < Master[at[th]].fastest_tid
ServesAbove(th) == Tid(th) > Master[at[th]].fastest_tid
Serves(th) == Master[at[th]].fastest_tid = Tid(th)

AllTids ==
  UNION {{Program[th][k].tid : k \in DOMAIN Program[th]} : th \in Threads}
Doms(th) == Domain[at[th]]
D(th) == Doms(th)[dom[th]]

\* The inner loops pass over the domains of other tasks.
Its(th) == D(th).tid = Tid(th)

Image == [1..Words -> 0..(Values - 1)]
Uniform(v) == [w \in 1..Words |-> v]

Go(th, from, to) ==
  /\ pc[th] = from
  /\ pc' = [pc EXCEPT ![th] = to]

\* The loop over the domains of the master: its body, or what follows it.
DomainLoop(th, k, after) ==
  IF k <= Len(Doms(th)) THEN "domain" ELSE after

-----------------------------------------------------------------------------
\* sem_wait(&master->lock), compiled in only if MT; the loop variables start.
SemWait(th) ==
  /\ IF Locks(th)
     THEN lock[at[th]] = NoThread /\ lock' = [lock EXCEPT ![at[th]] = th]
     ELSE UNCHANGED lock
  /\ Go(th, "wait", IF Receiving(th) THEN "receive"
                                     ELSE DomainLoop(th, 1, "send"))
  /\ dom' = [dom EXCEPT ![th] = 1]
  /\ word' = [word EXCEPT ![th] = 1]
  /\ UNCHANGED <<pos, at, refclk_trigger, since, imageVars, output, input,
                 wc, libVars>>

(* ecrt_master_receive(): the frame of the last send is back or lost; its  *)
(* answer lands in the image, here one new value of the inputs.            *)
Back(m) == {Domain[m][k] : k \in {j \in DOMAIN Domain[m] :
                                    dgram[Domain[m][j].name] = "sent"}}

MasterReceive(th) ==
  LET m == at[th] IN
  /\ Go(th, "receive", DomainLoop(th, 1, "post"))
  /\ IF ~Serves(th)
     THEN UNCHANGED <<dgram, image>>
     ELSE \E lost \in {FALSE, Loss}, v \in 0..(Values - 1) :
       LET names == {d.name : d \in Back(m)}
           inputs == {d.name : d \in {e \in Back(m) : e.input}}
       IN  /\ dgram' = [d \in DomainNames |->
                IF d \in names THEN IF lost THEN "idle" ELSE "answered"
                               ELSE dgram[d]]
           /\ image' = [d \in DomainNames |->
                IF d \in inputs /\ ~lost THEN Uniform(v) ELSE image[d]]
  /\ UNCHANGED <<pos, at, dom, word, lock, refclk_trigger, since, outimage,
                 output, input, wire, wc>>

\* After the last conversion of a domain: the next one of the master. And
\* wrong: the domain loop is not advanced.
NextDomainStays(th, after) ==
  /\ UNCHANGED dom
  /\ word' = [word EXCEPT ![th] = 1]
  /\ Go(th, pc[th], DomainLoop(th, dom[th], after))

NextDomain(th, after) ==
  /\ dom' = [dom EXCEPT ![th] = @ + 1]
  /\ word' = [word EXCEPT ![th] = 1]
  /\ Go(th, pc[th], DomainLoop(th, dom[th] + 1, after))

\* if (domain->tid != tid) continue
DomainSkip(th) ==
  /\ pc[th] = "domain"
  /\ ~Its(th)
  /\ NextDomain(th, IF Receiving(th) THEN "post" ELSE "send")
  /\ UNCHANGED <<pos, at, lock, refclk_trigger, since, imageVars, output,
                 input, wc, libVars>>

\* ecrt_domain_process() and ecrt_domain_state() in ecs_receive().
DomainProcess(th) ==
  LET d == D(th) IN
  /\ Receiving(th)
  /\ pc[th] = "domain"
  /\ Its(th)
  /\ wc' = [wc EXCEPT ![d.name] =
              CASE dgram[d.name] = "answered"        -> "complete"
                [] wc[d.name] = "new" /\ dgram[d.name] = "idle" -> "new"
                [] OTHER                             -> "zero"]
  /\ dgram' = [dgram EXCEPT ![d.name] = IF @ = "answered" THEN "idle" ELSE @]
  /\ IF d.input
     THEN Go(th, "domain", "convert") /\ UNCHANGED <<dom, word>>
     ELSE NextDomain(th, "post")
  /\ UNCHANGED <<pos, at, lock, refclk_trigger, since, imageVars, output,
                 input, wire>>

\* One entry of input_convert_list.
ConvertInput(th) ==
  LET d == D(th) IN
  /\ Receiving(th)
  /\ pc[th] = "convert"
  /\ input' = [input EXCEPT ![d.name][word[th]] = image[d.name][word[th]]]
  /\ IF word[th] < Words
     THEN word' = [word EXCEPT ![th] = @ + 1] /\ UNCHANGED <<pc, dom>>
     ELSE NextDomain(th, "post")
  /\ UNCHANGED <<pos, at, lock, refclk_trigger, since, imageVars, output, wc,
                 libVars>>

\* The loop over the domains in ecs_send(): the outputs, if it has any.
DomainOutput(th) ==
  /\ ~Receiving(th)
  /\ Go(th, "domain", IF D(th).output THEN "convert" ELSE "queue")
  /\ Its(th)
  /\ UNCHANGED <<pos, at, dom, word, lock, refclk_trigger, since, imageVars,
                 output, input, wc, libVars>>

\* One entry of output_convert_list.
ConvertOutput(th) ==
  LET d == D(th) IN
  /\ ~Receiving(th)
  /\ pc[th] = "convert"
  /\ outimage' = [outimage EXCEPT ![d.name][word[th]] = output[Tid(th)]]
  /\ IF word[th] < Words
     THEN word' = [word EXCEPT ![th] = @ + 1] /\ UNCHANGED pc
     ELSE word' = [word EXCEPT ![th] = 1] /\ Go(th, "convert", "queue")
  /\ UNCHANGED <<pos, at, dom, lock, refclk_trigger, since, image, output,
                 input, wc, libVars>>

\* ecrt_domain_queue().
DomainQueue(th) ==
  /\ pc[th] = "queue"
  /\ dgram' = [dgram EXCEPT ![D(th).name] = "queued"]
  /\ NextDomain(th, "send")
  /\ UNCHANGED <<pos, at, lock, refclk_trigger, since, imageVars, output,
                 input, wire, wc>>

\* The countdown ends with this send. And wrong: it is tested before it is
\* counted down, or for a master without distributed clocks too.
SyncTestedFirst(m) ==
  Master[m].refclk_trigger_init # 0 /\ refclk_trigger[m] = 0
SyncUnasked(m) == refclk_trigger[m] = 1
Sync(m) == Master[m].refclk_trigger_init # 0 /\ refclk_trigger[m] = 1

(* The fastest task of the master: the decimated reference clock sync and  *)
(* ecrt_master_send(), which takes the images of the queued domains.       *)
MasterSend(th) ==
  LET m == at[th]
      queued == {Domain[m][k].name : k \in DOMAIN Domain[m]}
                  \cap {d \in DomainNames : dgram[d] = "queued"}
  IN
  /\ Go(th, "send", "post")
  /\ IF ~Serves(th)
     THEN UNCHANGED <<refclk_trigger, since, dgram, wire>>
     ELSE /\ refclk_trigger' = [refclk_trigger EXCEPT ![m] =
               CASE Sync(m) -> Master[m].refclk_trigger_init
                 [] ~Sync(m) /\ Master[m].refclk_trigger_init = 0 -> @
                 [] OTHER -> @ - 1]
          /\ since' = [since EXCEPT ![m] =
               IF Sync(m) THEN 0 ELSE IF @ = -1 THEN @ ELSE @ + 1]
          /\ dgram' = [d \in DomainNames |->
               IF d \in queued THEN "sent" ELSE dgram[d]]
          /\ wire' = [d \in DomainNames |->
               IF d \in queued THEN outimage[d] ELSE wire[d]]
  /\ UNCHANGED <<pos, at, dom, word, lock, imageVars, output, input, wc>>

(* sem_post(), then the next master; after the last one the call returns   *)
(* and the thread goes on to the next: the model's outputs change between  *)
(* one cycle of a task and the next.                                       *)
SemPost(th) ==
  /\ Go(th, "post", "wait")
  /\ IF Locks(th) THEN lock' = [lock EXCEPT ![at[th]] = NoThread]
                  ELSE UNCHANGED lock
  /\ IF at[th] < Len(Master)
     THEN /\ at' = [at EXCEPT ![th] = @ + 1]
          /\ UNCHANGED <<pos, output>>
     ELSE /\ at' = [at EXCEPT ![th] = 1]
          /\ pos' = [pos EXCEPT ![th] = (@ % Len(Program[th])) + 1]
          /\ output' = IF Receiving(th)
                       THEN [output EXCEPT ![Tid(th)] = (@ + 1) % Values]
                       ELSE output
  /\ UNCHANGED <<dom, word, refclk_trigger, since, imageVars, input, wc,
                 libVars>>

-----------------------------------------------------------------------------
Init ==
  /\ pos = [th \in Threads |-> 1]
  /\ pc = [th \in Threads |-> "wait"]
  /\ at = [th \in Threads |-> 1]
  /\ dom = [th \in Threads |-> 1]
  /\ word = [th \in Threads |-> 1]
  /\ lock = [m \in DOMAIN Master |-> NoThread]
  /\ refclk_trigger \in [DOMAIN Master -> 0..1]
  /\ \A m \in DOMAIN Master :
       Master[m].refclk_trigger_init # 0 => refclk_trigger[m] = 1
  /\ since = [m \in DOMAIN Master |-> -1]
  /\ image = [d \in DomainNames |-> Uniform(0)]
  /\ outimage = [d \in DomainNames |-> Uniform(0)]
  /\ output = [t \in AllTids |-> 0]
  /\ input = [d \in DomainNames |-> Uniform(0)]
  /\ dgram = [d \in DomainNames |-> "idle"]
  /\ wire = [d \in DomainNames |-> Uniform(0)]
  /\ wc = [d \in DomainNames |-> "new"]

Step(th) ==
  \/ SemWait(th) \/ MasterReceive(th) \/ DomainSkip(th) \/ DomainProcess(th)
  \/ ConvertInput(th) \/ DomainOutput(th) \/ ConvertOutput(th)
  \/ DomainQueue(th) \/ MasterSend(th) \/ SemPost(th)

Next == \E th \in Threads : Step(th)

Spec == Init /\ [][Next]_vars

(* Threads are scheduled, and a thread that waits for a semaphore gets it  *)
(* when it is free again and again: the tasks sleep between their cycles.  *)
Fairness ==
  \A th \in Threads : WF_vars(Step(th)) /\ SF_vars(SemWait(th))

FairSpec == Spec /\ Fairness

-----------------------------------------------------------------------------
(* Properties                                                              *)

Places == {"wait", "receive", "domain", "convert", "queue", "send", "post"}

PlacesOK ==
  /\ pc \in [Threads -> Places]
  /\ at \in [Threads -> DOMAIN Master]
  /\ lock \in [DOMAIN Master -> Threads \cup {NoThread}]

LoopsOK ==
  /\ pos \in [Threads -> Nat]
  /\ \A th \in Threads : pos[th] \in DOMAIN Program[th]
  /\ dom \in [Threads -> Nat]
  /\ word \in [Threads -> 1..Words]

RefclkOK ==
  /\ refclk_trigger \in [DOMAIN Master -> Nat]
  /\ since \in [DOMAIN Master -> Nat \cup {-1}]

DataOK ==
  /\ image \in [DomainNames -> Image]
  /\ outimage \in [DomainNames -> Image]
  /\ output \in [AllTids -> 0..(Values - 1)]
  /\ input \in [DomainNames -> Image]
  /\ wire \in [DomainNames -> Image]

LibraryOK ==
  /\ dgram \in [DomainNames -> {"idle", "queued", "sent", "answered"}]
  /\ wc \in [DomainNames -> {"new", "complete", "zero"}]

\* The variables hold values of the types of the C declarations.
TypeOK == PlacesOK /\ LoopsOK /\ RefclkOK /\ DataOK /\ LibraryOK

Inside(th, m) == at[th] = m /\ pc[th] # "wait"

\* No two threads are between sem_wait and sem_post of one master.
MutualExclusion ==
  \A m \in DOMAIN Master : \A a, b \in Threads :
    Inside(a, m) /\ Inside(b, m) => a = b

(* The reference clock is synchronised in the first frame and then in      *)
(* every refclk_trigger_init-th, and never if the decimation is 0.         *)
RefclkCadence ==
  \A m \in DOMAIN Master :
    LET n == Master[m].refclk_trigger_init
    IN  IF n = 0 THEN since[m] = -1
        ELSE /\ refclk_trigger[m] \in 1..n
             /\ IF since[m] = -1 THEN refclk_trigger[m] = 1
                                 ELSE since[m] + refclk_trigger[m] = n

(* Without lost frames a single-tasking model finds the answer of every    *)
(* domain it has queued when it next processes it.                         *)
AnswersInTime == \A d \in DomainNames : wc[d] # "zero"

(* What call c does to the datagram of a domain of task t, at a master     *)
(* whose fastest task is f: ecs_receive() has the frames received before   *)
(* it handles the domains, ecs_send() has them sent behind it.             *)
Exchange(c, f, phase) ==
  CASE c.tid = f /\ c.call = "receive" /\ phase = "sent" -> "answered"
    [] c.tid = f /\ c.call = "send" /\ phase = "queued"  -> "sent"
    [] OTHER                                            -> phase
Handle(c, t, phase) ==
  IF c.tid # t THEN phase ELSE IF c.call = "receive" THEN "idle" ELSE "queued"
AfterCall(c, f, t, phase) ==
  IF c.call = "receive" THEN Handle(c, t, Exchange(c, f, phase))
                        ELSE Exchange(c, f, Handle(c, t, phase))

(* When the order of the calls lets every answer be in time: round and     *)
(* round the program, a frame of its master's fastest task leaves and      *)
(* comes back between each send of a task and its next receive.            *)
Timely ==
  \A th \in Threads, m \in DOMAIN Master : \A t \in Tids(m) :
    \E phase \in [DOMAIN Program[th] ->
                    {"idle", "queued", "sent", "answered"}] :
      \A p \in DOMAIN Program[th] :
        LET c == Program[th][p]
            f == Master[m].fastest_tid
        IN  /\ phase[(p % Len(Program[th])) + 1] = AfterCall(c, f, t, phase[p])
            /\ c.call = "receive" /\ c.tid = t
                 => Exchange(c, f, phase[p]) = "answered"

\* A queued domain is on the bus eventually.
QueuedIsSent ==
  \A d \in DomainNames : dgram[d] = "queued" ~> dgram[d] # "queued"

\* Every thread comes round again: no task waits forever for a master.
CyclesForever ==
  \A th \in Threads : []<>(pos[th] = 1 /\ pc[th] = "wait" /\ at[th] = 1)
=============================================================================
