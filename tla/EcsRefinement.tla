--------------------------- MODULE EcsRefinement ---------------------------
(***************************************************************************)
(* EcsCyclic implements EcsAtomic. A call takes effect at a master at one  *)
(* step: ecs_receive() when it has fetched the frame, ecs_send() when it   *)
(* has the lock. From then on the rest of the call is determined, and the  *)
(* abstract state is the one it will have reached at sem_post().           *)
(***************************************************************************)
EXTENDS EcsCyclic

\* Threads that have taken effect at their master and are not through.
Receives == {th \in Threads : Receiving(th) /\ pc[th] \in {"domain", "convert"}}
Sends == {th \in Threads :
            ~Receiving(th) /\ pc[th] \in {"domain", "convert", "queue", "send"}}

\* The domains of a master, those with inputs, those with outputs, and those
\* of a task from the k-th one on.
NamesAt(m) == {Domain[m][i].name : i \in DOMAIN Domain[m]}
Ins(m) == {Domain[m][i].name : i \in {j \in DOMAIN Domain[m] : Domain[m][j].input}}
Outs(m) == {Domain[m][i].name : i \in {j \in DOMAIN Domain[m] : Domain[m][j].output}}
FromAt(m, tid, k) ==
  {Domain[m][i].name : i \in {j \in DOMAIN Domain[m] :
                                j >= k /\ Domain[m][j].tid = tid}}
From(th, k) == FromAt(at[th], Tid(th), k)

\* What the thread has still to convert, and still to process or to queue.
ToConvert(th) == From(th, IF pc[th] = "queue" THEN dom[th] + 1 ELSE dom[th])
ToDo(th) == From(th, IF pc[th] = "convert" /\ Receiving(th) THEN dom[th] + 1
                                                            ELSE dom[th])
\* The domains it will send.
ToSend(th) ==
  IF Serves(th)
  THEN ToDo(th) \cup {d \in NamesAt(at[th]) : dgram[d] = "queued"}
  ELSE {}

\* The threads that do so with a domain, one at most.
Fetching(d) == {th \in Receives : d \in ToConvert(th) \cap Ins(at[th])}
Processing(d) == {th \in Receives : d \in ToDo(th)}
Filling(d) == {th \in Sends : d \in ToConvert(th) \cap Outs(at[th])}
Queueing(d) == {th \in Sends : d \in ToDo(th)}
Sending(d) == {th \in Sends : d \in ToSend(th)}
Clocking(m) == {th \in Sends : at[th] = m /\ Serves(th)}

The(S) == CHOOSE x \in S : TRUE

\* The one value of an image, or none.
Torn == -1
Sample(words) ==
  IF \E v \in 0..(Values - 1) : words = Uniform(v) THEN words[1] ELSE Torn

Processed(d) ==
  CASE dgram[d] = "answered"                 -> "complete"
    [] dgram[d] = "idle" /\ wc[d] = "new"    -> "new"
    [] OTHER                                 -> "zero"

Counted(m) ==
  CASE Sync(m) -> Master[m].refclk_trigger_init
    [] ~Sync(m) /\ Master[m].refclk_trigger_init = 0 -> refclk_trigger[m]
    [] OTHER -> refclk_trigger[m] - 1

\* The state that the calls which have taken effect will have reached.
ImageDone == [d \in DomainNames |-> Sample(image[d])]
InputDone ==
  [d \in DomainNames |->
     Sample(IF Fetching(d) # {} THEN image[d] ELSE input[d])]
WcDone ==
  [d \in DomainNames |-> IF Processing(d) # {} THEN Processed(d) ELSE wc[d]]
OutimageDone ==
  [d \in DomainNames |->
     IF Filling(d) # {} THEN output[Tid(The(Filling(d)))]
                        ELSE Sample(outimage[d])]
DgramDone ==
  [d \in DomainNames |->
     IF Processing(d) # {} /\ dgram[d] = "answered" THEN "idle"
     ELSE IF Sending(d) # {} THEN "sent"
     ELSE IF Queueing(d) # {} THEN "queued" ELSE dgram[d]]
WireDone ==
  [d \in DomainNames |->
     IF Sending(d) # {} THEN OutimageDone[d] ELSE Sample(wire[d])]
RefclkDone ==
  [m \in DOMAIN Master |->
     IF Clocking(m) # {} THEN Counted(m) ELSE refclk_trigger[m]]

Atomic == INSTANCE EcsAtomic WITH
  Tasks <- AllTids, image <- ImageDone,
  outimage <- OutimageDone, input <- InputDone, refclk_trigger <- RefclkDone,
  dgram <- DgramDone, wire <- WireDone, wc <- WcDone

(* Whatever the threads interleave, the calls of ecs_receive() and         *)
(* ecs_send() look to the tasks and on the bus as if each were executed at *)
(* once at each master: images on the bus are whole and of one cycle,      *)
(* inputs are of one frame, and an answer is processed once.               *)
CallsAtomic == Atomic!Spec
=============================================================================
