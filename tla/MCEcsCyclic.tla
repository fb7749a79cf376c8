---------------------------- MODULE MCEcsCyclic ----------------------------
(* Instances of the cyclic model: two tasks, the second one at half rate.  *)
EXTENDS EcsRefinement

Receive(t) == [call |-> "receive", tid |-> t]
Send(t) == [call |-> "send", tid |-> t]

\* Multitasking: the threads are the task ids.
ProgramMT == [t \in {0, 1} |-> <<Receive(t), Send(t)>>]

(* Single-tasking: one thread, task 0 in every tick, task 1 in every other *)
(* one; MdlOutputs receives, MdlUpdate sends.                              *)
ProgramST == [th \in {0} |-> <<Receive(0), Receive(1), Send(0), Send(1),
                               Receive(0), Send(0)>>]

(* Two masters: both tasks use the first one, with a domain each; the slow *)
(* task alone has the second, without distributed clocks.                  *)
Masters == <<[fastest_tid |-> 0, refclk_trigger_init |-> 3],
             [fastest_tid |-> 1, refclk_trigger_init |-> 0]>>

Dom(name, tid, in, out) ==
  [name |-> name, tid |-> tid, input |-> in, output |-> out]

Domains == <<<<Dom("fast", 0, FALSE, TRUE), Dom("slow", 1, TRUE, TRUE)>>,
             <<Dom("second", 1, TRUE, FALSE)>>>>

\* One master that both tasks use, for the interleavings of two threads.
MasterShared == <<[fastest_tid |-> 0, refclk_trigger_init |-> 3]>>
DomainsShared ==
  <<<<Dom("fast", 0, FALSE, TRUE), Dom("slow", 1, TRUE, TRUE),
      Dom("late", 1, TRUE, TRUE)>>>>

\* The calls of the single-tasking program let every answer be in time.
ASSUME TimelyAssumption == ~MT => Timely
=============================================================================
