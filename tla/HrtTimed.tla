------------------------------ MODULE HrtTimed ------------------------------
(***************************************************************************)
(* rtw/src/hrt_main.c with its clock: the deadlines of run_task() and its  *)
(* reports of late cycles, in the program of HrtMain. Every step of this   *)
(* module but Tick is a step of HrtMain.                                   *)
(*                                                                         *)
(* Time is the distance of the deadline from the present. The real-time    *)
(* thread has the highest priority but one: while it can run it waits for  *)
(* the processor at most Latency, and a model step takes at most StepTime, *)
(* but for MaxLong long steps. The sleep of main() may end at any time.    *)
(***************************************************************************)
EXTENDS HrtMain, Integers

CONSTANTS
  Dt,         \* sample time, in ticks of the clock
  StepTime,   \* a model step takes at most this time
  Latency,    \* wait for the processor, at most
  TooLate,    \* run_task()'s 500000 ns
  LongStep,   \* bound: a long step takes at most this time
  MaxLong     \* bound: how many steps are long

\* The processor is fast enough for the model.
ASSUME TimeAssumption ==
  /\ Dt \in Nat /\ StepTime \in Nat /\ Latency \in Nat
  /\ StepTime + Latency < Dt
  /\ TooLate \in Nat /\ Latency <= TooLate
  /\ LongStep \in Nat /\ MaxLong \in Nat

VARIABLES
  due,       \* time up to task.monotonic_time, Unset before run_task()
  took,      \* time since the step began, or since the thread can run
  long,      \* long steps that are left
  overrun,   \* the last step ended with an OVERRUN message
  toolate,   \* the last step began with a TOO LATE message
  phase,     \* history: time up to the next multiple of the sample time
  backlog    \* history: deadlines that came, less cycles begun

timeVars == <<due, took, long, overrun, toolate, phase, backlog>>
timedVars == <<vars, timeVars>>

\* No deadline lies this far ahead.
Unset == Dt + 1

-----------------------------------------------------------------------------
\* timeradd(&thread->monotonic_time, dt) behind a step. And wrong: counted
\* from the present, or nothing added to it.
FromNow(d) == Dt
Now(d) == 0
NextDeadline(d) == d + Dt

\* diffns2 < 0. And wrong: only a cycle that is lost as a whole.
OverrunWhole(d) == d < -Dt
Overrun(d) == d < 0

\* The first time the thread starts its clock, one sample time ahead.
TimedRtTest ==
  /\ RtTest
  /\ IF due = Unset
     THEN due' = Dt /\ phase' = Dt /\ UNCHANGED <<took, long, overrun, toolate,
                                                  backlog>>
     ELSE UNCHANGED timeVars

\* clock_nanosleep() does not wait for a deadline that has passed.
TimedRtWake ==
  /\ RtWake
  /\ due <= 0
  /\ took' = 0
  /\ toolate' = (-due > TooLate)
  /\ backlog' = IF backlog >= 0 THEN backlog - 1 ELSE backlog
  /\ UNCHANGED <<due, long, overrun, phase>>

TimedRtResult ==
  /\ RtResult
  /\ due' = NextDeadline(due)
  /\ overrun' = Overrun(due')
  /\ took' = 0
  /\ UNCHANGED <<long, toolate, phase, backlog>>

TimedRt ==
  \/ TimedRtTest \/ TimedRtWake \/ TimedRtResult
  \/ UNCHANGED timeVars /\ \/ RtModel("outputs", "upload")
                           \/ RtModel("upload", "update")
                           \/ RtModel("update", "endTrigger")
                           \/ RtEnd

\* The time the thread may still take where it is.
MayTake ==
  CASE rpc = "sleep" -> due > 0 \/ took < Latency
    [] rpc \in {"outputs", "upload", "update", "endTrigger"} ->
         took < StepTime \/ (took < LongStep /\ (took > StepTime \/ long > 0))
    [] OTHER -> FALSE

Tick ==
  /\ MayTake
  /\ due' = due - 1
  /\ took' = IF rpc = "sleep" /\ due > 0 THEN 0 ELSE took + 1
  /\ long' = IF rpc # "sleep" /\ took = StepTime THEN long - 1 ELSE long
  /\ phase' = IF phase = 1 THEN Dt ELSE phase - 1
  /\ backlog' = IF phase = 1 THEN backlog + 1 ELSE backlog
  /\ UNCHANGED <<vars, overrun, toolate>>

-----------------------------------------------------------------------------
TimedInit ==
  /\ Init
  /\ due = Unset /\ took = 0 /\ long = MaxLong
  /\ overrun = FALSE /\ toolate = FALSE
  /\ phase = Dt /\ backlog = 0

Alive == mpc \notin {"exit", "crashed"}

TimedNext ==
  \/ Alive /\ (TimedRt \/ Tick)
  \/ Alive /\ (Main \/ Host \/ Sigint) /\ UNCHANGED timeVars
  \/ Ended /\ UNCHANGED timeVars

TimedSpec ==
  /\ TimedInit /\ [][TimedNext]_timedVars
  /\ WF_timedVars(Alive /\ Main /\ UNCHANGED timeVars)
  /\ WF_timedVars(Alive /\ TimedRt) /\ WF_timedVars(Alive /\ Tick)

-----------------------------------------------------------------------------
InStep == IF rpc \in InModel THEN 1 ELSE 0

\* No deadline is left out, moved or served twice, however long steps take:
\* the thread is at the cycle of the grid its deadline says, and no cycle
\* begins before its time.
KeepsPace ==
  rpc \in InModel \cup {"sleep"} =>
    backlog >= 0 /\ due = phase - Dt * (backlog + InStep)

\* The messages explain a late cycle: TOO LATE comes only behind an OVERRUN
\* of the step before, and an OVERRUN only if the next cycle is really late.
LateExplained ==
  /\ toolate /\ rpc = "outputs" => overrun
  /\ overrun /\ rpc = "sleep" => backlog > 0

\* After an overrun the thread catches up: again and again it sleeps for a
\* deadline that lies ahead, unless it is gone.
CatchesUp ==
  []<>(~Alive \/ rpc \in {"none", "dead"} \/ (rpc = "sleep" /\ due > 0))
=============================================================================
