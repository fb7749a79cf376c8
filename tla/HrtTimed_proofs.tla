-------------------------- MODULE HrtTimed_proofs ---------------------------
(* The two threads of hrt_main.c: their safety whatever the host, the model *)
(* and SIGINT do, and the deadlines of run_task() for every sample time,   *)
(* step time and latency the assumption of HrtTimed allows, and for steps  *)
(* of any length.                                                          *)
EXTENDS HrtTimed, TLAPS

\* main() is between MdlStart() and MdlTerminate().
ModelPlaces == {"create", "pause", "oneStep", "sleep", "while", "lastStep",
                "stop", "shutdown", "join", "terminate"}

\* Places before pthread_create().
BeforeThread == {"init", "waitStart", "mdlStart", "create"}

\* The real-time thread exists only while main() is here.
ThreadPlaces == ModelPlaces \ {"create", "terminate"}

(* The inductive invariant. The first part says how far the two threads    *)
(* can be apart, the second where the real-time thread can be when it has  *)
(* begun a cycle after running was cleared.                                *)
Apart ==
  /\ PlacesOK
  /\ mpc \in ModelPlaces => model = "started"
  /\ mpc \notin ModelPlaces => model # "started" \/ mpc = "crashed"
  /\ mpc \notin ThreadPlaces => rpc \in {"none", "dead"}
  /\ mpc \in BeforeThread => rpc = "none"
  /\ task_err => rpc \in {"test", "end", "dead"}

LastCycle ==
  /\ NumbersOK
  /\ late = 0 \/ (late = 1 /\ ~running
                     /\ rpc \in InModel \cup {"test", "end", "dead"})

IInv == Apart /\ FlagsOK /\ LastCycle

USE DEF MainPlaces, RtPlaces, InModel, ModelPlaces, ThreadPlaces, BeforeThread

LEMMA InitIInv == Init => IInv
<1>1. Init => Apart
  BY DEF Init, Apart, PlacesOK
<1>2. Init => FlagsOK
  BY DEF Init, FlagsOK
<1>3. Init => LastCycle
  BY MaxLateAssumption DEF Init, LastCycle, NumbersOK
<1> QED
  BY <1>1, <1>2, <1>3 DEF IInv

\* A step of main() keeps the threads apart: the join waits for the other one.
LEMMA MainApart == Apart /\ Main => Apart'
<1> SUFFICES ASSUME Apart, Main PROVE Apart'
  OBVIOUS
<1> USE DEF Apart, PlacesOK, MainGo
<1>1. CASE InitTiming
  BY <1>1 DEF InitTiming
<1>2. CASE WaitForStartPkt
  BY <1>2 DEF WaitForStartPkt
<1>3. CASE MdlStart
  BY <1>3 DEF MdlStart
<1>4. CASE CreateThread
  BY <1>4 DEF CreateThread
<1>5. CASE PauseIfNeeded
  BY <1>5 DEF PauseIfNeeded
<1>6. CASE OneStep("oneStep", "sleep")
  BY <1>6 DEF OneStep
<1>7. CASE MainSleep
  BY <1>7 DEF MainSleep
<1>8. CASE MainWhile
  BY <1>8 DEF MainWhile, GoesOn
<1>9. CASE OneStep("lastStep", "stop")
  BY <1>9 DEF OneStep
<1>10. CASE StopThread
  BY <1>10 DEF StopThread
<1>11. CASE Shutdown
  BY <1>11 DEF Shutdown
<1>12. CASE Join
  BY <1>12 DEF Join
<1>13. CASE MdlTerminate
  BY <1>13 DEF MdlTerminate
<1>14. CASE Return
  BY <1>14 DEF Return, ExitCode
<1> QED
  BY <1>1, <1>2, <1>3, <1>4, <1>5, <1>6, <1>7, <1>8, <1>9, <1>10, <1>11,
     <1>12, <1>13, <1>14 DEF Main

\* The other steps leave main() where it is, but for SIGINT in its sleep.
LEMMA OtherApart == Apart /\ (Rt \/ Host \/ Sigint) => Apart'
<1> SUFFICES ASSUME Apart, Rt \/ Host \/ Sigint PROVE Apart'
  OBVIOUS
<1> USE DEF Apart, PlacesOK, RtGo, mainVars
<1>1. CASE RtTest
  BY <1>1 DEF RtTest, RtGoesOn
<1>2. CASE RtWake
  BY <1>2 DEF RtWake
<1>3. CASE RtModel("outputs", "upload")
  BY <1>3 DEF RtModel
<1>4. CASE RtModel("upload", "update")
  BY <1>4 DEF RtModel
<1>5. CASE RtModel("update", "endTrigger")
  BY <1>5 DEF RtModel
<1>6. CASE RtResult
  BY <1>6 DEF RtResult
<1>7. CASE RtEnd
  BY <1>7 DEF RtEnd
<1>8. CASE Host
  BY <1>8 DEF Host
<1>9. CASE Sigint
  BY <1>9 DEF Sigint
<1> QED
  BY <1>1, <1>2, <1>3, <1>4, <1>5, <1>6, <1>7, <1>8, <1>9 DEF Rt

\* The flags stay Booleans.
LEMMA MainFlags == FlagsOK /\ Main => FlagsOK'
<1> SUFFICES ASSUME FlagsOK, Main PROVE FlagsOK'
  OBVIOUS
<1> USE DEF FlagsOK, hostVars
<1>1. CASE InitTiming
  BY <1>1 DEF InitTiming
<1>2. CASE WaitForStartPkt
  BY <1>2 DEF WaitForStartPkt
<1>3. CASE MdlStart
  BY <1>3 DEF MdlStart
<1>4. CASE CreateThread
  BY <1>4 DEF CreateThread
<1>5. CASE PauseIfNeeded
  BY <1>5 DEF PauseIfNeeded
<1>6. CASE OneStep("oneStep", "sleep")
  BY <1>6 DEF OneStep
<1>7. CASE MainSleep
  BY <1>7 DEF MainSleep
<1>8. CASE MainWhile
  BY <1>8 DEF MainWhile, GoesOn
<1>9. CASE OneStep("lastStep", "stop")
  BY <1>9 DEF OneStep
<1>10. CASE StopThread
  BY <1>10 DEF StopThread
<1>11. CASE Shutdown
  BY <1>11 DEF Shutdown
<1>12. CASE Join
  BY <1>12 DEF Join
<1>13. CASE MdlTerminate
  BY <1>13 DEF MdlTerminate
<1>14. CASE Return
  BY <1>14 DEF Return, ExitCode
<1> QED
  BY <1>1, <1>2, <1>3, <1>4, <1>5, <1>6, <1>7, <1>8, <1>9, <1>10, <1>11,
     <1>12, <1>13, <1>14 DEF Main

LEMMA OtherFlags == FlagsOK /\ (Rt \/ Host \/ Sigint) => FlagsOK'
<1> SUFFICES ASSUME FlagsOK, Rt \/ Host \/ Sigint PROVE FlagsOK'
  OBVIOUS
<1> USE DEF FlagsOK, hostVars, mainVars
<1>1. CASE RtTest
  BY <1>1 DEF RtTest, RtGoesOn
<1>2. CASE RtWake
  BY <1>2 DEF RtWake
<1>3. CASE RtModel("outputs", "upload")
  BY <1>3 DEF RtModel
<1>4. CASE RtModel("upload", "update")
  BY <1>4 DEF RtModel
<1>5. CASE RtModel("update", "endTrigger")
  BY <1>5 DEF RtModel
<1>6. CASE RtResult
  BY <1>6 DEF RtResult
<1>7. CASE RtEnd
  BY <1>7 DEF RtEnd
<1>8. CASE Host
  BY <1>8 DEF Host
<1>9. CASE Sigint
  BY <1>9 DEF Sigint
<1> QED
  BY <1>1, <1>2, <1>3, <1>4, <1>5, <1>6, <1>7, <1>8, <1>9 DEF Rt

\* No step of main() begins a cycle or sets running again.
LEMMA MainLastCycle == Apart /\ LastCycle /\ Main => LastCycle'
<1> SUFFICES ASSUME Apart, LastCycle, Main PROVE LastCycle'
  OBVIOUS
<1> USE DEF LastCycle, NumbersOK, MainGo
<1>1. CASE InitTiming
  BY <1>1 DEF InitTiming
<1>2. CASE WaitForStartPkt
  BY <1>2 DEF WaitForStartPkt
<1>3. CASE MdlStart
  BY <1>3 DEF MdlStart
<1>4. CASE CreateThread
  BY <1>4 DEF CreateThread, Apart
<1>5. CASE PauseIfNeeded
  BY <1>5 DEF PauseIfNeeded
<1>6. CASE OneStep("oneStep", "sleep")
  BY <1>6 DEF OneStep
<1>7. CASE MainSleep
  BY <1>7 DEF MainSleep
<1>8. CASE MainWhile
  BY <1>8 DEF MainWhile, GoesOn
<1>9. CASE OneStep("lastStep", "stop")
  BY <1>9 DEF OneStep
<1>10. CASE StopThread
  BY <1>10 DEF StopThread
<1>11. CASE Shutdown
  BY <1>11 DEF Shutdown
<1>12. CASE Join
  BY <1>12 DEF Join
<1>13. CASE MdlTerminate
  BY <1>13 DEF MdlTerminate
<1>14. CASE Return
  BY <1>14 DEF Return, ExitCode
<1> QED
  BY <1>1, <1>2, <1>3, <1>4, <1>5, <1>6, <1>7, <1>8, <1>9, <1>10, <1>11,
     <1>12, <1>13, <1>14 DEF Main

\* A cycle that running no longer allows ends at the test of the loop.
LEMMA OtherLastCycle ==
  Apart /\ LastCycle /\ (Rt \/ Host \/ Sigint) => LastCycle'
<1> SUFFICES ASSUME Apart, LastCycle, Rt \/ Host \/ Sigint PROVE LastCycle'
  OBVIOUS
<1> USE MaxLateAssumption DEF LastCycle, NumbersOK, RtGo, mainVars
<1>1. CASE RtTest
  BY <1>1 DEF RtTest, RtGoesOn
<1>2. CASE RtWake
  BY <1>2 DEF RtWake
<1>3. CASE RtModel("outputs", "upload")
  BY <1>3 DEF RtModel
<1>4. CASE RtModel("upload", "update")
  BY <1>4 DEF RtModel
<1>5. CASE RtModel("update", "endTrigger")
  BY <1>5 DEF RtModel
<1>6. CASE RtResult
  BY <1>6 DEF RtResult
<1>7. CASE RtEnd
  BY <1>7 DEF RtEnd
<1>8. CASE Host
  BY <1>8 DEF Host
<1>9. CASE Sigint
  BY <1>9 DEF Sigint
<1> QED
  BY <1>1, <1>2, <1>3, <1>4, <1>5, <1>6, <1>7, <1>8, <1>9 DEF Rt

LEMMA NextIInv == IInv /\ [Next]_vars => IInv'
<1> SUFFICES ASSUME IInv, [Next]_vars PROVE IInv'
  OBVIOUS
<1>1. CASE Main
  BY <1>1, MainApart, MainFlags, MainLastCycle DEF IInv
<1>2. CASE Rt \/ Host \/ Sigint
  BY <1>2, OtherApart, OtherFlags, OtherLastCycle DEF IInv
<1>3. CASE UNCHANGED vars
  <2>1. Apart'
    BY <1>3 DEF vars, IInv, Apart, PlacesOK
  <2>2. FlagsOK'
    BY <1>3 DEF vars, IInv, FlagsOK
  <2>3. LastCycle'
    BY <1>3 DEF vars, IInv, LastCycle, NumbersOK
  <2> QED
    BY <2>1, <2>2, <2>3 DEF IInv
<1> QED
  BY <1>1, <1>2, <1>3 DEF Next, Ended

(* hrt_main.c: at each place of main() the real-time thread is where it    *)
(* can be then, and the model is in the state both expect.                 *)
THEOREM Invariance == Spec => []IInv
  BY InitIInv, NextIInv, PTL DEF Spec

\* Every variable keeps the type of its C declaration.
THEOREM TypeCorrect == Spec => []TypeOK
<1>1. IInv => TypeOK
  BY DEF IInv, Apart, LastCycle, TypeOK
<1> QED
  BY <1>1, Invariance, PTL

\* run_task() calls the model only between MdlStart() and MdlTerminate().
THEOREM ModelAliveAlways == Spec => []ModelAlive
<1>1. IInv => ModelAlive
  BY DEF IInv, Apart, PlacesOK, ModelAlive
<1> QED
  BY <1>1, Invariance, PTL

\* Only a start that fails leaves main() with external mode open, and then
\* there is an error to return.
ExtInv ==
  /\ mpc = "init" => ext = "closed"
  /\ mpc \in {"join", "terminate"} => ext = "shut"
  /\ mpc \in {"out", "exit"} /\ ext = "open" => err
  /\ mpc = "exit" /\ err => exitCode = 1

LEMMA ExtStep == ExtInv /\ [Next]_vars => ExtInv'
<1> SUFFICES ASSUME ExtInv, [Next]_vars PROVE ExtInv'
  OBVIOUS
<1> USE DEF ExtInv, MainGo
<1>1. CASE InitTiming \/ MdlStart
  BY <1>1 DEF InitTiming, MdlStart
<1>2. CASE WaitForStartPkt \/ CreateThread \/ PauseIfNeeded \/ MainSleep
             \/ StopThread
  BY <1>2 DEF WaitForStartPkt, CreateThread, PauseIfNeeded, MainSleep, StopThread
<1>3. CASE OneStep("oneStep", "sleep") \/ OneStep("lastStep", "stop")
  BY <1>3 DEF OneStep
<1>4. CASE MainWhile
  BY <1>4 DEF MainWhile
<1>5. CASE Shutdown \/ Join
  BY <1>5 DEF Shutdown, Join
<1>6. CASE MdlTerminate \/ Return
  BY <1>6 DEF MdlTerminate, Return, ExitCode
<1>7. CASE Rt
  <2>1. UNCHANGED <<mainVars, ext>>
    BY <1>7 DEF Rt, RtTest, RtWake, RtModel, RtResult, RtEnd
  <2> QED
    BY <2>1 DEF mainVars
<1>8. CASE Host
  BY <1>8 DEF Host, mainVars
<1>9. CASE Sigint
  BY <1>9 DEF Sigint
<1>10. CASE UNCHANGED vars
  BY <1>10 DEF vars
<1> QED
  BY <1>1, <1>2, <1>3, <1>4, <1>5, <1>6, <1>7, <1>8, <1>9, <1>10
     DEF Next, Ended, Main

\* main() returns with the thread gone and the model terminated, and with
\* external mode shut, unless the start failed.
THEOREM CleanExitAlways == Spec => []CleanExit
<1>1. IInv /\ ExtInv => CleanExit
  BY DEF IInv, Apart, PlacesOK, CleanExit, ExtInv
<1>2. Init => ExtInv
  BY DEF Init, ExtInv
<1> QED
  BY <1>1, <1>2, ExtStep, Invariance, PTL DEF Spec

\* At most one model cycle begins after running is cleared.
THEOREM OneMoreCycleAlways == Spec => []OneMoreCycle
<1>1. IInv => OneMoreCycle
  BY DEF IInv, LastCycle, OneMoreCycle
<1> QED
  BY <1>1, Invariance, PTL

\* The loop of run_task() ends with the step that returned an error.
THEOREM NoStepAfterErrorAlways == Spec => []NoStepAfterError
<1>1. IInv => NoStepAfterError
  BY DEF IInv, Apart, NoStepAfterError
<1> QED
  BY <1>1, Invariance, PTL

-----------------------------------------------------------------------------
(* The deadlines.                                                          *)

(* The clock is not started, and then the deadline is on the grid: due is  *)
(* phase less one sample time for every deadline that is not served.       *)
NotStarted ==
  due = Unset /\ phase = Dt /\ backlog = 0 /\ overrun = FALSE /\ took = 0

OnGrid ==
  /\ phase \in 1..Dt /\ backlog \in Nat /\ due \in Int /\ took \in Nat
  /\ due = phase - Dt * (backlog + InStep)

Pace ==
  /\ rpc = "none" => NotStarted
  /\ rpc = "test" => NotStarted \/ OnGrid
  /\ rpc \in InModel \cup {"sleep"} => OnGrid

(* What the messages say: behind a step that kept its deadline the thread  *)
(* is late by its wait for the processor alone, behind an OVERRUN a        *)
(* deadline is waiting.                                                    *)
Punctual ==
  rpc \in {"test", "sleep"} /\ ~overrun => due >= -took /\ took <= Latency

Waiting == rpc \in {"test", "sleep"} /\ overrun => backlog > 0

Messages ==
  /\ overrun \in BOOLEAN /\ toolate \in BOOLEAN
  /\ Punctual /\ Waiting
  /\ toolate /\ rpc = "outputs" => overrun

TimedIInv == Pace /\ Messages

USE DEF InModel

-----------------------------------------------------------------------------
\* One more deadline is one more sample time.
LEMMA OneMore ==
  ASSUME NEW d \in Nat, NEW n \in Nat
  PROVE  /\ d * (n + 1) = d * n + d /\ d * n \in Nat /\ d * 0 = 0
         /\ d * n >= 1 => n >= 1
  OBVIOUS

\* A sample time has at least one tick.
LEMMA DtPositive == Dt \in Nat /\ Dt >= 1 /\ Unset \in Nat
  BY TimeAssumption DEF Unset

\* Each step but Tick is a step of the program without its clock.
LEMMA TimedStep == [TimedNext]_timedVars => [Next]_vars
<1>1. TimedRt => Rt
  BY DEF TimedRt, TimedRtTest, TimedRtWake, TimedRtResult, Rt
<1>2. Tick => UNCHANGED vars
  BY DEF Tick
<1>3. UNCHANGED timedVars => UNCHANGED vars
  BY DEF timedVars
<1> QED
  BY <1>1, <1>2, <1>3 DEF TimedNext, Next, Alive

(* The program with its clock is the program: what HrtMain promises holds  *)
(* of the real-time thread that keeps deadlines.                           *)
THEOREM TimedImplements == TimedSpec => Spec
<1>1. TimedInit => Init
  BY DEF TimedInit
<1> QED
  BY <1>1, TimedStep, PTL DEF TimedSpec, Spec

-----------------------------------------------------------------------------
LEMMA InitTimedIInv == TimedInit => TimedIInv
<1> SUFFICES ASSUME TimedInit PROVE TimedIInv
  OBVIOUS
<1>1. Pace
  BY DEF TimedInit, Init, Pace, NotStarted
<1>2. Messages
  BY DEF TimedInit, Init, Messages, Punctual, Waiting
<1> QED
  BY <1>1, <1>2 DEF TimedIInv

\* The first test starts the clock, the others leave it alone.
LEMMA TestTimed == TimedIInv /\ TimedRtTest => TimedIInv'
<1> SUFFICES ASSUME TimedIInv, TimedRtTest PROVE TimedIInv'
  OBVIOUS
<1> USE DtPositive DEF TimedIInv, TimedRtTest, RtTest, RtGo
<1>0. rpc = "test" /\ rpc' \in {"sleep", "end"}
  OBVIOUS
<1>1. CASE due = Unset
  <2>1. NotStarted
    BY <1>0, <1>1, OneMore DEF Pace, OnGrid, Unset, InStep
  <2>2. due' = Dt /\ phase' = Dt /\ took' = 0 /\ backlog' = 0
        /\ overrun' = FALSE /\ toolate' = toolate
    BY <1>1, <2>1 DEF NotStarted, Messages
  <2>3. Pace'
    BY <1>0, <2>2, OneMore DEF Pace, OnGrid, InStep
  <2>4. due' >= -took' /\ took' <= Latency
    BY <2>2, TimeAssumption
  <2>5. Messages'
    BY <1>0, <2>2, <2>4 DEF Messages, Punctual, Waiting
  <2> QED
    BY <2>3, <2>5
<1>2. CASE due # Unset
  <2>1. UNCHANGED timeVars
    BY <1>2
  <2>2. OnGrid
    BY <1>0, <1>2 DEF Pace, NotStarted
  <2>3. Pace'
    BY <1>0, <2>1, <2>2 DEF Pace, OnGrid, InStep, timeVars
  <2>4. Messages'
    BY <1>0, <2>1 DEF Messages, Punctual, Waiting, timeVars
  <2> QED
    BY <2>3, <2>4
<1> QED
  BY <1>1, <1>2

\* A wake serves a deadline that came, so one is waiting.
LEMMA WakeTimed == TimedIInv /\ TimedRtWake => TimedIInv'
<1> SUFFICES ASSUME TimedIInv, TimedRtWake PROVE TimedIInv'
  OBVIOUS
<1> USE DtPositive DEF TimedIInv, TimedRtWake, RtWake, RtGo
<1>0. rpc = "sleep" /\ rpc' = "outputs" /\ due <= 0
  OBVIOUS
<1>1. OnGrid /\ due = phase - Dt * backlog
  BY <1>0 DEF Pace, OnGrid, InStep
<1>2. backlog \in Nat /\ backlog >= 1
  BY <1>0, <1>1, OneMore DEF OnGrid
<1>3. backlog' = backlog - 1 /\ backlog' \in Nat /\ backlog = backlog' + 1
  BY <1>2
<1>4. Pace'
  BY <1>0, <1>1, <1>3 DEF Pace, OnGrid, InStep
<1>5. toolate' => overrun'
  <2>1. ~overrun => due >= -Latency
    BY <1>0, <1>1, TimeAssumption DEF Messages, Punctual, OnGrid
  <2> QED
    BY <1>1, <2>1, TimeAssumption DEF OnGrid, Messages
<1>6. Messages'
  BY <1>0, <1>5 DEF Messages, Punctual, Waiting
<1> QED
  BY <1>4, <1>6

\* The next deadline is one sample time on: behind zero only if one came.
LEMMA ResultTimed == TimedIInv /\ TimedRtResult => TimedIInv'
<1> SUFFICES ASSUME TimedIInv, TimedRtResult PROVE TimedIInv'
  OBVIOUS
<1> USE DtPositive DEF TimedIInv, TimedRtResult, RtResult, RtGo
<1>0. rpc = "endTrigger" /\ rpc' = "test"
  OBVIOUS
<1>1. OnGrid /\ due = phase - Dt * (backlog + 1)
  BY <1>0 DEF Pace, OnGrid, InStep
<1>2. due' = due + Dt /\ took' = 0 /\ UNCHANGED <<phase, backlog, toolate>>
  BY DEF NextDeadline
<1>3. /\ overrun' \in BOOLEAN
      /\ overrun' => due' < 0
      /\ ~overrun' => due' >= 0
  <2>1. overrun' = Overrun(due')
    OBVIOUS
  <2>2. due' \in Int
    BY <1>1, <1>2 DEF OnGrid
  <2>3. Overrun(due') \in BOOLEAN
    BY <2>2 DEF Overrun
  <2>4. overrun' \in BOOLEAN
    BY <2>1, <2>3, Zenon
  <2>5. overrun' <=> due' < 0
    BY <2>1, Zenon DEF Overrun
  <2> QED
    BY <2>2, <2>4, <2>5
<1>4. due' = phase - Dt * backlog /\ due' \in Int
  BY <1>1, <1>2, OneMore DEF OnGrid
<1>5. Pace'
  BY <1>0, <1>1, <1>2, <1>4 DEF Pace, OnGrid, InStep
<1>6. overrun' => backlog > 0
  <2>1. due' < 0 => Dt * backlog >= 1
    BY <1>1, <1>4, OneMore DEF OnGrid
  <2> QED
    BY <1>1, <1>3, <2>1, OneMore DEF OnGrid
<1>7. ~overrun' => due' >= -took' /\ took' <= Latency
  BY <1>2, <1>4, <1>3, TimeAssumption
<1>8. Messages'
  BY <1>0, <1>2, <1>6, <1>7, <1>3 DEF Messages, Punctual, Waiting
<1> QED
  BY <1>5, <1>8

\* The other steps of the model and the thread's end do not touch the clock.
LEMMA ModelTimed ==
  ASSUME NEW from \in InModel, NEW to \in InModel \ {"outputs"},
         TimedIInv, RtModel(from, to), UNCHANGED timeVars
  PROVE  TimedIInv'
<1> USE DEF TimedIInv, RtModel, RtGo, timeVars
<1>1. Pace'
  BY DEF Pace, OnGrid, InStep
<1>2. Messages'
  BY DEF Messages, Punctual, Waiting
<1> QED
  BY <1>1, <1>2

LEMMA EndTimed == TimedIInv /\ RtEnd /\ UNCHANGED timeVars => TimedIInv'
<1> SUFFICES ASSUME TimedIInv, RtEnd, UNCHANGED timeVars PROVE TimedIInv'
  OBVIOUS
<1>1. rpc' = "dead"
  BY DEF RtEnd, RtGo
<1>2. Pace'
  BY <1>1 DEF Pace
<1>3. Messages'
  BY <1>1 DEF TimedIInv, Messages, Punctual, Waiting, timeVars
<1> QED
  BY <1>2, <1>3 DEF TimedIInv

\* Time passes: a deadline comes whenever the grid is reached.
LEMMA TickTimed == TimedIInv /\ Tick => TimedIInv'
<1> SUFFICES ASSUME TimedIInv, Tick PROVE TimedIInv'
  OBVIOUS
<1> USE DtPositive DEF TimedIInv, Tick
<1>0. rpc' = rpc /\ rpc \in InModel \cup {"sleep"} /\ InStep' = InStep
      /\ UNCHANGED <<overrun, toolate>>
  BY DEF MayTake, vars, InStep
<1>1. OnGrid /\ InStep \in {0, 1}
  BY <1>0 DEF Pace, InStep
<1>2. due' \in Int /\ took' \in Nat /\ due' = due - 1
  BY <1>1 DEF OnGrid
<1>3. OnGrid'
  <2>1. CASE phase = 1
    <3>1. phase' = Dt /\ backlog' = backlog + 1
      BY <2>1
    <3>2. Dt * (backlog' + InStep) = Dt * (backlog + InStep) + Dt
      <4>1. backlog + InStep \in Nat
            /\ backlog' + InStep = (backlog + InStep) + 1
        BY <1>1, <3>1 DEF OnGrid
      <4> QED
        BY <4>1, OneMore
    <3>3. Dt * (backlog + InStep) \in Nat
      BY <1>1, OneMore DEF OnGrid
    <3> QED
      BY <1>0, <1>1, <1>2, <2>1, <3>1, <3>2, <3>3 DEF OnGrid
  <2>2. CASE phase # 1
    <3>1. phase' = phase - 1 /\ backlog' = backlog /\ phase' \in 1..Dt
      BY <1>1, <2>2 DEF OnGrid
    <3>2. Dt * (backlog + InStep) \in Nat
      BY <1>1, OneMore DEF OnGrid
    <3> QED
      BY <1>0, <1>1, <1>2, <3>1, <3>2 DEF OnGrid
  <2> QED
    BY <2>1, <2>2
<1>4. Pace'
  BY <1>0, <1>3 DEF Pace
<1>5. Punctual'
  <2> SUFFICES ASSUME rpc = "sleep", ~overrun
               PROVE  due' >= -took' /\ took' <= Latency
    BY <1>0 DEF Punctual
  <2>1. due >= -took /\ took <= Latency
    BY DEF Messages, Punctual
  <2> QED
    BY <1>1, <2>1, TimeAssumption DEF OnGrid, MayTake
<1>6. Waiting'
  <2>1. backlog' \in Nat /\ backlog' >= backlog
    BY <1>1 DEF OnGrid
  <2> QED
    BY <1>0, <1>1, <2>1 DEF Messages, Waiting, OnGrid
<1> QED
  BY <1>0, <1>4, <1>5, <1>6 DEF Messages

(* main(), the host and SIGINT do not touch the clock; they start the      *)
(* thread, once, and end it in its sleep.                                  *)
LEMMA OthersTimed ==
  IInv /\ TimedIInv /\ (Main \/ Host \/ Sigint) /\ UNCHANGED timeVars
    => TimedIInv'
<1> SUFFICES ASSUME IInv, TimedIInv, Main \/ Host \/ Sigint,
                    UNCHANGED timeVars
             PROVE  TimedIInv'
  OBVIOUS
<1>1. \/ rpc' = rpc
      \/ rpc = "none" /\ rpc' \in {"test", "none"}
      \/ rpc' = "end"
  <2>1. CASE CreateThread
    BY <2>1 DEF CreateThread, MainGo, IInv, Apart, BeforeThread
  <2>2. CASE Main /\ ~CreateThread
    BY <2>2 DEF Main, InitTiming, WaitForStartPkt, MdlStart, PauseIfNeeded,
                OneStep, MainSleep, MainWhile, StopThread, Shutdown, Join,
                MdlTerminate, Return
  <2>3. CASE Host \/ Sigint
    BY <2>3 DEF Host, Sigint
  <2> QED
    BY <2>1, <2>2, <2>3
<1>2. Pace'
  BY <1>1 DEF TimedIInv, Pace, NotStarted, OnGrid, InStep, timeVars
<1>3. Messages'
  BY <1>1, DtPositive, TimeAssumption
     DEF TimedIInv, Pace, NotStarted, Messages, Punctual, Waiting, timeVars
<1> QED
  BY <1>2, <1>3 DEF TimedIInv

LEMMA NextTimedIInv ==
  IInv /\ TimedIInv /\ [TimedNext]_timedVars => TimedIInv'
<1> SUFFICES ASSUME IInv, TimedIInv, [TimedNext]_timedVars
             PROVE  TimedIInv'
  OBVIOUS
<1>1. CASE TimedRt
  BY <1>1, TestTimed, WakeTimed, ResultTimed, ModelTimed, EndTimed
     DEF TimedRt
<1>2. CASE Tick
  BY <1>2, TickTimed
<1>3. CASE (Main \/ Host \/ Sigint) /\ UNCHANGED timeVars
  BY <1>3, OthersTimed
<1>4. CASE UNCHANGED vars /\ UNCHANGED timeVars
  <2>1. Pace'
    BY <1>4 DEF vars, timeVars, TimedIInv, Pace, NotStarted, OnGrid, InStep
  <2>2. Messages'
    BY <1>4 DEF vars, timeVars, TimedIInv, Messages, Punctual, Waiting
  <2> QED
    BY <2>1, <2>2 DEF TimedIInv
<1> QED
  BY <1>1, <1>2, <1>3, <1>4 DEF TimedNext, Ended, timedVars

(* run_task(): grid and deadline move together, and a thread that is late  *)
(* is late by its wait for the processor or by an overrun before.          *)
THEOREM TimedInvariance == TimedSpec => []TimedIInv
<1>1. TimedSpec => []IInv
  BY TimedImplements, Invariance, PTL
<1> QED
  BY <1>1, InitTimedIInv, NextTimedIInv, PTL DEF TimedSpec

-----------------------------------------------------------------------------
(* However long steps take, the deadline stays on the grid of the sample   *)
(* time and no cycle begins before its deadline or is left out.            *)
THEOREM KeepsPaceAlways == TimedSpec => []KeepsPace
<1>1. TimedIInv => KeepsPace
  BY DEF TimedIInv, Pace, OnGrid, KeepsPace
<1> QED
  BY <1>1, TimedInvariance, PTL

(* The OVERRUN and TOO LATE messages of run_task() tell the truth: TOO     *)
(* LATE only behind an OVERRUN, and OVERRUN only if a deadline was missed. *)
THEOREM LateExplainedAlways == TimedSpec => []LateExplained
<1>1. TimedIInv => LateExplained
  BY DEF TimedIInv, Messages, Waiting, LateExplained
<1> QED
  BY <1>1, TimedInvariance, PTL
=============================================================================
