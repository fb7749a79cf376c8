------------------------------ MODULE HrtMain ------------------------------
(***************************************************************************)
(* rtw/src/hrt_main.c: the life of the generated program. The main thread  *)
(* initialises the model, starts the real-time thread run_task() and then  *)
(* serves Simulink's external mode every 20 ms until one of the threads,   *)
(* or SIGINT, ends the program. The two threads share plain variables      *)
(* (running, task.err, keepRunning); pthread_join() is their only          *)
(* synchronisation.                                                        *)
(*                                                                         *)
(* External: the host at the other end of external mode, the generated     *)
(* model (MdlStart, MdlOutputs, ...), the external mode library, signals.  *)
(***************************************************************************)
EXTENDS Naturals

CONSTANTS
  MaxLate   \* bound: cycles counted after the stop, 0..MaxLate

ASSUME MaxLateAssumption == MaxLate \in Nat

VARIABLES
  mpc,          \* place of the main thread
  rpc,          \* place of the real-time thread, "none" before it exists
  running,      \* main()'s running, written by both threads
  keepRunning,  \* cleared by intHandler()
  err,          \* main()'s err: an error of the initialisation
  task_err,     \* task.err: the error status a model step returned
  model,        \* the generated model: "new", "started", "terminated"
  ext,          \* external mode library: "closed", "open", "shut"
  startPkt,     \* the host has sent the start packet
  paused,       \* the host has paused the model
  stopReq,      \* the host has requested a stop (rtmGetStopRequested)
  late,         \* history: model cycles begun after running was cleared
  exitCode      \* what main() returned

mainVars == <<mpc, err, exitCode>>
hostVars == <<startPkt, paused, stopReq>>
vars == <<mpc, rpc, running, keepRunning, err, task_err, model, ext,
          startPkt, paused, stopReq, late, exitCode>>

-----------------------------------------------------------------------------
(* main()                                                                  *)

MainGo(from, to) == mpc = from /\ mpc' = to

\* init_application() up to rtExtModeCheckInit(): the timing engine may refuse.
InitTiming ==
  /\ \/ MainGo("init", "waitStart") /\ ext' = "open" /\ UNCHANGED err
     \/ MainGo("init", "out") /\ err' = TRUE /\ UNCHANGED ext
  /\ UNCHANGED <<rpc, running, keepRunning, task_err, model, hostVars, late,
                 exitCode>>

\* rtExtModeWaitForStartPkt() returns on the start packet or a stop request.
WaitForStartPkt ==
  /\ MainGo("waitStart", "mdlStart")
  /\ startPkt \/ stopReq
  /\ UNCHANGED <<rpc, running, keepRunning, err, task_err, model, ext,
                 hostVars, late, exitCode>>

\* MdlStart(); with an error status the model is terminated at once.
MdlStart ==
  /\ \/ MainGo("mdlStart", "create") /\ model' = "started" /\ UNCHANGED err
     \/ MainGo("mdlStart", "out") /\ model' = "terminated" /\ err' = TRUE
  /\ UNCHANGED <<rpc, running, keepRunning, task_err, ext, hostVars, late,
                 exitCode>>

\* pthread_create(), whose result is not looked at.
CreateThread ==
  /\ MainGo("create", "pause")
  /\ rpc' \in {"test", "none"}
  /\ UNCHANGED <<running, keepRunning, err, task_err, model, ext, hostVars,
                 late, exitCode>>

\* rtExtModePauseIfNeeded() holds the main thread while the host pauses.
PauseIfNeeded ==
  /\ MainGo("pause", "oneStep")
  /\ ~paused \/ stopReq
  /\ UNCHANGED <<rpc, running, keepRunning, err, task_err, model, ext,
                 hostVars, late, exitCode>>

\* rtExtModeOneStep(): one exchange with the host, which may pause or stop.
OneStep(from, to) ==
  /\ MainGo(from, to)
  /\ paused' \in BOOLEAN
  /\ stopReq' \in {stopReq, TRUE}
  /\ UNCHANGED <<rpc, running, keepRunning, err, task_err, model, ext,
                 startPkt, late, exitCode>>

\* The 20 ms sleep ends in time or by a signal.
MainSleep ==
  /\ MainGo("sleep", "while")
  /\ UNCHANGED <<rpc, running, keepRunning, err, task_err, model, ext,
                 hostVars, late, exitCode>>

\* The condition of main()'s loop. And wrong: it forgets SIGINT.
GoesOnUntilError == ~err /\ running
GoesOn == ~err /\ running /\ keepRunning

MainWhile ==
  /\ MainGo("while", IF GoesOn THEN "pause" ELSE "lastStep")
  /\ UNCHANGED <<rpc, running, keepRunning, err, task_err, model, ext,
                 hostVars, late, exitCode>>

StopThread ==
  /\ MainGo("stop", "shutdown")
  /\ running' = FALSE
  /\ UNCHANGED <<rpc, keepRunning, err, task_err, model, ext, hostVars, late,
                 exitCode>>

\* rtExtModeShutdown() comes before the real-time thread is waited for.
Shutdown ==
  /\ MainGo("shutdown", "join")
  /\ ext' = "shut"
  /\ UNCHANGED <<rpc, running, keepRunning, err, task_err, model, hostVars,
                 late, exitCode>>

(* pthread_join(); of a thread that was never created it may return an     *)
(* error, which is ignored, or crash.                                      *)
\* And wrong: the thread is not waited for.
NoJoin ==
  /\ MainGo("join", "terminate")
  /\ UNCHANGED <<rpc, running, keepRunning, err, task_err, model, ext,
                 hostVars, late, exitCode>>

Join ==
  /\ \/ rpc = "dead" /\ MainGo("join", "terminate")
     \/ rpc = "none" /\ mpc = "join" /\ mpc' \in {"terminate", "crashed"}
  /\ UNCHANGED <<rpc, running, keepRunning, err, task_err, model, ext,
                 hostVars, late, exitCode>>

\* And wrong: the model is not terminated.
NoTerminate ==
  /\ MainGo("terminate", "out")
  /\ UNCHANGED <<rpc, running, keepRunning, err, task_err, model, ext,
                 hostVars, late, exitCode>>

MdlTerminate ==
  /\ MainGo("terminate", "out")
  /\ model' = "terminated"
  /\ UNCHANGED <<rpc, running, keepRunning, err, task_err, ext, hostVars,
                 late, exitCode>>

\* The label out: the exit code tells an error.
ExitCode == IF err THEN 1 ELSE 0

Return ==
  /\ MainGo("out", "exit")
  /\ exitCode' = ExitCode
  /\ UNCHANGED <<rpc, running, keepRunning, err, task_err, model, ext,
                 hostVars, late>>

Main ==
  \/ InitTiming \/ WaitForStartPkt \/ MdlStart \/ CreateThread
  \/ PauseIfNeeded \/ OneStep("oneStep", "sleep") \/ MainSleep \/ MainWhile
  \/ OneStep("lastStep", "stop") \/ StopThread \/ Shutdown
  \/ Join \/ MdlTerminate \/ Return

-----------------------------------------------------------------------------
(* run_task() and rt_OneStepMain()                                         *)

RtGo(from, to) == rpc = from /\ rpc' = to

\* The first two conditions of the while statement. And wrong: only one.
RtUntilError == ~task_err
RtWhileRunning == running
RtGoesOn == ~task_err /\ running

RtTest ==
  /\ RtGo("test", IF RtGoesOn THEN "sleep" ELSE "end")
  /\ UNCHANGED <<mainVars, running, keepRunning, task_err, model, ext,
                 hostVars, late>>

\* The third one: clock_nanosleep() reached the deadline.
RtWake ==
  /\ RtGo("sleep", "outputs")
  /\ late' = IF ~running /\ late < MaxLate THEN late + 1 ELSE late
  /\ UNCHANGED <<mainVars, running, keepRunning, task_err, model, ext,
                 hostVars>>

\* MdlOutputs(); external mode upload; MdlUpdate(); end trigger.
RtModel(from, to) ==
  /\ RtGo(from, to)
  /\ UNCHANGED <<mainVars, running, keepRunning, task_err, model, ext,
                 hostVars, late>>

\* The step returns the model's error status.
RtResult ==
  /\ RtGo("endTrigger", "test")
  /\ task_err' \in BOOLEAN
  /\ UNCHANGED <<mainVars, running, keepRunning, model, ext, hostVars, late>>

\* The thread's last statement tells main(). And wrong: it does not.
RtEndSilent ==
  /\ RtGo("end", "dead")
  /\ UNCHANGED <<mainVars, running, keepRunning, task_err, model, ext,
                 hostVars, late>>

RtEnd ==
  /\ RtGo("end", "dead")
  /\ running' = FALSE
  /\ UNCHANGED <<mainVars, keepRunning, task_err, model, ext, hostVars, late>>

Rt ==
  \/ RtTest \/ RtWake
  \/ RtModel("outputs", "upload") \/ RtModel("upload", "update")
  \/ RtModel("update", "endTrigger")
  \/ RtResult \/ RtEnd

-----------------------------------------------------------------------------
(* The environment                                                         *)

\* The host connects and starts, continues a paused model, or asks to stop,
\* while main() is in a call that listens to it.
Host ==
  /\ mpc \in {"waitStart", "pause"}
  /\ startPkt' \in {startPkt, TRUE}
  /\ paused' \in {paused, FALSE}
  /\ stopReq' \in {stopReq, TRUE}
  /\ UNCHANGED <<mainVars, rpc, running, keepRunning, task_err, model, ext,
                 late>>

\* SIGINT runs intHandler() in one of the threads and interrupts its sleep.
Sigint ==
  /\ mpc # "exit"
  /\ keepRunning' = FALSE
  /\ \/ mpc = "sleep" /\ mpc' = "while" /\ UNCHANGED rpc
     \/ rpc = "sleep" /\ rpc' = "end" /\ UNCHANGED mpc
     \/ UNCHANGED <<mpc, rpc>>
  /\ UNCHANGED <<running, err, task_err, model, ext, hostVars, late, exitCode>>

Ended == mpc \in {"exit", "crashed"} /\ UNCHANGED vars

Init ==
  /\ mpc = "init"
  /\ rpc = "none"
  /\ running = TRUE
  /\ keepRunning = TRUE
  /\ err = FALSE
  /\ task_err = FALSE
  /\ model = "new"
  /\ ext = "closed"
  /\ startPkt = FALSE
  /\ paused = FALSE
  /\ stopReq = FALSE
  /\ late = 0
  /\ exitCode = 0

Next ==
  \/ mpc \notin {"exit", "crashed"} /\ (Main \/ Rt \/ Host \/ Sigint)
  \/ Ended

Spec == Init /\ [][Next]_vars

\* Both threads are scheduled; nothing is assumed of the host or of signals.
FairSpec == Spec /\ WF_vars(Main) /\ WF_vars(Rt)

-----------------------------------------------------------------------------
(* Properties                                                              *)

MainPlaces == {"init", "waitStart", "mdlStart", "create", "pause", "oneStep",
               "sleep", "while", "lastStep", "stop", "shutdown", "join",
               "terminate", "out", "exit", "crashed"}
RtPlaces == {"none", "test", "sleep", "outputs", "upload", "update",
             "endTrigger", "end", "dead"}
InModel == {"outputs", "upload", "update", "endTrigger"}

PlacesOK ==
  /\ mpc \in MainPlaces
  /\ rpc \in RtPlaces
  /\ model \in {"new", "started", "terminated"}
  /\ ext \in {"closed", "open", "shut"}

FlagsOK ==
  /\ running \in BOOLEAN /\ keepRunning \in BOOLEAN
  /\ err \in BOOLEAN /\ task_err \in BOOLEAN
  /\ startPkt \in BOOLEAN /\ paused \in BOOLEAN /\ stopReq \in BOOLEAN

NumbersOK ==
  /\ late \in 0..MaxLate
  /\ exitCode \in {0, 1}

\* The variables hold values of the types of the C declarations.
TypeOK == PlacesOK /\ FlagsOK /\ NumbersOK

\* The real-time thread runs the model only between a successful MdlStart
\* and MdlTerminate, although nothing but the join keeps main() from
\* terminating the model.
ModelAlive == rpc \in InModel => model = "started"

\* When the program ends, a model that was started has been terminated, the
\* real-time thread is gone, and external mode is shut unless the start failed.
CleanExit ==
  mpc = "exit" => /\ rpc \in {"none", "dead"}
                  /\ model # "started"
                  /\ ext = "open" => exitCode = 1

\* Once running is cleared at most the cycle whose sleep has begun still runs.
OneMoreCycle == late <= 1

\* After a step that returned an error the model is not stepped again.
NoStepAfterError == task_err => rpc \notin InModel \cup {"sleep"}

\* Main is held by the host: before the start packet or in a pause.
HeldByHost == ~stopReq /\ ((mpc = "waitStart" /\ ~startPkt)
                             \/ (mpc = "pause" /\ paused))
Over == mpc \in {"exit", "crashed"}

\* SIGINT ends the program, and so does a model error, which only the
\* real-time thread sees, unless the host holds main() in an external mode
\* call forever.
EndsWhenAsked ==
  (~keepRunning \/ task_err) ~> (Over \/ []HeldByHost)

\* "Fatal error" and exit code 1 tell of an error; a model error is one.
ErrorReported == mpc = "exit" => (exitCode = 1 <=> err \/ task_err)
=============================================================================
