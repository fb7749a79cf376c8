------------------------------- MODULE Blocks -------------------------------
(***************************************************************************)
(* A diagram with one block of rtw/blocks that has a state of its own. The *)
(* variable kind says which; the others keep their first values.           *)
(***************************************************************************)
EXTENDS Integers

CONSTANTS Wrap, Confirm, Elements, MaxWidth, Levels, Width

ASSUME BlocksAssumption ==
  /\ Wrap \in Nat \ {0} /\ Confirm \in Nat
  /\ Elements \subseteq Int /\ MaxWidth \in Nat \ {0}
  /\ Levels \subseteq Nat /\ Width \in Nat \ {0}

VARIABLES
  kind,                                                   \* of the block
  SingleShot, Trigger, counter, shown, at, owed, gap,     \* EventBlock
  Rx, ForceOutput, ForceWork, forced, place, written,     \* ForceBlock
  Invert, ExtReset, y, delay, told, on,                   \* MessageBlock
  FindType, u, program, simulation,                       \* FindIdx
  hasReset, in, State, resets, seen                       \* StateBlock

E == INSTANCE EventBlock WITH y <- shown
F == INSTANCE ForceBlock WITH
  Force <- ForceWork, at <- place, gap <- written
M == INSTANCE MessageBlock
X == INSTANCE FindIdx
S == INSTANCE StateBlock WITH shown <- seen

eventVars == <<SingleShot, Trigger, counter, shown, at, owed, gap>>
forceVars == <<Rx, ForceOutput, ForceWork, forced, place, written>>
messageVars == <<Invert, ExtReset, y, delay, told, on>>
findVars == <<FindType, u, program, simulation>>
stateVars == <<hasReset, in, State, resets, seen>>
vars == <<kind, eventVars, forceVars, messageVars, findVars, stateVars>>

Init ==
  /\ kind \in {"event", "force", "message", "findidx", "state"}
  /\ IF kind = "event" THEN E!Init ELSE E!Init /\ SingleShot
  /\ IF kind = "force" THEN F!Init ELSE F!Init /\ Rx
  /\ IF kind = "message" THEN M!Init ELSE M!Init /\ Invert /\ ExtReset
  /\ IF kind = "findidx" THEN X!Init
     ELSE X!Init /\ FindType = X!FirstMin /\ u[1] = CHOOSE v \in Elements : TRUE
  /\ IF kind = "state" THEN S!Init ELSE S!Init /\ hasReset

Next ==
  /\ UNCHANGED kind
  /\ \/ /\ kind = "event" /\ E!Next
        /\ UNCHANGED <<forceVars, messageVars, findVars, stateVars>>
     \/ /\ kind = "force" /\ F!Next
        /\ UNCHANGED <<eventVars, messageVars, findVars, stateVars>>
     \/ /\ kind = "message" /\ M!Next
        /\ UNCHANGED <<eventVars, forceVars, findVars, stateVars>>
     \/ /\ kind = "findidx" /\ X!Next
        /\ UNCHANGED <<eventVars, forceVars, messageVars, stateVars>>
     \/ /\ kind = "state" /\ S!Next
        /\ UNCHANGED <<eventVars, forceVars, messageVars, findVars>>

Spec == Init /\ [][Next]_vars

\* An event of the host is shown, or lost between two reads of Trigger only.
EventsShown == E!EventsShown

\* A variable is forced exactly if the host wants it.
ForceFollows == F!ForceFollows

\* A message stands for a condition that has lasted.
MessageConfirmed == M!MessageConfirmed

\* Program and simulation find the extreme.
FindsExtreme == X!FindsExtreme

\* A reset input resets the master once for each time it was set.
ResetOnRelease == S!ResetOnRelease
=============================================================================
