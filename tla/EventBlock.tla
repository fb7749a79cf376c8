----------------------------- MODULE EventBlock -----------------------------
(***************************************************************************)
(* The output code of the event block, rtw/blocks/event.tlc, and the host, *)
(* whose external mode writes the parameter Trigger from main() while the  *)
(* real-time thread is in that code. Nothing keeps the two apart.          *)
(***************************************************************************)
EXTENDS Integers

CONSTANTS
  Wrap      \* bound: Trigger and its counter wrap at this, for 2^32

VARIABLES
  SingleShot,   \* the block's option
  Trigger,      \* parameter, counted up by the host
  counter,      \* TriggerCounter, in the IWork vector
  y,            \* the output
  at,           \* "begin", or "copy" between the two reads of Trigger
  owed,         \* history: counts of the host that no pulse has answered
  gap           \* history: the last count came between the two reads

vars == <<SingleShot, Trigger, counter, y, at, owed, gap>>

Next1(n) == (n + 1) % Wrap

\* Without SingleShot: a pulse for one count, with a cycle of 0 behind it. And
\* wrong: the output is not taken back, the counts of one pulse are dropped.
NoPause == FALSE
Pause == y

AllCounts == Trigger
NextCount == Next1(counter)

Chain ==
  /\ ~SingleShot
  /\ IF Pause
     THEN y' = FALSE /\ UNCHANGED <<counter, owed>>
     ELSE IF Trigger # counter
          THEN /\ y' = TRUE
               /\ counter' = NextCount
               /\ owed' = IF y THEN owed ELSE owed - 1
          ELSE UNCHANGED <<y, counter, owed>>
  /\ UNCHANGED <<SingleShot, Trigger, at, gap>>

\* With SingleShot: the output, then the counter, each from its own read.
ShotCompare ==
  /\ SingleShot /\ at = "begin" /\ at' = "copy"
  /\ y' = (Trigger # counter)
  /\ owed' = IF y' THEN 0 ELSE owed
  /\ UNCHANGED <<SingleShot, Trigger, counter, gap>>

ShotCopy ==
  /\ SingleShot /\ at = "copy" /\ at' = "begin"
  /\ counter' = Trigger
  /\ UNCHANGED <<SingleShot, Trigger, y, owed, gap>>

\* The host counts Trigger up, at any time; bound: not round to the counter.
Download ==
  /\ owed < Wrap - 1
  /\ Trigger' = Next1(Trigger)
  /\ owed' = owed + 1
  /\ gap' = (at = "copy")
  /\ UNCHANGED <<SingleShot, counter, y, at>>

Init ==
  /\ SingleShot \in BOOLEAN
  /\ Trigger = 0 /\ counter = 0 /\ y = FALSE /\ at = "begin"
  /\ owed = 0 /\ gap = FALSE

Next == Chain \/ ShotCompare \/ ShotCopy \/ Download

(* Events get lost only in one way: a chain shows every count by a pulse   *)
(* of its own, and a single shot answers a count by its next pulse unless  *)
(* the last count came between the two reads of Trigger.                   *)
EventsShown ==
  IF SingleShot
  THEN at = "begin" /\ owed > 0 => Trigger # counter \/ gap
  ELSE (counter + owed) % Wrap = Trigger
=============================================================================
