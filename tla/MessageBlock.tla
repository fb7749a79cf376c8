---------------------------- MODULE MessageBlock ----------------------------
(***************************************************************************)
(* The output code of the message block, rtw/blocks/message.tlc: a cycle   *)
(* of one signal. External: the input signals, the parameter Enable that   *)
(* the host may write, and pdserv_event_set(), which this version of the   *)
(* program no longer links.                                                *)
(***************************************************************************)
EXTENDS Integers

CONSTANTS
  Confirm   \* parameter: the delay, in sample times

VARIABLES
  Invert,     \* the block's option
  ExtReset,   \* the block has a second input, which resets the message
  y,          \* the output, the time of the message, is not 0
  delay,      \* ConfirmTime, in the RWork vector
  told,       \* external: state that pdserv was told last
  on          \* history: cycles since the condition came, up to Confirm + 1

vars == <<Invert, ExtReset, y, delay, told, on>>

\* pdserv_event_set() and the output. And wrong: the output is forgotten.
EventSetAlone(state) == told' = state /\ UNCHANGED y
EventSet(state) == told' = state /\ y' = state

\* The delay starts anew. And wrong: it goes on where it was.
DelayKept == delay
DelayReset == 0

Raise ==
  IF y THEN UNCHANGED <<y, told, delay>>
  ELSE /\ delay' = delay + 1
       /\ IF delay' > Confirm THEN EventSet(TRUE) ELSE UNCHANGED <<y, told>>

Clear(reset) ==
  /\ delay' = DelayReset
  /\ IF y /\ (ExtReset => reset) THEN EventSet(FALSE)
                                 ELSE UNCHANGED <<y, told>>

Outputs(u, enable, reset) ==
  /\ IF u # Invert /\ enable
     THEN Raise /\ on' = IF on > Confirm THEN on ELSE on + 1
     ELSE Clear(reset) /\ on' = 0
  /\ UNCHANGED <<Invert, ExtReset>>

Init ==
  /\ Invert \in BOOLEAN /\ ExtReset \in BOOLEAN
  /\ y = FALSE /\ delay = 0 /\ told = FALSE /\ on = 0

Next == \E u, enable, reset \in BOOLEAN : Outputs(u, enable, reset)

(* A message stands for a condition that has lasted longer than Confirm    *)
(* without a break: it comes then, not earlier and once, and without an    *)
(* external reset it goes with the condition.                              *)
MessageConfirmed ==
  [][/\ on' > Confirm => y'
     /\ y' /\ ~ExtReset => on' > Confirm
     /\ told' = y'
     /\ ~told /\ told' => on <= Confirm /\ on' = Confirm + 1]_vars
=============================================================================
