----------------------------- MODULE ForceBlock -----------------------------
(***************************************************************************)
(* Forcing a variable in the RtIPC blocks: the output code of              *)
(* rtw/blocks/rtipc_rx.tlc and rtipc_tx.tlc. The host writes the parameter *)
(* ForceOutput from main() while the real-time thread is in that code,     *)
(* which reads it up to three times.                                       *)
(***************************************************************************)

VARIABLES
  Rx,           \* a receiving block, else a sending one
  ForceOutput,  \* parameter of the host
  Force,        \* the block's copy, in the IWork vector
  forced,       \* librtipc has the address of ForceValue
  at,           \* "begin", "copy" or "address"
  gap           \* history: ForceOutput was written behind the copy

vars == <<Rx, ForceOutput, Force, forced, at, gap>>

At(from, to) == at = from /\ at' = to

Compare ==
  /\ Force # ForceOutput
  /\ At("begin", "copy")
  /\ UNCHANGED <<Rx, ForceOutput, Force, forced, gap>>

Copy ==
  /\ At("copy", "address")
  /\ Force' = ForceOutput
  /\ gap' = FALSE
  /\ UNCHANGED <<Rx, ForceOutput, forced>>

\* What tells whether to hand over the address: the parameter again in the
\* receiving block, the copy in the sending one.
RxTest == ForceOutput
TxTest == Force

\* rtipc_set_rxpdo_addr() or rtipc_set_txpdo_addr()
SetAddr ==
  /\ At("address", "begin")
  /\ forced' = IF Rx THEN RxTest ELSE TxTest
  /\ UNCHANGED <<Rx, ForceOutput, Force, gap>>

Download ==
  /\ ForceOutput' = ~ForceOutput
  /\ gap' = (gap \/ at = "address")
  /\ UNCHANGED <<Rx, Force, forced, at>>

Init ==
  /\ Rx \in BOOLEAN
  /\ ForceOutput = FALSE /\ Force = FALSE /\ forced = FALSE
  /\ at = "begin" /\ gap = FALSE

Next == Compare \/ Copy \/ SetAddr \/ Download

(* Where the block finds nothing to do the variable is forced exactly if   *)
(* the host wants it; in a receiving block only if the host did not write  *)
(* between its last two reads, or else it may stay wrong for good.         *)
ForceFollows ==
  at = "begin" /\ Force = ForceOutput /\ (Rx => ~gap) => forced = ForceOutput
=============================================================================
