----------------------------- MODULE StateBlock -----------------------------
(***************************************************************************)
(* The output code of the Master State and Domain State blocks,            *)
(* rtw/blocks/EtherCAT/master_state.tlc and domain_state.tlc. A Master     *)
(* State block may have an input that resets the master. Levels of this    *)
(* input are counted in halves, since the code compares a signal of any    *)
(* type with an integer.                                                   *)
(***************************************************************************)
EXTENDS Integers

CONSTANTS
  Levels,   \* bound: levels of the reset input, in halves
  Width     \* elements of an output: devices, or domains of the block

VARIABLES
  hasReset,   \* the block has the reset input
  in,         \* the reset input in this cycle
  State,      \* ResetState, in the IWork vector
  resets,     \* external: calls of ecrt_master_reset(), even or odd
  shown       \* the outputs: a state for each device or domain

vars == <<hasReset, in, State, resets, shown>>

\* When the block resets its master. And wrong: as long as the input is set.
WhileSet(level) == State # 0
Resets(level) == level # 2 * State /\ State # 0

MasterReset ==
  IF hasReset
  THEN /\ in' \in Levels
       /\ resets' = IF Resets(in') THEN 1 - resets ELSE resets
       /\ State' = in' \div 2
  ELSE UNCHANGED <<in, State, resets>>

\* ecrt_master_link_state() or ecrt_master_state() for a master,
\* ecrt_domain_state() for each domain.
Show == shown' \in [1..Width -> {"down", "up"}]

Outputs == MasterReset /\ Show /\ UNCHANGED hasReset

Init ==
  /\ hasReset \in BOOLEAN
  /\ in = 0 /\ State = 0 /\ resets = 0
  /\ shown = [d \in 1..Width |-> "down"]

Next == Outputs

(* With whole levels the master is reset once when the input leaves a      *)
(* level other than 0, and not again while it is held, whatever came       *)
(* before.                                                                 *)
ResetOnRelease ==
  [][in % 2 = 0 => (resets' # resets <=> in # 0 /\ in' # in)]_vars
=============================================================================
