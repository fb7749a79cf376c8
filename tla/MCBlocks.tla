------------------------------ MODULE MCBlocks ------------------------------
(* Each block, with counters that wrap at 4, a delay of two sample times   *)
(* and vectors of up to four elements.                                     *)
EXTENDS Blocks
=============================================================================
