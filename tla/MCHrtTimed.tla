----------------------------- MODULE MCHrtTimed -----------------------------
(* The program with one host, SIGINT at any time, a sample time of three   *)
(* ticks and two steps that take longer.                                   *)
EXTENDS HrtTimed
=============================================================================
