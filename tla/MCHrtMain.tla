----------------------------- MODULE MCHrtMain -----------------------------
(* The program with one host, SIGINT at any time.                          *)
EXTENDS HrtMain
=============================================================================
