--------------------------- MODULE MCEcrtSupport ---------------------------
(* The registration model on small block diagrams.                         *)
EXTENDS EcrtSupport
=============================================================================
