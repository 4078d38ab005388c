--------------------------- MODULE MCSupervision ---------------------------
(***************************************************************************)
(* Supervision with scaled-down durations (the cfg files give them).       *)
(***************************************************************************)
EXTENDS Supervision
=============================================================================
