-------------------------- MODULE MCMessageDelivery --------------------------
(***************************************************************************)
(* MessageDelivery on a few messages (the cfg files name them).            *)
(***************************************************************************)
EXTENDS MessageDelivery
=============================================================================
