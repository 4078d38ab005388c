--------------------------- MODULE MCDaemonDrain ---------------------------
(***************************************************************************)
(* DaemonDrain on a few requests (the cfg files name them).                *)
(***************************************************************************)
EXTENDS DaemonDrain
=============================================================================
