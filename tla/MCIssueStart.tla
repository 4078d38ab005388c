---------------------------- MODULE MCIssueStart ----------------------------
(***************************************************************************)
(* IssueStart on small instances.                                          *)
(***************************************************************************)
EXTENDS IssueStart, TLC

OneProject == {"alpha"}

StartSymmetry == Permutations(Issues) \cup Permutations(Workspaces) \cup Permutations(Jobs)
=============================================================================
