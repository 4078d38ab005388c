--------------------------- MODULE MCProjectQuit ---------------------------
(***************************************************************************)
(* ProjectQuit on small instances.                                         *)
(***************************************************************************)
EXTENDS ProjectQuit, TLC

OneProject == {"alpha"}
OneWorkspace == {"dev"}
OneSlotProject == [s \in {"dev", "orch"} |-> "alpha"]
OneOrchOf == [p \in OneProject |-> "orch"]
OneSupervisor == [p \in OneProject |-> "supervisor"]

OneLaunch == {"l1"}
OneLaunchJobs == OneLaunch \cup {"supervisor"}

QuitSymmetry == Permutations(Quits)
=============================================================================
