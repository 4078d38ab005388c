---- MODULE MCEventLog ----
EXTENDS EventLog, TLC

ProjectSymmetry == Permutations(Projects)
====
