SPECIFICATION Spec
CONSTANTS
    Projects <- OneProject
    Workspaces <- OneWorkspace
    SlotProject <- OneSlotProject
    OrchOf <- OneOrchOf
    Supervisor <- OneSupervisor
    Launches <- OneLaunch
    Jobs <- OneLaunchJobs
    Quits = {q1, q2}
    None = None
    MayWedge = TRUE
SYMMETRY QuitSymmetry
INVARIANTS
    TypeOK
    DrainedQuitMissesNoSession
    QuittingCancelsEveryJob
    PhasesAreCounted
