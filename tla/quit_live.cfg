SPECIFICATION FairSpec
CONSTANTS
    Projects <- OneProject
    Workspaces <- OneWorkspace
    SlotProject <- OneSlotProject
    OrchOf <- OneOrchOf
    Supervisor <- OneSupervisor
    Launches <- OneLaunch
    Jobs <- OneLaunchJobs
    Quits = {q1}
    None = None
    MayWedge = TRUE
PROPERTIES
    QuitAlwaysFinishes
    OpenProjectIsPolled
