SPECIFICATION FairSpec
CONSTANTS
    Mutations = {m1}
    Quits = {q1}
    QuitAlls = {q1}
    None = None
INVARIANTS
    TypeOK
    NothingRunsTwice
PROPERTIES
    AcceptedWorkFinishes
    IdleExitSparesQuits
    OpenProjectHasDaemon
    StoppedDaemonExits
    AnswersAreHonest
