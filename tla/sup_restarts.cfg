SPECIFICATION FairSpec
CONSTANTS
    MaxRestarts = 3
    Window = 12
    Stable = 3
    MarkerAge = 2
INVARIANTS
    TypeOK
    RestartsAreSpaced
PROPERTIES
    CrashIsAnswered
    GiveUpSpentTheBudget
