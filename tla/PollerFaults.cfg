CONSTANTS
    Configured <- AllReporters
    MaxErrors = 10
    CleanupEvery = 3
SPECIFICATION FairSpec
INVARIANTS
    GivesUpInTime
    NoLoopLeftBehind
PROPERTIES
    ReportsOn
    HopelessEnds
