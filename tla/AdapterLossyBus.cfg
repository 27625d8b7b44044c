CONSTANTS
    None = None
    ScanStart = 2
    ScanEnd = 5
    Present = {2, 3, 4}
    InfoLen <- MCInfoLen
    Lossy = TRUE
    BridgeKeeps = 0
    InitialDelay = 1
    MaxDelay = 3
SPECIFICATION Spec
INVARIANTS
    TypeOK
    PublishedOwn
    LateRepliesHarmless
    NoGhostModule
    StackCoversModules
PROPERTIES
    KeepsContract
