CONSTANTS
    None = None
    ScanStart = 2
    ScanEnd = 5
    Present = {2, 3, 5}
    InfoLen <- MCInfoLen
    Lossy = FALSE
    BridgeKeeps = 0
    InitialDelay = 1
    MaxDelay = 3
SPECIFICATION FairSpec
INVARIANT AnnouncedIdentityOwn
PROPERTY Recovers
