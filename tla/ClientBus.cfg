CONSTANTS
    None = None
    ScanStart = 2
    ScanEnd = 7
    Present = {2, 3, 4, 5}
    InfoLen <- MCInfoLen
    Lossy = FALSE
    BridgeKeeps = 0
SPECIFICATION FairSpec
INVARIANTS
    YieldsOwn
    GhostsNeedBatteries
    PolledIdentityOwn
PROPERTY PollsOn
