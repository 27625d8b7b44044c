CONSTANTS
    None = None
    Start = Start
    End = End
    Noise = Noise
    ScanStart = 2
    ScanEnd = 3
    Present = {2, 3}
    InfoLen <- MCInfoLen
    Asked <- MCAsked
    Lossy = TRUE
    BridgeKeeps = 1
    MaxBytes = 5
SPECIFICATION FairSpec
PROPERTIES
    ImplementsLink
    ReadsWholeReplies
    ReadsEnd
