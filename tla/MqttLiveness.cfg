CONSTANTS
    Client = {c1, c2}
    NoClient = NoClient
    Capacity = 1
    NetCapacity = 1
SPECIFICATION FairSpec
PROPERTIES
    SenderReleased
    LoopsEnd
    OfflineAfterFailure
    StaysOnline
