CONSTANTS
    Client = {c1, c2, c3}
    NoClient = NoClient
    Capacity = 1
    NetCapacity = 1
    Discovery = 1
SPECIFICATION OSpec
SYMMETRY Interchangeable
INVARIANTS
    UnhealthyHasReason
    StatusMatchesConnection
PROPERTY TelemetryInOrder
