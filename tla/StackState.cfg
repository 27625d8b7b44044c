CONSTANTS
    Address = {2, 3, 5}
    Voltage <- MCVoltage
    MaxModules = 3
    MaxCells = 2
    Millivolt <- MCMillivolt
    Float <- MCFloat
    Even <- MCEven
    Infinity = 9999999
SPECIFICATION Spec
INVARIANTS
    WorstModuleRight
    SameAsPython
CHECK_DEADLOCK FALSE
