CONSTANTS
    Modules = 1
    RequestLen = 20
    ReplyLens = {18}
    Limit <- MCLimit
SPECIFICATION Spec
INVARIANTS
    FramesBalance
    CyclesBacked
PROPERTIES
    NeverNegative
    SkewBounded
