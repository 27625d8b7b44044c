CONSTANTS
    Frames <- SampleFrames
    Followers <- ShortFrames
    Noise <- Characters
    MaxDamaged = 100
    Rejected = Rejected
    Unclear = Unclear
SPECIFICATION CodecSpec
INVARIANTS
    RoundTrip
    DamageNoticed
    PythonAgrees
CHECK_DEADLOCK FALSE
