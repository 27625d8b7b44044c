CONSTANTS
    Stacks <- SmallAndLarge
    Capacity = 32
SPECIFICATION Spec
INVARIANTS
    AnnouncedFirst
    SensorsFed
    AnnouncementsFillChannel
