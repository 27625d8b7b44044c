CONSTANTS
    Numbers = {0, 1, 2, 255}
    Texts <- ShortTexts
    Files <- SampleFiles
    None = None
    Unreadable = Unreadable
    Refused = Refused
SPECIFICATION ConfigSpec
INVARIANTS
    AssumptionsMet
    TextsUsable
CHECK_DEADLOCK FALSE
