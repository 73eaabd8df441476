CONSTANTS
    Ids = {i1, i2}
    Portable = FALSE
    Launches = 2
    Faults = 0
    Crashes = 1
    None = None
SPECIFICATION Spec
INVARIANTS CurrentSurvives
CHECK_DEADLOCK FALSE
