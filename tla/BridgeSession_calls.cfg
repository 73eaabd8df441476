CONSTANTS
    Calls = {k1, k2}
    Conns = {c1}
    None = None
    UpCap = 1
    DownCap = 1
    EventCap = 1
    RequestLimit = 1
    Attempts = 1
    MaxMissed = 1
SPECIFICATION FairSpec
CHECK_DEADLOCK FALSE
PROPERTIES CallsReturn
