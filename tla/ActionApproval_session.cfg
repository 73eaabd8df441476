CONSTANTS
    Copilot = {}
    External = {m1}
    Privileged = {}
    MaxRevision = 3
    MaxMode = 0
    None = None
SPECIFICATION Spec
INVARIANT CommandReachesItsSession
CHECK_DEADLOCK FALSE
