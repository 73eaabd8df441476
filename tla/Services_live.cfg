CONSTANTS
    Parts = {"stdio", "background", "helper", "runs", "reconnects"}
    BridgeCalls = {k1}
    Conns = {c1}
    Requests = {r1, r2}
    Ids = {i1, i2}
    Workers = {w1, w2}
    Jsonl = FALSE
    Copilot = {}
    External = {}
    Privileged = {}
    MaxRevision = 0
    MaxMode = 0
    Commands = {b1}
    Readers = {d1}
    Stoppers = {s1}
    TabLimit = 2
    TotalLimit = 1
    OutputCap = 1
    MaxChunks = 2
    Windows = {}
    Changes = 0
    Attempts = 2
    Faults = 1
    Crashes = 1
    Foreign = Foreign
    Downloads = {Download}
    ExecModes = {"sync"}
    TabWorkers = {h1, h2}
    TheTab = t1
    TheCommand = n1
    None = None
SPECIFICATION FairSpec
INVARIANT AutomaticRunsBounded
PROPERTIES EofEnds ReadersWake UpdatesEnd OperationsEnd TransfersResolve
CHECK_DEADLOCK FALSE
