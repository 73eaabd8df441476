CONSTANTS
    Parts = {"bridge", "stdio", "approval", "background", "update", "helper", "exec", "reconnects"}
    BridgeCalls = {k1, k2}
    Conns = {c1, c2}
    Requests = {r1, r2, r3}
    Ids = {i1}
    Workers = {w1, w2}
    Jsonl = TRUE
    Copilot = {a1}
    External = {}
    Privileged = {a1}
    MaxRevision = 4
    MaxMode = 1
    Commands = {b1, b2}
    Readers = {}
    Stoppers = {s1}
    TabLimit = 1
    TotalLimit = 2
    OutputCap = 1
    MaxChunks = 1
    Windows = {u1, u2, u3}
    Changes = 1
    Attempts = 2
    Faults = 2
    Crashes = 1
    Foreign = Foreign
    Downloads = {Download}
    ExecModes = {"sync", "background", "probe"}
    TabWorkers = {h1, h2}
    TheTab = t1
    TheCommand = n1
    None = None
SPECIFICATION Spec
SYMMETRY Symmetry
INVARIANTS TypeOK AnswersUnambiguous UpdatesAreTrue CommandsRunOnce
PROPERTIES SessionsAccounted ApprovalsAreTrue CommandsTracked
CHECK_DEADLOCK FALSE
