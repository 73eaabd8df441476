\* A close that meets a reconnect.
CONSTANTS
    Cmds = {c1, c2, c3}
    Workers = {w1, w2}
    Tabs = {t1}
    Ops = {}
    Profiles = {p}
    None = None
    AutoReconnect = TRUE
    MaxAttempts = 0
    UnstableLimit = 1
    Kinds = {"open", "reconnect", "close"}
SPECIFICATION Spec
INVARIANT NoOrphanWorker
CHECK_DEADLOCK FALSE
