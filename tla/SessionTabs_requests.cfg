\* Requests of outside clients for one profile, and a disconnect.
CONSTANTS
    Cmds = {c1, c2, c3}
    Workers = {w1, w2}
    Tabs = {t1, t2}
    Ops = {o1, o2}
    Profiles = {p}
    None = None
    AutoReconnect = FALSE
    MaxAttempts = 0
    UnstableLimit = 1
    Kinds = {"request", "disconnect"}
SPECIFICATION Spec
SYMMETRY MCSymmetry
INVARIANTS OneFlightPerProfile
CHECK_DEADLOCK FALSE
