\* Every connection settles, whatever commands meet it.
CONSTANTS
    Cmds = {c1, c2}
    Workers = {w1, w2}
    Tabs = {t1}
    Ops = {o1}
    Profiles = {p}
    None = None
    AutoReconnect = TRUE
    MaxAttempts = 0
    UnstableLimit = 1
    Kinds = {"open", "request", "reconnect", "disconnect", "close"}
SPECIFICATION FairSpec
PROPERTIES FlightsLand ConnectionsSettle
CHECK_DEADLOCK FALSE
