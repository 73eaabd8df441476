CONSTANTS
    Parts = {"setup", "tunnels", "chat", "tools", "connect", "jump",
             "blocks", "kermit", "stream", "local", "output",
             "log", "savelog", "options", "telnet", "hangup"}
    Chunks = 3
    LocalRules = {l1, l2}
    RemoteRules = {r1}
    SamePort = {l1, l2}
    Chats = {v1}
    ChatRequests = {q1, q2}
    Authentications = {"password", "key", "keyboard", "system"}
    Protocols = {"chat", "responses", "anthropic"}
    TabCommands = {s1, s2}
    None = None
SPECIFICATION Spec
INVARIANTS TypeOK InputIntact TunnelsAccounted ConversationsSound ConnectsSafely SerialFilesArrive StreamsWhole
CHECK_DEADLOCK FALSE
