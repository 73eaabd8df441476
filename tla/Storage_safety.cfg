CONSTANTS
    Parts = {"journal", "upload", "download", "installed", "portable", "backup", "profiles",
             "ftp", "ftpdata", "files", "access", "follow"}
    Writers = {w1, w2}
    Loader = Loader
    Torn = Torn
    Newer = Newer
    MaxVersion = 5
    Files = 2
    RecordIds = {i1, i2}
    Devices = {d1, d2}
    Locations = {l1, l2}
    Connections = {c1}
    S3 = FALSE
    BackupEdits = 1
    BackupMoves = 1
    BackupPuts = 2
    BackupFaults = 1
    Profiles = {p1, p2}
    Secrets = {s1}
    Names = {n1, n2}
    Readers = {r1}
    Default = Default
    NoFile = NoFile
    Absent = Absent
    Keep = Keep
    FtpOperations = {f1, f2}
    FileOperations = {o1, o2}
    Dirs = {home, away}
    Home = home
    PaneCommands = {h1}
    None = None
SPECIFICATION Spec
INVARIANTS TypeOK LibraryKept FtpKeepsFiles RemoteFilesSafe PaneSettles
PROPERTIES JournalIsKept RunsLeaveOrder MigrationIsWhole UploadsKeepOthers
CHECK_DEADLOCK FALSE
