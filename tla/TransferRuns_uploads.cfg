SPECIFICATION PartsSpec
CONSTANTS
    Parts = {"transfers", "monitor", "regain"}
    Tasks = {Upload}
    Uploads = {Upload}
    MaxGen = 2
    MaxFaults = 2
INVARIANTS
    TypeOK
    QuiescentApply
    NoOrphan
    FilesTracked
    MonitoringSound
PROPERTIES
    ExplicitRestart
    CheckpointKept
