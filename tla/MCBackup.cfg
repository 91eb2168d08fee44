SPECIFICATION BackupLiveSpec
CONSTANTS
    Jobs = {j1}
    SlurmctldTimeout = 1
    MaxTime = 2
    MaxCut = 1
INVARIANTS
    JobsKept
PROPERTIES
    SplitEnds
    TakesOver
CHECK_DEADLOCK FALSE
