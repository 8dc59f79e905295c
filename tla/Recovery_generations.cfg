\* Every command, interrupted anywhere: kernel updates and one restore.
CONSTANTS
    Commands = {"init", "start", "stop", "restore", "sync-kernel", "resize"}
    PendingCommands = {"init", "start", "stop", "restore", "sync-kernel", "resize"}
    MaxStamp = 1
    MaxKernel = 2
    MaxSnap = 2
    MaxRestore = 1
    Retention = 1
    None = None
SPECIFICATION Spec
INVARIANTS
    TypeOK
    BootConsistent
    NoPendingWhileRunning
    PendingSourceKept
    DiskNeverLost
    RestoreExact
PROPERTIES
    StagedUntilApplied
    ImplementsGenerations
