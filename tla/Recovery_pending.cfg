\* A pending restore, answered with start only, after any interruption.
CONSTANTS
    Commands = {"init", "start", "stop", "restore", "sync-kernel", "resize"}
    PendingCommands = {"start"}
    MaxStamp = 1
    MaxKernel = 2
    MaxSnap = 1
    MaxRestore = 1
    Retention = 1
    None = None
SPECIFICATION FairSpec
INVARIANTS
    PreviousComplete
PROPERTIES
    PendingCompletes
