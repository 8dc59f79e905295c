\* init during a pending restore, as the menu issues it when there is no disk.
CONSTANTS
    Commands = {"init", "start", "restore", "sync-kernel"}
    PendingCommands = {"init", "start"}
    MaxStamp = 1
    MaxKernel = 2
    MaxSnap = 1
    MaxRestore = 1
    Retention = 1
    None = None
SPECIFICATION Spec
INVARIANTS
    PreviousComplete
