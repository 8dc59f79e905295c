\* Four attempts against a retention of two, interrupted anywhere, also inside
\* the retention, while the guest writes, upgrades and restarts.
CONSTANTS
    Retention = 2
    MaxId = 4
    MaxWrites = 1
    MaxKernel = 2
    MaxSession = 2
SPECIFICATION FairSpec
INVARIANTS
    TypeOK
    PointSound
    LastKept
PROPERTIES
    SkipSound
    PartialInUseKept
    LeftoversReaped
\* The VM may be off for good.
CHECK_DEADLOCK FALSE
