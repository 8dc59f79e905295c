\* A VM stays off for three seconds at least, longer than a poll of wait.
CONSTANTS
    Kinds = {"backup", "ports", "helper"}
    Tries <- MCTries
    Pause <- MCPause
    Settle <- MCSettle
    Tail <- MCTail
    Poll = 2
    Patience = 3
    DialTries = 2
    Intervals = {15}
    Never = Never
    Gap = 3
    Ids = {1, 2, 3}
    Spare <- MCSpare
    MaxSession = 2
SPECIFICATION FairSpec
INVARIANTS
    TypeOK
PROPERTIES
    NeverAbandoned
    FirstRound
    RoundsRecur
