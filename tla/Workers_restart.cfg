\* As Workers_handover, of the backup worker, with a restart right after a stop.
CONSTANTS
    Kinds = {"backup"}
    Tries <- MCTries
    Pause <- MCPause
    Settle <- MCSettle
    Tail <- MCTail
    Poll = 2
    Patience = 8
    DialTries = 2
    Intervals = {15}
    Never = Never
    Gap = 0
    Ids = {1, 2, 3}
    Spare <- MCSpare
    MaxSession = 2
SPECIFICATION FairSpec
PROPERTIES
    FirstRound
