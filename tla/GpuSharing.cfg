\* Two clients and the launcher's request compete for two threads; the second
\* server follows a first one that may have been killed.
CONSTANTS
    Clients = {c1, c2}
    Control = ctl
    Limit = 2
    None = None
    MaxServer = 2
    MaxVm = 2
    Kills = 1
    Cut = FALSE
SPECIFICATION FairSpec
CHECK_DEADLOCK FALSE
INVARIANTS
    TypeOK
    Orderly
    WhatItSays
    SweepsTheDead
PROPERTIES
    ServesOneAtATime
    ShutdownEnds
