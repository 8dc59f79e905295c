\* The launcher may be killed between the spawn of a server and launcher.pid.
CONSTANTS
    Clients = {c1}
    Control = ctl
    Limit = 2
    None = None
    MaxServer = 2
    MaxVm = 1
    Kills = 0
    Cut = TRUE
SPECIFICATION FairSpec
CHECK_DEADLOCK FALSE
PROPERTIES
    RemovesOwnOnly
