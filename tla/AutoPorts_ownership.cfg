\* Two VM sessions, two ports, every failure of worker, monitor and probe.
CONSTANTS
    lan = lan
    wild = wild
    web = web
    dns = dns
    Wildcard = wild
    Addresses <- MCAddresses
    Ports <- MCPorts2
    ManualSets <- MCManualSets
    MaxSession = 2
    DialWindow = FALSE
SPECIFICATION Spec
INVARIANTS
    TypeOK
    Owned
    ManualKept
    NoOverlap
    SettledExact
PROPERTIES
    RemovedOnlyIfGone
