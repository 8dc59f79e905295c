\* The VM is replaced between the look at its record and the dial.
CONSTANTS
    lan = lan
    wild = wild
    web = web
    dns = dns
    Wildcard = wild
    Addresses <- MCAddresses
    Ports <- MCPorts1
    ManualSets <- MCManualSets
    MaxSession = 2
    DialWindow = TRUE
SPECIFICATION Spec
INVARIANTS
    ManualKept
