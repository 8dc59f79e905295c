\* One port, two sessions: with no further disturbance the rules converge.
CONSTANTS
    lan = lan
    wild = wild
    web = web
    dns = dns
    Wildcard = wild
    Addresses <- MCAddresses
    Ports <- MCPorts1
    ManualSets <- MCManualSets
    MaxSession = 2
    DialWindow = FALSE
SPECIFICATION FairSpec
PROPERTIES
    Converges
