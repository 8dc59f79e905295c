CONSTANTS
    Protocols = {"tcp", "udp"}
    Addresses = {"0.0.0.0", "127.0.0.1"}
    Wildcard = "0.0.0.0"
    Loopback = "127.0.0.1"
    MaxPort = 2
    MaxRules = 2
    Refused = Refused
    Procs = {p1, p2}
    SshPorts = {1, 3}
    ByHand <- MCByHand
    Requests <- MCRequests
    MaxSession = 2
SPECIFICATION Spec
INVARIANTS
    TypeOK
    OneCommand
    NoLostChange
    BootSound
    HelperKnows
PROPERTIES
    Agree
SYMMETRY ProcSymmetry
