---------------------------- MODULE MCAutoPorts -----------------------------
(* Bounded instances of AutoPorts: two host addresses, one of them the     *)
(* wildcard, and SSH as a manual rule on one port.                         *)
EXTENDS AutoPorts

CONSTANTS lan, wild, web, dns

MCPorts1 == {web}
MCPorts2 == {web, dns}
MCAddresses == {lan, wild}

(* A VM starts without manual rules, or with one on the lan address.       *)
MCManualSets == {{}, {[addr |-> lan, port |-> web]}}
=============================================================================
