----------------------------- MODULE MCWorkers ------------------------------
(* The times of the code, in seconds; ports rounds that outlast their VM   *)
(* by no more than the waits can stand, copies that outlast it by more.    *)
EXTENDS Workers

MCTries  == [backup |-> 15, ports |-> 30, helper |-> 5]
MCPause  == [backup |-> 10, ports |-> 3, helper |-> 3]
MCSettle == [backup |-> 2, ports |-> 2, helper |-> 0]
MCSpare  == [backup |-> 2, ports |-> 1, helper |-> 1]
MCTail   == [backup |-> 20, ports |-> 5, helper |-> 1]

(* The theorem about NeverAbandoned is of these times, if the VM stays off *)
(* for longer than a poll.                                                 *)
ASSUME MCTimesSuffice == Poll < Gap => WaitsSuffice
=============================================================================
