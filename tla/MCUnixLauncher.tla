--------------------------- MODULE MCUnixLauncher ---------------------------
(* Two rules for a VM at most, two ports; files an editor may have left:   *)
(* one with rules that overlap, one with too many, one that only Windows   *)
(* takes, and one that neither does.                                       *)
EXTENDS UnixLauncher, TLC

R(proto, addr, port) == [proto |-> proto, addr |-> addr, host |-> port, guest |-> port]

L(form, proto, addr, port) == [rule |-> R(proto, addr, port), form |-> form]

MCByHand ==
    {<<>>,
     <<L("plain", "tcp", "0.0.0.0", 1), L("plain", "tcp", "127.0.0.1", 1)>>,
     <<L("plain", "tcp", "127.0.0.1", 2), L("plain", "udp", "0.0.0.0", 1),
       L("plain", "udp", "0.0.0.0", 2)>>,
     <<L("plain", "udp", "127.0.0.1", 2), L("lax", "tcp", "0.0.0.0", 2)>>,
     <<L("junk", "tcp", "0.0.0.0", 2)>>}

ProcSymmetry == Permutations(Procs)

Q(form, proto, addr, first, last) ==
    [proto |-> proto, addr |-> addr, hosts |-> <<first, last>>, guests |-> <<first, last>>,
     form |-> form]

MCRequests ==
    {Q("plain", "tcp", "0.0.0.0", 1, 1), Q("plain", "tcp", "127.0.0.1", 1, 2),
     Q("plain", "udp", "127.0.0.1", 1, 1), Q("lax", "tcp", "127.0.0.1", 2, 2)}
=============================================================================
