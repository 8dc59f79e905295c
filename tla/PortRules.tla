------------------------------ MODULE PortRules ------------------------------
(***************************************************************************)
(* The manual port rules, which two programs validate: the Windows         *)
(* launcher (src/windows/ports_windows.go), a whole list at a time, and    *)
(* the Unix launcher (src/lib/ports.awk), which adds them one by one.      *)
(* Both read ports.conf, the one a little less strictly than the other.    *)
(***************************************************************************)
EXTENDS Naturals, Sequences, FiniteSets

CONSTANTS
    Protocols,    \* tcp among them
    Addresses,
    Wildcard,     \* 0.0.0.0
    Loopback,     \* 127.0.0.1
    MaxPort,      \* 65535
    MaxRules,     \* 256: rules of a VM, and ports of a range
    Refused       \* an error; nothing is written

ASSUME PortAssumption ==
    /\ "tcp" \in Protocols /\ {Wildcard, Loopback} \subseteq Addresses
    /\ MaxPort \in Nat /\ MaxRules \in Nat

Port == 1 .. MaxPort
Rule == [proto : Protocols, addr : Addresses, host : Port, guest : Port]

(* How the ports of a line, or of a command, are written: as both programs *)
(* take them; as only Windows does, with zeros in front beyond five        *)
(* digits, as n-n on a line, or with a carriage return behind; or as       *)
(* neither does, and then the rule is of no account.                       *)
Forms == {"plain", "lax", "junk"}
Line == [rule : Rule, form : Forms]

(* An error is told from a list of rules.                                  *)
ASSUME RefusedAssumption == Refused \notin Seq(Rule)

(* A rule that cannot be beside another: the same port of one address, or  *)
(* of every address.                                                       *)
Clash(r, o) ==
    /\ r.proto = o.proto /\ r.host = o.host
    /\ r.addr = o.addr \/ Wildcard \in {r.addr, o.addr}

HitsSsh(r, ssh) ==
    r.proto = "tcp" /\ r.host = ssh /\ r.addr \in {Wildcard, Loopback}

(* The ranges that both accept, and the rules of a range.                  *)
Ranges == {r \in Port \X Port : r[1] <= r[2] /\ r[2] - r[1] < MaxRules}

RangeRules(proto, addr, hosts, guests) ==
    [i \in 1 .. hosts[2] - hosts[1] + 1 |->
        [proto |-> proto, addr |-> addr,
         host |-> hosts[1] + i - 1, guest |-> guests[1] + i - 1]]

Asked(r, proto, addr, hosts) ==
    r.proto = proto /\ r.addr = addr /\ r.host \in hosts[1] .. hosts[2]

(* The rules that were not asked for, in their order.                      *)
Without(rules, proto, addr, hosts) ==
    LET kept[i \in 0 .. Len(rules)] ==
          IF i = 0 THEN <<>>
          ELSE IF Asked(rules[i], proto, addr, hosts) THEN kept[i - 1]
          ELSE Append(kept[i - 1], rules[i])
    IN  kept[Len(rules)]

(* A file is a sequence of lines; what is written from rules is plain.     *)
FormsOf(file) == {file[i].form : i \in DOMAIN file}
RulesOf(file) == [i \in DOMAIN file |-> file[i].rule]
Encoded(rules) == [i \in DOMAIN rules |-> [rule |-> rules[i], form |-> "plain"]]

(* What a command asks for; to remove, guests are not given.               *)
Request == [proto : Protocols, addr : Addresses, hosts : Ranges, guests : Ranges, form : Forms]

-----------------------------------------------------------------------------
(* Windows: the list is built, then validated.                             *)

GoValid(rules, ssh) ==
    /\ Len(rules) <= MaxRules
    /\ \A i \in DOMAIN rules :
          /\ ~HitsSsh(rules[i], ssh)
          /\ \A j \in 1 .. i - 1 : ~Clash(rules[i], rules[j])

GoChecked(rules, ssh) == IF GoValid(rules, ssh) THEN rules ELSE Refused

GoAdd(file, ssh, proto, addr, hosts, guests) ==
    IF ~GoValid(file, ssh) \/ hosts[2] - hosts[1] # guests[2] - guests[1] THEN Refused
    ELSE GoChecked(file \o RangeRules(proto, addr, hosts, guests), ssh)

GoRemove(file, ssh, proto, addr, hosts) ==
    LET kept == Without(file, proto, addr, hosts) IN
    IF ~GoValid(file, ssh) \/ Len(file) - Len(kept) # hosts[2] - hosts[1] + 1
    THEN Refused
    ELSE GoChecked(kept, ssh)

(* Of lines and arguments written in these forms.                          *)
GoParsed(forms, rules) == IF "junk" \in forms THEN Refused ELSE rules

GoLoad(file, ssh) == GoParsed(FormsOf(file), GoChecked(RulesOf(file), ssh))

GoAddTo(file, ssh, q) ==
    GoParsed(FormsOf(file) \cup {q.form},
             GoAdd(RulesOf(file), ssh, q.proto, q.addr, q.hosts, q.guests))

GoRemoveFrom(file, ssh, q) ==
    GoParsed(FormsOf(file) \cup {q.form},
             GoRemove(RulesOf(file), ssh, q.proto, q.addr, q.hosts))

-----------------------------------------------------------------------------
(* Unix: each rule, of the file or of the range asked for, is added to     *)
(* those before it, and the first that does not fit ends the program.      *)

(* Mutant: the limit is looked at before the rule is counted.              *)
AwkAddOneMore(rules, r, ssh) ==
    IF \/ rules = Refused
       \/ HitsSsh(r, ssh)
       \/ \E i \in DOMAIN rules : Clash(rules[i], r)
       \/ Len(rules) > MaxRules
    THEN Refused
    ELSE Append(rules, r)

(* Mutant: the port of SSH is not looked at.                               *)
AwkAddOverSsh(rules, r, ssh) ==
    IF \/ rules = Refused
       \/ \E i \in DOMAIN rules : Clash(rules[i], r)
       \/ Len(rules) = MaxRules
    THEN Refused
    ELSE Append(rules, r)

AwkAddOne(rules, r, ssh) ==
    IF \/ rules = Refused
       \/ HitsSsh(r, ssh)
       \/ \E i \in DOMAIN rules : Clash(rules[i], r)
       \/ Len(rules) = MaxRules
    THEN Refused
    ELSE Append(rules, r)

AwkAddAll(rules, more, ssh) ==
    LET sofar[i \in 0 .. Len(more)] ==
          IF i = 0 THEN rules ELSE AwkAddOne(sofar[i - 1], more[i], ssh)
    IN  sofar[Len(more)]

AwkRead(file, ssh) == AwkAddAll(<<>>, file, ssh)

AwkAdd(file, ssh, proto, addr, hosts, guests) ==
    IF hosts[2] - hosts[1] # guests[2] - guests[1] THEN Refused
    ELSE AwkAddAll(AwkRead(file, ssh), RangeRules(proto, addr, hosts, guests), ssh)

AwkRemove(file, ssh, proto, addr, hosts) ==
    LET rules == AwkRead(file, ssh) IN
    IF rules = Refused THEN Refused
    ELSE LET gone == {i \in DOMAIN rules : Asked(rules[i], proto, addr, hosts)} IN
         IF Cardinality(gone) # hosts[2] - hosts[1] + 1 THEN Refused
         ELSE Without(rules, proto, addr, hosts)

(* Of lines and arguments written in these forms.                          *)
AwkParsed(forms, rules) == IF forms \subseteq {"plain"} THEN rules ELSE Refused

AwkLoad(file, ssh) == AwkParsed(FormsOf(file), AwkRead(RulesOf(file), ssh))

AwkAddTo(file, ssh, q) ==
    AwkParsed(FormsOf(file) \cup {q.form},
              AwkAdd(RulesOf(file), ssh, q.proto, q.addr, q.hosts, q.guests))

AwkRemoveFrom(file, ssh, q) ==
    AwkParsed(FormsOf(file) \cup {q.form},
              AwkRemove(RulesOf(file), ssh, q.proto, q.addr, q.hosts))

-----------------------------------------------------------------------------
(* Properties of the two programs, on one file.                            *)

(* sh is what the script made of it, go what Windows did: the same where   *)
(* all is plain; otherwise the script refuses.  And whatever Windows made, *)
(* the script reads as it is once it is written.                           *)
Follows(sh, go, forms, ssh) ==
    /\ sh = IF forms \subseteq {"plain"} THEN go ELSE Refused
    /\ go # Refused => AwkLoad(Encoded(go), ssh) = go

(* So for every request and every port of SSH; and what Windows added it   *)
(* can remove.                                                             *)
SameRules(file, sshs) ==
    \A ssh \in sshs :
       /\ Follows(AwkLoad(file, ssh), GoLoad(file, ssh), FormsOf(file), ssh)
       /\ \A q \in Request :
             LET forms == FormsOf(file) \cup {q.form}
                 new   == GoAddTo(file, ssh, q)
             IN
             /\ q.guests = q.hosts =>
                   Follows(AwkRemoveFrom(file, ssh, q), GoRemoveFrom(file, ssh, q), forms, ssh)
             /\ Follows(AwkAddTo(file, ssh, q), new, forms, ssh)
             /\ new # Refused => GoRemoveFrom(Encoded(new), ssh, q) = RulesOf(file)
=============================================================================
