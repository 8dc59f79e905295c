----------------------------- MODULE AutoPorts ------------------------------
(***************************************************************************)
(* Automatic publication of guest ports: the engine that reconciles QEMU's *)
(* host forwarding rules with what the guest listens on                    *)
(* (src/windows/internal/autoports/autoports.go) and the worker process    *)
(* that drives it for one VM session                                       *)
(* (src/windows/autoports_windows.go, src/windows/cmd/voxy-ports/main.go). *)
(*                                                                         *)
(* The status file ports-auto.json doubles as a journal of the rules the   *)
(* worker owns in QEMU.  The worker may die, lose its monitor connection   *)
(* or outlive its VM between any two steps; the next worker of the same    *)
(* session removes what the journal lists and starts over.                 *)
(***************************************************************************)
EXTENDS Naturals, FiniteSets

CONSTANTS
    Addresses,   \* host addresses a rule can be bound to
    Wildcard,    \* 0.0.0.0, which overlaps every address
    Ports,       \* protocol and port of a listener, as one value
    ManualSets,  \* sets of manual rules (SSH included) a VM can start with
    MaxSession,  \* bound: VM sessions
    DialWindow   \* whether the VM may be replaced between the worker's look
                 \* at the process record and its connection to the monitor

Rules == [addr : Addresses, port : Ports]

(* LoadConfig yields no address when ports-auto.conf is missing, says "off" *)
(* or is malformed; the engine treats the three alike but for the message. *)
Off == "off"

ASSUME RulesAssumption ==
    /\ Wildcard \in Addresses
    /\ Off \notin Addresses
    /\ ManualSets \subseteq SUBSET Rules
    /\ MaxSession \in Nat
    /\ DialWindow \in BOOLEAN

Overlap(a, b) ==
    /\ a.port = b.port
    /\ a.addr = b.addr \/ a.addr = Wildcard \/ b.addr = Wildcard

VARIABLES
    \* QEMU, the host and the guest
    vmOn,       \* whether the VM of the current session runs
    session,    \* number of the current VM session (its creation time)
    manual,     \* rules QEMU was started with
    fwd,        \* rules QEMU forwards now
    conf,       \* ports-auto.conf: an address, or Off
    listening,  \* ports the guest listens on
    busy,       \* rules another program of the host prevents
    \* ports-auto.json
    journal,    \* [session, active]
    \* the process holding the lock "ports-worker"
    pc,         \* its next step; "none" without such a process
    mine,       \* the session it was started for
    mineManual, \* the manual rules of that session
    conn,       \* the session its monitor connection reaches; 0 when broken
    active,     \* the engine's State.Active
    todo,       \* rules the running loop has still to visit
    addr,       \* the address of this round, or Off
    wanted,     \* rules wanted in this round
    rule,       \* the set holding the rule being added
    \* history
    heard       \* ports seen by the last successful probe of this session

host == <<vmOn, session, manual, conf, listening, busy>>
engine == <<mine, mineManual, addr, wanted>>
vars == <<vmOn, session, manual, fwd, conf, listening, busy, journal,
          pc, mine, mineManual, conn, active, todo, addr, wanted, rule, heard>>

NoWorker ==
    /\ pc = "none" /\ mine = 0 /\ mineManual = {} /\ conn = 0 /\ active = {}
    /\ todo = {} /\ addr = Off /\ wanted = {} /\ rule = {}

Init ==
    /\ vmOn = FALSE /\ session = 0 /\ manual = {} /\ fwd = {}
    /\ conf \in Addresses \cup {Off}
    /\ listening = {} /\ busy = {}
    /\ journal = [session |-> 0, active |-> {}]
    /\ heard = {}
    /\ NoWorker

-----------------------------------------------------------------------------
(* Helpers.                                                                *)

(* The automatic rules of the running QEMU.                                *)
AutoRules == fwd \ manual

(* The connection reaches a monitor that can still answer.                 *)
Connected == vmOn /\ conn = session

(* The worker returns: the lock goes with the process.                     *)
Exit ==
    /\ pc' = "none" /\ mine' = 0 /\ mineManual' = {} /\ conn' = 0
    /\ active' = {} /\ todo' = {} /\ addr' = Off /\ wanted' = {} /\ rule' = {}

(* save: atomic replacement of ports-auto.json by the engine's state.      *)
Save(rules) == journal' = [session |-> mine, active |-> rules]

Desired(a) == {[addr |-> a, port |-> p] : p \in listening}

(* Mutant: manual rules are not looked at.                                 *)
BlockedNever(r) == FALSE

(* Mutant: only the very same rule counts as an overlap.                   *)
BlockedExact(r) == r \in mineManual

Blocked(r) == \E m \in mineManual : Overlap(r, m)

-----------------------------------------------------------------------------
(* The worker starts: it takes the lock and reads the process record, then *)
(* connects to ports.sock and adopts the journal if it is of its session.  *)

WorkerStart ==
    /\ pc = "none" /\ vmOn
    /\ pc' = "dial" /\ mine' = session /\ mineManual' = manual
    /\ UNCHANGED <<host, fwd, journal, conn, active, todo, addr, wanted, rule, heard>>

WorkerDial ==
    /\ pc = "dial" /\ vmOn
    /\ mine = session \/ DialWindow
    /\ conn' = session
    /\ active' = IF journal.session = mine THEN journal.active ELSE {}
    /\ todo' = active'
    /\ pc' = "recover"
    /\ UNCHANGED <<host, fwd, journal, engine, rule, heard>>

(* No monitor answers, or another process is recorded by now.              *)
WorkerDialFails ==
    /\ pc = "dial"
    /\ Exit
    /\ UNCHANGED <<host, fwd, journal, heard>>

-----------------------------------------------------------------------------
(* hostfwd_remove over the monitor.  "not found" counts as done; a lost    *)
(* connection may or may not have executed the command.                    *)

Removed(r) == Connected /\ fwd' = fwd \ {r} /\ conn' = conn
RemoveLost(r) ==
    /\ conn' = 0
    /\ \/ fwd' = fwd
       \/ Connected /\ fwd' = fwd \ {r}

(* Recover: remove every journaled rule, refusing one that overlaps a      *)
(* manual rule; then record that nothing is owned.                         *)
RecoverRule ==
    \E r \in todo :
        /\ pc = "recover" /\ ~Blocked(r)
        /\ Removed(r)
        /\ todo' = todo \ {r}
        /\ UNCHANGED <<host, journal, pc, engine, active, rule, heard>>

RecoverFails ==
    \E r \in todo :
        /\ pc = "recover"
        /\ IF Blocked(r) THEN fwd' = fwd ELSE RemoveLost(r)
        /\ Exit
        /\ UNCHANGED <<host, journal, heard>>

RecoverDone ==
    /\ pc = "recover" /\ todo = {}
    /\ active' = {}
    /\ Save({})
    /\ pc' = "check"
    /\ UNCHANGED <<host, fwd, engine, conn, todo, rule, heard>>

-----------------------------------------------------------------------------
(* One round of the worker's loop: the VM must still be the one it was     *)
(* started for and the monitor must answer; then the address is read.      *)

(* Mutant: what the configuration says is a bind, whatever it says.        *)
RoundAlwaysProbes ==
    /\ pc = "check" /\ Connected /\ mine = session
    /\ addr' = conf
    /\ pc' = "probe" /\ UNCHANGED <<wanted, todo>>
    /\ UNCHANGED <<host, fwd, journal, mine, mineManual, conn, active, rule, heard>>

RoundBegin ==
    /\ pc = "check" /\ Connected /\ mine = session
    /\ addr' = conf
    /\ IF conf = Off
       THEN pc' = "remove" /\ wanted' = {} /\ todo' = active
       ELSE pc' = "probe" /\ UNCHANGED <<wanted, todo>>
    /\ UNCHANGED <<host, fwd, journal, mine, mineManual, conn, active, rule, heard>>

RoundRefused ==
    /\ pc = "check" /\ ~(Connected /\ mine = session)
    /\ Exit
    /\ UNCHANGED <<host, fwd, journal, heard>>

(* Mutant: rules on a previously configured address are left alone.        *)
ProbeKeepsOldAddress ==
    /\ pc = "probe" /\ vmOn
    /\ wanted' = {r \in Desired(addr) : ~Blocked(r)}
    /\ todo' = {r \in active : r.addr = addr} \ wanted'
    /\ heard' = listening
    /\ pc' = "remove"
    /\ UNCHANGED <<host, fwd, journal, mine, mineManual, conn, active, addr, rule>>

(* The probe runs over SSH in whatever VM is running now.                  *)
ProbeOk ==
    /\ pc = "probe" /\ vmOn
    /\ wanted' = {r \in Desired(addr) : ~Blocked(r)}
    /\ todo' = active \ wanted'
    /\ heard' = listening
    /\ pc' = "remove"
    /\ UNCHANGED <<host, fwd, journal, mine, mineManual, conn, active, addr, rule>>

(* Mutant: a failed probe is taken as an empty list of listeners.          *)
ProbeFailsEmpty ==
    /\ pc = "probe"
    /\ wanted' = {} /\ todo' = active
    /\ pc' = "remove"
    /\ UNCHANGED <<host, fwd, journal, mine, mineManual, conn, active, addr, rule, heard>>

(* A failed probe is no evidence that services stopped: nothing changes.   *)
ProbeFails ==
    /\ pc = "probe"
    /\ Save(active)
    /\ pc' = "check"
    /\ UNCHANGED <<host, fwd, engine, conn, active, todo, rule, heard>>

(* Owned rules no longer wanted are removed; one whose removal got no      *)
(* answer stays owned.                                                     *)
RemoveRule ==
    \E r \in todo :
        /\ pc = "remove"
        /\ Removed(r)
        /\ active' = active \ {r} /\ todo' = todo \ {r}
        /\ UNCHANGED <<host, journal, pc, engine, rule, heard>>

RemoveRuleLost ==
    \E r \in todo :
        /\ pc = "remove"
        /\ RemoveLost(r)
        /\ todo' = todo \ {r}
        /\ UNCHANGED <<host, journal, pc, engine, active, rule, heard>>

SaveKept ==
    /\ pc = "remove" /\ todo = {}
    /\ Save(active)
    /\ todo' = wanted \ active
    /\ pc' = "add"
    /\ UNCHANGED <<host, fwd, engine, conn, active, rule, heard>>

(* Mutant: ownership is recorded only after QEMU added the rule.           *)
AddUnjournalled ==
    \E r \in todo :
        /\ pc = "add"
        /\ active' = active \cup {r}
        /\ rule' = {r}
        /\ pc' = "hostfwd"
        /\ UNCHANGED <<host, fwd, journal, engine, conn, todo, heard>>

(* Ownership is journalled before QEMU is asked to add the rule.           *)
AddJournal ==
    \E r \in todo :
        /\ pc = "add"
        /\ active' = active \cup {r}
        /\ Save(active')
        /\ rule' = {r}
        /\ pc' = "hostfwd"
        /\ UNCHANGED <<host, fwd, engine, conn, todo, heard>>

Bindable(rules) == rules \cap (fwd \cup busy) = {}

(* Mutant: a rule QEMU refused stays on the list.                          *)
AddRuleKeepsRefused ==
    /\ pc = "hostfwd" /\ Connected
    /\ fwd' = IF Bindable(rule) THEN fwd \cup rule ELSE fwd
    /\ pc' = "added"
    /\ UNCHANGED <<host, journal, engine, conn, active, todo, rule, heard>>

AddRule ==
    /\ pc = "hostfwd" /\ Connected
    /\ IF Bindable(rule)
       THEN fwd' = fwd \cup rule /\ active' = active
       ELSE fwd' = fwd /\ active' = active \ rule
    /\ pc' = "added"
    /\ UNCHANGED <<host, journal, engine, conn, todo, rule, heard>>

AddLost ==
    /\ pc = "hostfwd"
    /\ \/ fwd' = fwd
       \/ Connected /\ Bindable(rule) /\ fwd' = fwd \cup rule
    /\ Exit
    /\ UNCHANGED <<host, journal, heard>>

SaveAdded ==
    /\ pc = "added"
    /\ Save(active)
    /\ todo' = todo \ rule /\ rule' = {}
    /\ pc' = "add"
    /\ UNCHANGED <<host, fwd, engine, conn, active, heard>>

(* The last save of the round; the worker sleeps 3 s.                      *)
RoundEnd ==
    /\ pc = "add" /\ todo = {}
    /\ Save(active)
    /\ pc' = "check" /\ addr' = Off /\ wanted' = {}
    /\ UNCHANGED <<host, fwd, mine, mineManual, conn, active, todo, rule, heard>>

(* The worker dies, or returns because a save failed.                      *)
WorkerDies ==
    /\ pc # "none"
    /\ Exit
    /\ UNCHANGED <<host, fwd, journal, heard>>

-----------------------------------------------------------------------------
(* The VM, its guest and the host.                                         *)

process == <<pc, mine, mineManual, conn, active, todo, addr, wanted, rule>>

VmStart ==
    /\ ~vmOn /\ session < MaxSession
    /\ vmOn' = TRUE /\ session' = session + 1
    /\ manual' \in ManualSets
    /\ fwd' = manual'
    /\ heard' = {}
    /\ UNCHANGED <<conf, listening, busy, journal, process>>

VmDies ==
    /\ vmOn
    /\ vmOn' = FALSE /\ fwd' = {}
    /\ UNCHANGED <<session, manual, conf, listening, busy, journal, process, heard>>

Configure ==
    /\ conf' \in (Addresses \cup {Off}) \ {conf}
    /\ UNCHANGED <<vmOn, session, manual, fwd, listening, busy, journal, process, heard>>

Listen(p) ==
    /\ listening' = IF p \in listening THEN listening \ {p} ELSE listening \cup {p}
    /\ UNCHANGED <<vmOn, session, manual, fwd, conf, busy, journal, process, heard>>

Occupy(r) ==
    /\ r \notin fwd
    /\ busy' = IF r \in busy THEN busy \ {r} ELSE busy \cup {r}
    /\ UNCHANGED <<vmOn, session, manual, fwd, conf, listening, journal, process, heard>>

-----------------------------------------------------------------------------
Recover == RecoverRule \/ RecoverFails \/ RecoverDone
Reconcile ==
    \/ ProbeOk \/ ProbeFails
    \/ RemoveRule \/ RemoveRuleLost \/ SaveKept
    \/ AddJournal \/ AddRule \/ AddLost \/ SaveAdded \/ RoundEnd
WorkerStep ==
    \/ WorkerDial \/ WorkerDialFails \/ Recover
    \/ RoundBegin \/ RoundRefused \/ Reconcile
Environment ==
    \/ VmStart \/ VmDies \/ Configure
    \/ \E p \in Ports : Listen(p)
    \/ \E r \in Rules : Occupy(r)

Next == WorkerStart \/ WorkerStep \/ WorkerDies \/ Environment

Spec == Init /\ [][Next]_vars

-----------------------------------------------------------------------------
(* Properties.                                                             *)

(* Every variable has its type; rules are sets of [addr, port].            *)
TypeOK ==
    /\ vmOn \in BOOLEAN /\ session \in 0 .. MaxSession
    /\ manual \subseteq Rules /\ fwd \subseteq Rules /\ busy \subseteq Rules
    /\ conf \in Addresses \cup {Off} /\ addr \in Addresses \cup {Off}
    /\ listening \subseteq Ports /\ heard \subseteq Ports
    /\ journal \in [session : 0 .. MaxSession, active : SUBSET Rules]
    /\ pc \in {"none", "dial", "recover", "check", "probe", "remove", "add",
              "hostfwd", "added"}
    /\ mine \in 0 .. MaxSession /\ conn \in 0 .. MaxSession
    /\ mineManual \subseteq Rules
    /\ active \subseteq Rules /\ todo \subseteq Rules
    /\ wanted \subseteq Rules /\ rule \subseteq Rules

(* Every automatic rule of the running QEMU is listed in the journal of    *)
(* its session, whenever a worker died or a command's answer was lost: the *)
(* next worker can always remove it ("a crash cannot orphan a successful   *)
(* add", autoports.go).                                                    *)
Owned ==
    vmOn => AutoRules \subseteq IF journal.session = session THEN journal.active ELSE {}

(* The rules QEMU was started with are never removed from it.              *)
ManualKept == vmOn => manual \subseteq fwd

(* No automatic rule shadows a manual rule or SSH.                         *)
NoOverlap == vmOn => \A r \in AutoRules, m \in manual : ~Overlap(r, m)

(* Between rounds, with the monitor connected, the engine's list, the      *)
(* journal and QEMU agree: nothing is published that is not listed, and    *)
(* nothing listed is missing.                                              *)
SettledExact ==
    (pc = "check" /\ Connected /\ mine = session) =>
        /\ active = AutoRules
        /\ journal = [session |-> session, active |-> active]

(* An automatic rule disappears from a running QEMU only when a new worker *)
(* clears the journal, the configured address changed, or the last         *)
(* successful probe did not report its port: never for a failed probe.     *)
RemovedOnlyIfGone ==
    [][ \A r \in fwd \ fwd' :
          vmOn' => \/ pc = "recover"
                   \/ r.addr # addr
                   \/ r.port \notin heard ]_vars

-----------------------------------------------------------------------------
(* Liveness.  Worker steps are never delayed forever, start launches a     *)
(* worker when none runs, and SSH answers again and again.                 *)
Fairness == WF_vars(WorkerStep) /\ WF_vars(WorkerStart) /\ SF_vars(ProbeOk)
FairSpec == Spec /\ Fairness

(* What may stop happening: everything but the worker's regular steps.  A  *)
(* step the worker takes on purpose is none, also where it ends the worker *)
(* like a death would.                                                     *)
Disturbance ==
    \/ Environment
    \/ WorkerDies /\ ~WorkerStep
    \/ vmOn /\ WorkerDialFails
    \/ Connected /\ (RemoveRuleLost \/ AddLost)
    \/ Connected /\ RecoverFails /\ \A r \in todo : ~Blocked(r)

Target ==
    IF conf = Off THEN {}
    ELSE {r \in Desired(conf) : \A m \in manual : ~Overlap(r, m)} \ busy

(* Once nothing changes or fails any more, what QEMU publishes becomes and *)
(* stays what the guest listens on, less manual rules and occupied ports.  *)
Converges ==
    <>[][~Disturbance]_vars => <>[](vmOn => AutoRules = Target)
=============================================================================
