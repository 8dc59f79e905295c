-------------------------- MODULE AutoPorts_proofs --------------------------
(***************************************************************************)
(* Proofs about AutoPorts, for any set of addresses, ports and manual      *)
(* rules, and any number of VM sessions and workers.                       *)
(***************************************************************************)
EXTENDS AutoPorts, TLAPS

(* What the journal says about the running session.                        *)
Journalled == IF journal.session = session THEN journal.active ELSE {}

RoundSteps == {"probe", "remove", "add", "hostfwd", "added"}

(***************************************************************************)
(* The inductive strengthening of Owned.  While a worker of an older       *)
(* session still holds the lock, QEMU has no automatic rule at all; the    *)
(* worker of this session knows every automatic rule, in State.Active or,  *)
(* while it recovers, in what is left of the journal; and a rule on its    *)
(* way into QEMU is already in the journal.                                *)
(***************************************************************************)
Ranges ==
    /\ mine <= session /\ conn <= session
    /\ ~vmOn => fwd = {}
    /\ vmOn => session # 0
StaleWorker == (pc # "none" /\ mine # session) => AutoRules = {}
Recovering ==
    pc = "recover" => conn >= mine /\ (mine = session => AutoRules \subseteq todo)
InRound ==
    /\ pc \in RoundSteps => conn \in {0, mine}
    /\ pc = "probe" => addr \in Addresses
Known ==
    (pc \in {"check", "probe", "remove", "add", "added"} /\ mine = session)
        => AutoRules \subseteq active
Adding ==
    /\ pc = "add" => todo \cap active = {}
    /\ pc = "hostfwd" =>
         /\ mine = session => AutoRules \subseteq active \ rule
         /\ journal = [session |-> mine, active |-> active]
         /\ rule \subseteq active
    /\ pc \in {"hostfwd", "added"} => (todo \ rule) \cap active = {}

OwnedInv ==
    /\ TypeOK /\ Ranges /\ AutoRules \subseteq Journalled
    /\ StaleWorker /\ Recovering /\ InRound /\ Known /\ Adding

-----------------------------------------------------------------------------
(* The initial state, and one lemma per kind of step.                      *)

LEMMA InitOwned == Init => OwnedInv
<1> SUFFICES ASSUME Init PROVE OwnedInv
  OBVIOUS
<1>1. TypeOK
  <2>1. journal \in [session : 0 .. MaxSession, active : SUBSET Rules]
    BY RulesAssumption DEF RulesAssumption, Init
  <2>2. session \in 0 .. MaxSession /\ mine \in 0 .. MaxSession /\ conn \in 0 .. MaxSession
    BY RulesAssumption DEF RulesAssumption, Init, NoWorker
  <2> QED
    BY <2>1, <2>2 DEF Init, NoWorker, TypeOK
<1>2. Ranges /\ AutoRules \subseteq Journalled
  BY DEF Init, NoWorker, Ranges, AutoRules, Journalled
<1>3. StaleWorker /\ Recovering /\ InRound /\ Known /\ Adding
  BY DEF Init, NoWorker, StaleWorker, Recovering, InRound, Known, Adding,
     RoundSteps
<1> QED
  BY <1>1, <1>2, <1>3 DEF OwnedInv

LEMMA OwnedWorkerStart == OwnedInv /\ WorkerStart => OwnedInv'
  BY DEF WorkerStart, host, OwnedInv, TypeOK, Ranges, Journalled, StaleWorker,
     Recovering, InRound, Known, Adding, AutoRules, RoundSteps

LEMMA OwnedWorkerDial == OwnedInv /\ WorkerDial => OwnedInv'
  BY DEF WorkerDial, host, engine, OwnedInv, TypeOK, Ranges, Journalled,
     StaleWorker, Recovering, InRound, Known, Adding, AutoRules, RoundSteps

LEMMA OwnedWorkerDialFails == OwnedInv /\ WorkerDialFails => OwnedInv'
  BY RulesAssumption
     DEF RulesAssumption, WorkerDialFails, Exit, host, OwnedInv, TypeOK,
        Ranges, Journalled, StaleWorker, Recovering, InRound, Known, Adding,
        AutoRules, RoundSteps

LEMMA OwnedRecoverRule == OwnedInv /\ RecoverRule => OwnedInv'
  BY DEF RecoverRule, Removed, Connected, host, engine, OwnedInv, TypeOK,
     Ranges, Journalled, StaleWorker, Recovering, InRound, Known, Adding,
     AutoRules, RoundSteps

LEMMA OwnedRecoverFails == OwnedInv /\ RecoverFails => OwnedInv'
  BY RulesAssumption
     DEF RulesAssumption, RecoverFails, RemoveLost, Connected, Exit, host,
        OwnedInv, TypeOK, Ranges, Journalled, StaleWorker, Recovering,
        InRound, Known, Adding, AutoRules, RoundSteps

LEMMA OwnedRecoverDone == OwnedInv /\ RecoverDone => OwnedInv'
  BY DEF RecoverDone, Save, host, engine, OwnedInv, TypeOK, Ranges,
     Journalled, StaleWorker, Recovering, InRound, Known, Adding, AutoRules,
     RoundSteps

LEMMA OwnedRoundBegin == OwnedInv /\ RoundBegin => OwnedInv'
  BY DEF RoundBegin, Connected, host, OwnedInv, TypeOK, Ranges, Journalled,
     StaleWorker, Recovering, InRound, Known, Adding, AutoRules, RoundSteps

LEMMA OwnedRoundRefused == OwnedInv /\ RoundRefused => OwnedInv'
  BY RulesAssumption
     DEF RulesAssumption, RoundRefused, Exit, host, OwnedInv, TypeOK, Ranges,
        Journalled, StaleWorker, Recovering, InRound, Known, Adding,
        AutoRules, RoundSteps

LEMMA OwnedProbeOk == OwnedInv /\ ProbeOk => OwnedInv'
  BY DEF ProbeOk, Desired, Rules, host, OwnedInv, TypeOK, Ranges, Journalled,
     StaleWorker, Recovering, InRound, Known, Adding, AutoRules, RoundSteps

LEMMA OwnedProbeFails == OwnedInv /\ ProbeFails => OwnedInv'
  BY DEF ProbeFails, Save, host, engine, OwnedInv, TypeOK, Ranges, Journalled,
     StaleWorker, Recovering, InRound, Known, Adding, AutoRules, RoundSteps

LEMMA OwnedRemoveRule == OwnedInv /\ RemoveRule => OwnedInv'
  BY DEF RemoveRule, Removed, Connected, host, engine, OwnedInv, TypeOK,
     Ranges, Journalled, StaleWorker, Recovering, InRound, Known, Adding,
     AutoRules, RoundSteps

LEMMA OwnedRemoveRuleLost == OwnedInv /\ RemoveRuleLost => OwnedInv'
  BY RulesAssumption
     DEF RulesAssumption, RemoveRuleLost, RemoveLost, Connected, host, engine,
        OwnedInv, TypeOK, Ranges, Journalled, StaleWorker, Recovering,
        InRound, Known, Adding, AutoRules, RoundSteps

LEMMA OwnedSaveKept == OwnedInv /\ SaveKept => OwnedInv'
  BY DEF SaveKept, Save, host, engine, OwnedInv, TypeOK, Ranges, Journalled,
     StaleWorker, Recovering, InRound, Known, Adding, AutoRules, RoundSteps

LEMMA OwnedAddJournal == OwnedInv /\ AddJournal => OwnedInv'
  BY DEF AddJournal, Save, host, engine, OwnedInv, TypeOK, Ranges, Journalled,
     StaleWorker, Recovering, InRound, Known, Adding, AutoRules, RoundSteps

LEMMA OwnedAddRule == OwnedInv /\ AddRule => OwnedInv'
  BY DEF AddRule, Bindable, Connected, host, engine, OwnedInv, TypeOK, Ranges,
     Journalled, StaleWorker, Recovering, InRound, Known, Adding, AutoRules,
     RoundSteps

LEMMA OwnedAddLost == OwnedInv /\ AddLost => OwnedInv'
  BY RulesAssumption
     DEF RulesAssumption, AddLost, Bindable, Connected, Exit, host, OwnedInv,
        TypeOK, Ranges, Journalled, StaleWorker, Recovering, InRound, Known,
        Adding, AutoRules, RoundSteps

LEMMA OwnedSaveAdded == OwnedInv /\ SaveAdded => OwnedInv'
  BY DEF SaveAdded, Save, host, engine, OwnedInv, TypeOK, Ranges, Journalled,
     StaleWorker, Recovering, InRound, Known, Adding, AutoRules, RoundSteps

LEMMA OwnedRoundEnd == OwnedInv /\ RoundEnd => OwnedInv'
  BY DEF RoundEnd, Save, host, OwnedInv, TypeOK, Ranges, Journalled,
     StaleWorker, Recovering, InRound, Known, Adding, AutoRules, RoundSteps

LEMMA OwnedWorkerDies == OwnedInv /\ WorkerDies => OwnedInv'
  BY RulesAssumption
     DEF RulesAssumption, WorkerDies, Exit, host, OwnedInv, TypeOK, Ranges,
        Journalled, StaleWorker, Recovering, InRound, Known, Adding,
        AutoRules, RoundSteps

LEMMA OwnedVmStart == OwnedInv /\ VmStart => OwnedInv'
  BY RulesAssumption
     DEF VmStart, RulesAssumption, process, OwnedInv, TypeOK, Ranges,
        Journalled, StaleWorker, Recovering, InRound, Known, Adding,
        AutoRules, RoundSteps

LEMMA OwnedVmDies == OwnedInv /\ VmDies => OwnedInv'
  BY DEF VmDies, process, OwnedInv, TypeOK, Ranges, Journalled, StaleWorker,
     Recovering, InRound, Known, Adding, AutoRules, RoundSteps

LEMMA OwnedConfigure == OwnedInv /\ Configure => OwnedInv'
  BY DEF Configure, process, OwnedInv, TypeOK, Ranges, Journalled,
     StaleWorker, Recovering, InRound, Known, Adding, AutoRules, RoundSteps

LEMMA OwnedListen == \A p \in Ports : OwnedInv /\ Listen(p) => OwnedInv'
  BY DEF Listen, process, OwnedInv, TypeOK, Ranges, Journalled, StaleWorker,
     Recovering, InRound, Known, Adding, AutoRules, RoundSteps

LEMMA OwnedOccupy == \A r \in Rules : OwnedInv /\ Occupy(r) => OwnedInv'
  BY DEF Occupy, process, OwnedInv, TypeOK, Ranges, Journalled, StaleWorker,
     Recovering, InRound, Known, Adding, AutoRules, RoundSteps

LEMMA OwnedStutter == OwnedInv /\ UNCHANGED vars => OwnedInv'
  BY DEF vars, OwnedInv, TypeOK, Ranges, Journalled, StaleWorker, Recovering,
     InRound, Known, Adding, AutoRules, RoundSteps

LEMMA OwnedNext == OwnedInv /\ [Next]_vars => OwnedInv'
<1> SUFFICES ASSUME OwnedInv, [Next]_vars PROVE OwnedInv'
  OBVIOUS
<1>1. CASE WorkerStart \/ WorkerDial \/ WorkerDialFails
  BY <1>1, OwnedWorkerStart, OwnedWorkerDial, OwnedWorkerDialFails
<1>2. CASE Recover
  BY <1>2, OwnedRecoverRule, OwnedRecoverFails, OwnedRecoverDone DEF Recover
<1>3. CASE RoundBegin \/ RoundRefused
  BY <1>3, OwnedRoundBegin, OwnedRoundRefused
<1>4. CASE Reconcile
  BY <1>4, OwnedProbeOk, OwnedProbeFails, OwnedRemoveRule, OwnedRemoveRuleLost,
     OwnedSaveKept, OwnedAddJournal, OwnedAddRule, OwnedAddLost, OwnedSaveAdded,
     OwnedRoundEnd DEF Reconcile
<1>5. CASE WorkerDies
  BY <1>5, OwnedWorkerDies
<1>6. CASE Environment
  BY <1>6, OwnedVmStart, OwnedVmDies, OwnedConfigure, OwnedListen, OwnedOccupy
     DEF Environment
<1>7. CASE UNCHANGED vars
  BY <1>7, OwnedStutter
<1> QED
  BY <1>1, <1>2, <1>3, <1>4, <1>5, <1>6, <1>7 DEF Next, WorkerStep

(* The strengthening is an invariant.                                      *)
THEOREM OwnedInvariant == Spec => []OwnedInv
<1>1. Init => OwnedInv
  BY InitOwned
<1>2. OwnedInv /\ [Next]_vars => OwnedInv'
  BY OwnedNext
<1> QED
  BY <1>1, <1>2, PTL DEF Spec

(* Every variable keeps its type, for any constants.                       *)
THEOREM TypeCorrect == Spec => []TypeOK
<1>1. OwnedInv => TypeOK
  BY DEF OwnedInv
<1> QED
  BY <1>1, OwnedInvariant, PTL

(* No automatic rule of a running QEMU is ever missing from the journal of *)
(* its session, whatever worker or answer was lost, and also when a worker *)
(* of an older session dials the monitor of a newer VM.                    *)
THEOREM OwnedHolds == Spec => []Owned
<1>1. OwnedInv => Owned
  BY DEF OwnedInv, Owned, Journalled
<1> QED
  BY <1>1, OwnedInvariant, PTL

-----------------------------------------------------------------------------
(***************************************************************************)
(* The rules that are not the worker's.  As long as a worker's monitor     *)
(* connection reaches the VM it was started for (no DialWindow), it holds  *)
(* that VM's manual rules, and everything it adds or removes is free of    *)
(* them; so its list, the journal and QEMU agree between rounds.           *)
(***************************************************************************)
LoopSteps == {"check"} \cup RoundSteps

SameVm ==
    /\ (pc # "none" /\ mine = session) => mineManual = manual
    /\ pc \in {"recover"} \cup LoopSteps => conn \in {0, mine}
Unblocked ==
    /\ pc \in LoopSteps => \A r \in active \cup wanted : ~Blocked(r)
    /\ pc = "remove" => todo \subseteq active
    /\ pc \in {"add", "hostfwd", "added"} => todo \subseteq wanted
    /\ pc \in {"none", "dial", "recover"} => wanted = {}
Exact ==
    (pc \in LoopSteps /\ Connected /\ mine = session) =>
        IF pc = "hostfwd" THEN active \ rule \subseteq AutoRules
                          ELSE active \subseteq AutoRules
Saved == pc = "check" => journal = [session |-> mine, active |-> active]

ManualInv ==
    /\ OwnedInv
    /\ SameVm /\ Unblocked /\ Exact /\ Saved
    /\ ManualKept /\ NoOverlap

LEMMA ManualInit == Init => ManualInv
<1> SUFFICES ASSUME Init PROVE ManualInv
  OBVIOUS
<1>1. OwnedInv
  BY InitOwned
<1>2. SameVm /\ Unblocked /\ Exact /\ Saved
  BY DEF Init, NoWorker, SameVm, Unblocked, Exact, Saved, LoopSteps,
     RoundSteps
<1>3. ManualKept /\ NoOverlap
  BY DEF Init, ManualKept, NoOverlap
<1> QED
  BY <1>1, <1>2, <1>3 DEF ManualInv

LEMMA ManualWorkerStart == ~DialWindow /\ ManualInv /\ WorkerStart => ManualInv'
<1> SUFFICES ASSUME ~DialWindow, ManualInv, WorkerStart PROVE ManualInv'
  OBVIOUS
<1>1. OwnedInv'
  BY OwnedWorkerStart DEF ManualInv
<1>2. SameVm' /\ Saved'
  BY DEF WorkerStart, host, ManualInv, SameVm, Saved, LoopSteps, RoundSteps,
     Connected, OwnedInv, TypeOK, Ranges
<1>3. Unblocked'
  BY DEF WorkerStart, host, ManualInv, Unblocked, Blocked, LoopSteps,
     RoundSteps
<1>4. Exact'
  BY DEF WorkerStart, host, ManualInv, SameVm, Unblocked, Exact, NoOverlap,
     Blocked, Overlap, Connected, AutoRules, LoopSteps, RoundSteps, OwnedInv,
     Ranges, TypeOK, Adding
<1>5. ManualKept' /\ NoOverlap'
  BY DEF WorkerStart, host, ManualInv, SameVm, Unblocked, ManualKept,
     NoOverlap, Blocked, Overlap, Connected, AutoRules, LoopSteps, RoundSteps,
     OwnedInv, Recovering, TypeOK, Ranges, Adding
<1> QED
  BY <1>1, <1>2, <1>3, <1>4, <1>5 DEF ManualInv

LEMMA ManualWorkerDial == ~DialWindow /\ ManualInv /\ WorkerDial => ManualInv'
<1> SUFFICES ASSUME ~DialWindow, ManualInv, WorkerDial PROVE ManualInv'
  OBVIOUS
<1>1. OwnedInv'
  BY OwnedWorkerDial DEF ManualInv
<1>2. SameVm' /\ Saved'
  BY DEF WorkerDial, host, engine, ManualInv, SameVm, Saved, LoopSteps,
     RoundSteps, Connected, OwnedInv, TypeOK, Ranges
<1>3. Unblocked'
  BY DEF WorkerDial, host, engine, ManualInv, Unblocked, Blocked, LoopSteps,
     RoundSteps
<1>4. Exact'
  BY DEF WorkerDial, host, engine, ManualInv, SameVm, Unblocked, Exact,
     NoOverlap, Blocked, Overlap, Connected, AutoRules, LoopSteps, RoundSteps,
     OwnedInv, Ranges, TypeOK, Adding
<1>5. ManualKept' /\ NoOverlap'
  BY DEF WorkerDial, host, engine, ManualInv, SameVm, Unblocked, ManualKept,
     NoOverlap, Blocked, Overlap, Connected, AutoRules, LoopSteps, RoundSteps,
     OwnedInv, Recovering, TypeOK, Ranges, Adding
<1> QED
  BY <1>1, <1>2, <1>3, <1>4, <1>5 DEF ManualInv

LEMMA ManualWorkerDialFails == ~DialWindow /\ ManualInv /\ WorkerDialFails => ManualInv'
<1> SUFFICES ASSUME ~DialWindow, ManualInv, WorkerDialFails PROVE ManualInv'
  OBVIOUS
<1>1. OwnedInv'
  BY OwnedWorkerDialFails DEF ManualInv
<1>2. SameVm' /\ Saved'
  BY DEF WorkerDialFails, Exit, host, ManualInv, SameVm, Saved, LoopSteps,
     RoundSteps, Connected, OwnedInv, TypeOK, Ranges
<1>3. Unblocked'
  BY DEF WorkerDialFails, Exit, host, ManualInv, Unblocked, Blocked,
     LoopSteps, RoundSteps
<1>4. Exact'
  BY DEF WorkerDialFails, Exit, host, ManualInv, SameVm, Unblocked, Exact,
     NoOverlap, Blocked, Overlap, Connected, AutoRules, LoopSteps, RoundSteps,
     OwnedInv, Ranges, TypeOK, Adding
<1>5. ManualKept' /\ NoOverlap'
  BY DEF WorkerDialFails, Exit, host, ManualInv, SameVm, Unblocked,
     ManualKept, NoOverlap, Blocked, Overlap, Connected, AutoRules, LoopSteps,
     RoundSteps, OwnedInv, Recovering, TypeOK, Ranges, Adding
<1> QED
  BY <1>1, <1>2, <1>3, <1>4, <1>5 DEF ManualInv

LEMMA ManualRecoverRule == ~DialWindow /\ ManualInv /\ RecoverRule => ManualInv'
<1> SUFFICES ASSUME ~DialWindow, ManualInv, RecoverRule PROVE ManualInv'
  OBVIOUS
<1>1. OwnedInv'
  BY OwnedRecoverRule DEF ManualInv
<1>2. SameVm' /\ Saved'
  BY DEF RecoverRule, Removed, host, engine, ManualInv, SameVm, Saved,
     LoopSteps, RoundSteps, Connected, OwnedInv, TypeOK, Ranges
<1>3. Unblocked'
  BY DEF RecoverRule, Removed, host, engine, ManualInv, Unblocked, Blocked,
     LoopSteps, RoundSteps
<1>4. Exact'
  BY DEF RecoverRule, Removed, host, engine, ManualInv, SameVm, Unblocked,
     Exact, NoOverlap, Blocked, Overlap, Connected, AutoRules, LoopSteps,
     RoundSteps, OwnedInv, Ranges, TypeOK, Adding
<1>5. ManualKept' /\ NoOverlap'
  BY DEF RecoverRule, Removed, host, engine, ManualInv, SameVm, Unblocked,
     ManualKept, NoOverlap, Blocked, Overlap, Connected, AutoRules, LoopSteps,
     RoundSteps, OwnedInv, Recovering, TypeOK, Ranges, Adding
<1> QED
  BY <1>1, <1>2, <1>3, <1>4, <1>5 DEF ManualInv

LEMMA ManualRecoverFails == ~DialWindow /\ ManualInv /\ RecoverFails => ManualInv'
<1> SUFFICES ASSUME ~DialWindow, ManualInv, RecoverFails PROVE ManualInv'
  OBVIOUS
<1>1. OwnedInv'
  BY OwnedRecoverFails DEF ManualInv
<1>2. SameVm' /\ Saved'
  BY DEF RecoverFails, RemoveLost, Exit, host, ManualInv, SameVm, Saved,
     LoopSteps, RoundSteps, Connected, OwnedInv, TypeOK, Ranges
<1>3. Unblocked'
  BY DEF RecoverFails, RemoveLost, Exit, host, ManualInv, Unblocked, Blocked,
     LoopSteps, RoundSteps
<1>4. Exact'
  BY DEF RecoverFails, RemoveLost, Exit, host, ManualInv, SameVm, Unblocked,
     Exact, NoOverlap, Blocked, Overlap, Connected, AutoRules, LoopSteps,
     RoundSteps, OwnedInv, Ranges, TypeOK, Adding
<1>5. ManualKept' /\ NoOverlap'
  BY DEF RecoverFails, RemoveLost, Exit, host, ManualInv, SameVm, Unblocked,
     ManualKept, NoOverlap, Blocked, Overlap, Connected, AutoRules, LoopSteps,
     RoundSteps, OwnedInv, Recovering, TypeOK, Ranges, Adding
<1> QED
  BY <1>1, <1>2, <1>3, <1>4, <1>5 DEF ManualInv

LEMMA ManualRecoverDone == ~DialWindow /\ ManualInv /\ RecoverDone => ManualInv'
<1> SUFFICES ASSUME ~DialWindow, ManualInv, RecoverDone PROVE ManualInv'
  OBVIOUS
<1>1. OwnedInv'
  BY OwnedRecoverDone DEF ManualInv
<1>2. SameVm' /\ Saved'
  BY DEF RecoverDone, Save, host, engine, ManualInv, SameVm, Saved, LoopSteps,
     RoundSteps, Connected, OwnedInv, TypeOK, Ranges
<1>3. Unblocked'
  BY DEF RecoverDone, Save, host, engine, ManualInv, Unblocked, Blocked,
     LoopSteps, RoundSteps
<1>4. Exact'
  BY DEF RecoverDone, Save, host, engine, ManualInv, SameVm, Unblocked, Exact,
     NoOverlap, Blocked, Overlap, Connected, AutoRules, LoopSteps, RoundSteps,
     OwnedInv, Ranges, TypeOK, Adding
<1>5. ManualKept' /\ NoOverlap'
  BY DEF RecoverDone, Save, host, engine, ManualInv, SameVm, Unblocked,
     ManualKept, NoOverlap, Blocked, Overlap, Connected, AutoRules, LoopSteps,
     RoundSteps, OwnedInv, Recovering, TypeOK, Ranges, Adding
<1> QED
  BY <1>1, <1>2, <1>3, <1>4, <1>5 DEF ManualInv

LEMMA ManualRoundBegin == ~DialWindow /\ ManualInv /\ RoundBegin => ManualInv'
<1> SUFFICES ASSUME ~DialWindow, ManualInv, RoundBegin PROVE ManualInv'
  OBVIOUS
<1>1. OwnedInv'
  BY OwnedRoundBegin DEF ManualInv
<1>2. SameVm' /\ Saved'
  BY DEF RoundBegin, host, ManualInv, SameVm, Saved, LoopSteps, RoundSteps,
     Connected, OwnedInv, TypeOK, Ranges
<1>3. Unblocked'
  BY DEF RoundBegin, host, ManualInv, Unblocked, Blocked, LoopSteps,
     RoundSteps
<1>4. Exact'
  BY DEF RoundBegin, host, ManualInv, SameVm, Unblocked, Exact, NoOverlap,
     Blocked, Overlap, Connected, AutoRules, LoopSteps, RoundSteps, OwnedInv,
     Ranges, TypeOK, Adding
<1>5. ManualKept' /\ NoOverlap'
  BY DEF RoundBegin, host, ManualInv, SameVm, Unblocked, ManualKept,
     NoOverlap, Blocked, Overlap, Connected, AutoRules, LoopSteps, RoundSteps,
     OwnedInv, Recovering, TypeOK, Ranges, Adding
<1> QED
  BY <1>1, <1>2, <1>3, <1>4, <1>5 DEF ManualInv

LEMMA ManualRoundRefused == ~DialWindow /\ ManualInv /\ RoundRefused => ManualInv'
<1> SUFFICES ASSUME ~DialWindow, ManualInv, RoundRefused PROVE ManualInv'
  OBVIOUS
<1>1. OwnedInv'
  BY OwnedRoundRefused DEF ManualInv
<1>2. SameVm' /\ Saved'
  BY DEF RoundRefused, Exit, host, ManualInv, SameVm, Saved, LoopSteps,
     RoundSteps, Connected, OwnedInv, TypeOK, Ranges
<1>3. Unblocked'
  BY DEF RoundRefused, Exit, host, ManualInv, Unblocked, Blocked, LoopSteps,
     RoundSteps
<1>4. Exact'
  BY DEF RoundRefused, Exit, host, ManualInv, SameVm, Unblocked, Exact,
     NoOverlap, Blocked, Overlap, Connected, AutoRules, LoopSteps, RoundSteps,
     OwnedInv, Ranges, TypeOK, Adding
<1>5. ManualKept' /\ NoOverlap'
  BY DEF RoundRefused, Exit, host, ManualInv, SameVm, Unblocked, ManualKept,
     NoOverlap, Blocked, Overlap, Connected, AutoRules, LoopSteps, RoundSteps,
     OwnedInv, Recovering, TypeOK, Ranges, Adding
<1> QED
  BY <1>1, <1>2, <1>3, <1>4, <1>5 DEF ManualInv

LEMMA ManualProbeOk == ~DialWindow /\ ManualInv /\ ProbeOk => ManualInv'
<1> SUFFICES ASSUME ~DialWindow, ManualInv, ProbeOk PROVE ManualInv'
  OBVIOUS
<1>1. OwnedInv'
  BY OwnedProbeOk DEF ManualInv
<1>2. SameVm' /\ Saved'
  BY DEF ProbeOk, host, ManualInv, SameVm, Saved, LoopSteps, RoundSteps,
     Connected, OwnedInv, TypeOK, Ranges
<1>3. Unblocked'
  BY DEF ProbeOk, host, ManualInv, Unblocked, Blocked, LoopSteps, RoundSteps
<1>4. Exact'
  BY DEF ProbeOk, host, ManualInv, SameVm, Unblocked, Exact, NoOverlap,
     Blocked, Overlap, Connected, AutoRules, LoopSteps, RoundSteps, OwnedInv,
     Ranges, TypeOK, Adding
<1>5. ManualKept' /\ NoOverlap'
  BY DEF ProbeOk, host, ManualInv, SameVm, Unblocked, ManualKept, NoOverlap,
     Blocked, Overlap, Connected, AutoRules, LoopSteps, RoundSteps, OwnedInv,
     Recovering, TypeOK, Ranges, Adding
<1> QED
  BY <1>1, <1>2, <1>3, <1>4, <1>5 DEF ManualInv

LEMMA ManualProbeFails == ~DialWindow /\ ManualInv /\ ProbeFails => ManualInv'
<1> SUFFICES ASSUME ~DialWindow, ManualInv, ProbeFails PROVE ManualInv'
  OBVIOUS
<1>1. OwnedInv'
  BY OwnedProbeFails DEF ManualInv
<1>2. SameVm' /\ Saved'
  BY DEF ProbeFails, Save, host, engine, ManualInv, SameVm, Saved, LoopSteps,
     RoundSteps, Connected, OwnedInv, TypeOK, Ranges
<1>3. Unblocked'
  BY DEF ProbeFails, Save, host, engine, ManualInv, Unblocked, Blocked,
     LoopSteps, RoundSteps
<1>4. Exact'
  BY DEF ProbeFails, Save, host, engine, ManualInv, SameVm, Unblocked, Exact,
     NoOverlap, Blocked, Overlap, Connected, AutoRules, LoopSteps, RoundSteps,
     OwnedInv, Ranges, TypeOK, Adding
<1>5. ManualKept' /\ NoOverlap'
  BY DEF ProbeFails, Save, host, engine, ManualInv, SameVm, Unblocked,
     ManualKept, NoOverlap, Blocked, Overlap, Connected, AutoRules, LoopSteps,
     RoundSteps, OwnedInv, Recovering, TypeOK, Ranges, Adding
<1> QED
  BY <1>1, <1>2, <1>3, <1>4, <1>5 DEF ManualInv

LEMMA ManualRemoveRule == ~DialWindow /\ ManualInv /\ RemoveRule => ManualInv'
<1> SUFFICES ASSUME ~DialWindow, ManualInv, RemoveRule PROVE ManualInv'
  OBVIOUS
<1>1. OwnedInv'
  BY OwnedRemoveRule DEF ManualInv
<1>2. SameVm' /\ Saved'
  BY DEF RemoveRule, Removed, host, engine, ManualInv, SameVm, Saved,
     LoopSteps, RoundSteps, Connected, OwnedInv, TypeOK, Ranges
<1>3. Unblocked'
  BY DEF RemoveRule, Removed, host, engine, ManualInv, Unblocked, Blocked,
     LoopSteps, RoundSteps
<1>4. Exact'
  BY DEF RemoveRule, Removed, host, engine, ManualInv, SameVm, Unblocked,
     Exact, NoOverlap, Blocked, Overlap, Connected, AutoRules, LoopSteps,
     RoundSteps, OwnedInv, Ranges, TypeOK, Adding
<1>5. ManualKept' /\ NoOverlap'
  BY DEF RemoveRule, Removed, host, engine, ManualInv, SameVm, Unblocked,
     ManualKept, NoOverlap, Blocked, Overlap, Connected, AutoRules, LoopSteps,
     RoundSteps, OwnedInv, Recovering, TypeOK, Ranges, Adding
<1> QED
  BY <1>1, <1>2, <1>3, <1>4, <1>5 DEF ManualInv

LEMMA ManualRemoveRuleLost == ~DialWindow /\ ManualInv /\ RemoveRuleLost => ManualInv'
<1> SUFFICES ASSUME ~DialWindow, ManualInv, RemoveRuleLost PROVE ManualInv'
  OBVIOUS
<1>1. OwnedInv'
  BY OwnedRemoveRuleLost DEF ManualInv
<1>2. SameVm' /\ Saved'
  BY DEF RemoveRuleLost, RemoveLost, host, engine, ManualInv, SameVm, Saved,
     LoopSteps, RoundSteps, Connected, OwnedInv, TypeOK, Ranges
<1>3. Unblocked'
  BY DEF RemoveRuleLost, RemoveLost, host, engine, ManualInv, Unblocked,
     Blocked, LoopSteps, RoundSteps
<1>4. Exact'
  BY DEF RemoveRuleLost, RemoveLost, host, engine, ManualInv, SameVm,
     Unblocked, Exact, NoOverlap, Blocked, Overlap, Connected, AutoRules,
     LoopSteps, RoundSteps, OwnedInv, Ranges, TypeOK, Adding
<1>5. ManualKept' /\ NoOverlap'
  BY DEF RemoveRuleLost, RemoveLost, host, engine, ManualInv, SameVm,
     Unblocked, ManualKept, NoOverlap, Blocked, Overlap, Connected, AutoRules,
     LoopSteps, RoundSteps, OwnedInv, Recovering, TypeOK, Ranges, Adding
<1> QED
  BY <1>1, <1>2, <1>3, <1>4, <1>5 DEF ManualInv

LEMMA ManualSaveKept == ~DialWindow /\ ManualInv /\ SaveKept => ManualInv'
<1> SUFFICES ASSUME ~DialWindow, ManualInv, SaveKept PROVE ManualInv'
  OBVIOUS
<1>1. OwnedInv'
  BY OwnedSaveKept DEF ManualInv
<1>2. SameVm' /\ Saved'
  BY DEF SaveKept, Save, host, engine, ManualInv, SameVm, Saved, LoopSteps,
     RoundSteps, Connected, OwnedInv, TypeOK, Ranges
<1>3. Unblocked'
  BY DEF SaveKept, Save, host, engine, ManualInv, Unblocked, Blocked,
     LoopSteps, RoundSteps
<1>4. Exact'
  BY DEF SaveKept, Save, host, engine, ManualInv, SameVm, Unblocked, Exact,
     NoOverlap, Blocked, Overlap, Connected, AutoRules, LoopSteps, RoundSteps,
     OwnedInv, Ranges, TypeOK, Adding
<1>5. ManualKept' /\ NoOverlap'
  BY DEF SaveKept, Save, host, engine, ManualInv, SameVm, Unblocked,
     ManualKept, NoOverlap, Blocked, Overlap, Connected, AutoRules, LoopSteps,
     RoundSteps, OwnedInv, Recovering, TypeOK, Ranges, Adding
<1> QED
  BY <1>1, <1>2, <1>3, <1>4, <1>5 DEF ManualInv

LEMMA ManualAddJournal == ~DialWindow /\ ManualInv /\ AddJournal => ManualInv'
<1> SUFFICES ASSUME ~DialWindow, ManualInv, AddJournal PROVE ManualInv'
  OBVIOUS
<1>1. OwnedInv'
  BY OwnedAddJournal DEF ManualInv
<1>2. SameVm' /\ Saved'
  BY DEF AddJournal, Save, host, engine, ManualInv, SameVm, Saved, LoopSteps,
     RoundSteps, Connected, OwnedInv, TypeOK, Ranges
<1>3. Unblocked'
  BY DEF AddJournal, Save, host, engine, ManualInv, Unblocked, Blocked,
     LoopSteps, RoundSteps
<1>4. Exact'
  BY DEF AddJournal, Save, host, engine, ManualInv, SameVm, Unblocked, Exact,
     NoOverlap, Blocked, Overlap, Connected, AutoRules, LoopSteps, RoundSteps,
     OwnedInv, Ranges, TypeOK, Adding
<1>5. ManualKept' /\ NoOverlap'
  BY DEF AddJournal, Save, host, engine, ManualInv, SameVm, Unblocked,
     ManualKept, NoOverlap, Blocked, Overlap, Connected, AutoRules, LoopSteps,
     RoundSteps, OwnedInv, Recovering, TypeOK, Ranges, Adding
<1> QED
  BY <1>1, <1>2, <1>3, <1>4, <1>5 DEF ManualInv

LEMMA ManualAddRule == ~DialWindow /\ ManualInv /\ AddRule => ManualInv'
<1> SUFFICES ASSUME ~DialWindow, ManualInv, AddRule PROVE ManualInv'
  OBVIOUS
<1>1. OwnedInv'
  BY OwnedAddRule DEF ManualInv
<1>2. SameVm' /\ Saved'
  BY DEF AddRule, Bindable, host, engine, ManualInv, SameVm, Saved, LoopSteps,
     RoundSteps, Connected, OwnedInv, TypeOK, Ranges
<1>3. Unblocked'
  BY DEF AddRule, Bindable, host, engine, ManualInv, Unblocked, Blocked,
     LoopSteps, RoundSteps
<1>4. Exact'
  BY DEF AddRule, Bindable, host, engine, ManualInv, SameVm, Unblocked, Exact,
     NoOverlap, Blocked, Overlap, Connected, AutoRules, LoopSteps, RoundSteps,
     OwnedInv, Ranges, TypeOK, Adding
<1>5. ManualKept' /\ NoOverlap'
  BY DEF AddRule, Bindable, host, engine, ManualInv, SameVm, Unblocked,
     ManualKept, NoOverlap, Blocked, Overlap, Connected, AutoRules, LoopSteps,
     RoundSteps, OwnedInv, Recovering, TypeOK, Ranges, Adding
<1> QED
  BY <1>1, <1>2, <1>3, <1>4, <1>5 DEF ManualInv

LEMMA ManualAddLost == ~DialWindow /\ ManualInv /\ AddLost => ManualInv'
<1> SUFFICES ASSUME ~DialWindow, ManualInv, AddLost PROVE ManualInv'
  OBVIOUS
<1>1. OwnedInv'
  BY OwnedAddLost DEF ManualInv
<1>2. SameVm' /\ Saved'
  BY DEF AddLost, Bindable, Exit, host, ManualInv, SameVm, Saved, LoopSteps,
     RoundSteps, Connected, OwnedInv, TypeOK, Ranges
<1>3. Unblocked'
  BY DEF AddLost, Bindable, Exit, host, ManualInv, Unblocked, Blocked,
     LoopSteps, RoundSteps
<1>4. Exact'
  BY DEF AddLost, Bindable, Exit, host, ManualInv, SameVm, Unblocked, Exact,
     NoOverlap, Blocked, Overlap, Connected, AutoRules, LoopSteps, RoundSteps,
     OwnedInv, Ranges, TypeOK, Adding
<1>5. ManualKept' /\ NoOverlap'
  BY DEF AddLost, Bindable, Exit, host, ManualInv, SameVm, Unblocked,
     ManualKept, NoOverlap, Blocked, Overlap, Connected, AutoRules, LoopSteps,
     RoundSteps, OwnedInv, Recovering, TypeOK, Ranges, Adding
<1> QED
  BY <1>1, <1>2, <1>3, <1>4, <1>5 DEF ManualInv

LEMMA ManualSaveAdded == ~DialWindow /\ ManualInv /\ SaveAdded => ManualInv'
<1> SUFFICES ASSUME ~DialWindow, ManualInv, SaveAdded PROVE ManualInv'
  OBVIOUS
<1>1. OwnedInv'
  BY OwnedSaveAdded DEF ManualInv
<1>2. SameVm' /\ Saved'
  BY DEF SaveAdded, Save, host, engine, ManualInv, SameVm, Saved, LoopSteps,
     RoundSteps, Connected, OwnedInv, TypeOK, Ranges
<1>3. Unblocked'
  BY DEF SaveAdded, Save, host, engine, ManualInv, Unblocked, Blocked,
     LoopSteps, RoundSteps
<1>4. Exact'
  BY DEF SaveAdded, Save, host, engine, ManualInv, SameVm, Unblocked, Exact,
     NoOverlap, Blocked, Overlap, Connected, AutoRules, LoopSteps, RoundSteps,
     OwnedInv, Ranges, TypeOK, Adding
<1>5. ManualKept' /\ NoOverlap'
  BY DEF SaveAdded, Save, host, engine, ManualInv, SameVm, Unblocked,
     ManualKept, NoOverlap, Blocked, Overlap, Connected, AutoRules, LoopSteps,
     RoundSteps, OwnedInv, Recovering, TypeOK, Ranges, Adding
<1> QED
  BY <1>1, <1>2, <1>3, <1>4, <1>5 DEF ManualInv

LEMMA ManualRoundEnd == ~DialWindow /\ ManualInv /\ RoundEnd => ManualInv'
<1> SUFFICES ASSUME ~DialWindow, ManualInv, RoundEnd PROVE ManualInv'
  OBVIOUS
<1>1. OwnedInv'
  BY OwnedRoundEnd DEF ManualInv
<1>2. SameVm' /\ Saved'
  BY DEF RoundEnd, Save, host, ManualInv, SameVm, Saved, LoopSteps,
     RoundSteps, Connected, OwnedInv, TypeOK, Ranges
<1>3. Unblocked'
  BY DEF RoundEnd, Save, host, ManualInv, Unblocked, Blocked, LoopSteps,
     RoundSteps
<1>4. Exact'
  BY DEF RoundEnd, Save, host, ManualInv, SameVm, Unblocked, Exact, NoOverlap,
     Blocked, Overlap, Connected, AutoRules, LoopSteps, RoundSteps, OwnedInv,
     Ranges, TypeOK, Adding
<1>5. ManualKept' /\ NoOverlap'
  BY DEF RoundEnd, Save, host, ManualInv, SameVm, Unblocked, ManualKept,
     NoOverlap, Blocked, Overlap, Connected, AutoRules, LoopSteps, RoundSteps,
     OwnedInv, Recovering, TypeOK, Ranges, Adding
<1> QED
  BY <1>1, <1>2, <1>3, <1>4, <1>5 DEF ManualInv

LEMMA ManualWorkerDies == ~DialWindow /\ ManualInv /\ WorkerDies => ManualInv'
<1> SUFFICES ASSUME ~DialWindow, ManualInv, WorkerDies PROVE ManualInv'
  OBVIOUS
<1>1. OwnedInv'
  BY OwnedWorkerDies DEF ManualInv
<1>2. SameVm' /\ Saved'
  BY DEF WorkerDies, Exit, host, ManualInv, SameVm, Saved, LoopSteps,
     RoundSteps, Connected, OwnedInv, TypeOK, Ranges
<1>3. Unblocked'
  BY DEF WorkerDies, Exit, host, ManualInv, Unblocked, Blocked, LoopSteps,
     RoundSteps
<1>4. Exact'
  BY DEF WorkerDies, Exit, host, ManualInv, SameVm, Unblocked, Exact,
     NoOverlap, Blocked, Overlap, Connected, AutoRules, LoopSteps, RoundSteps,
     OwnedInv, Ranges, TypeOK, Adding
<1>5. ManualKept' /\ NoOverlap'
  BY DEF WorkerDies, Exit, host, ManualInv, SameVm, Unblocked, ManualKept,
     NoOverlap, Blocked, Overlap, Connected, AutoRules, LoopSteps, RoundSteps,
     OwnedInv, Recovering, TypeOK, Ranges, Adding
<1> QED
  BY <1>1, <1>2, <1>3, <1>4, <1>5 DEF ManualInv

LEMMA ManualVmStart == ~DialWindow /\ ManualInv /\ VmStart => ManualInv'
<1> SUFFICES ASSUME ~DialWindow, ManualInv, VmStart PROVE ManualInv'
  OBVIOUS
<1>1. OwnedInv'
  BY OwnedVmStart DEF ManualInv
<1>2. SameVm' /\ Saved'
  BY DEF VmStart, process, ManualInv, SameVm, Saved, LoopSteps, RoundSteps,
     Connected, OwnedInv, TypeOK, Ranges
<1>3. Unblocked'
  BY DEF VmStart, process, ManualInv, Unblocked, Blocked, LoopSteps,
     RoundSteps
<1>4. Exact'
  BY DEF VmStart, process, ManualInv, SameVm, Unblocked, Exact, NoOverlap,
     Blocked, Overlap, Connected, AutoRules, LoopSteps, RoundSteps, OwnedInv,
     Ranges, TypeOK, Adding
<1>5. ManualKept' /\ NoOverlap'
  BY DEF VmStart, process, ManualInv, SameVm, Unblocked, ManualKept,
     NoOverlap, Blocked, Overlap, Connected, AutoRules, LoopSteps, RoundSteps,
     OwnedInv, Recovering, TypeOK, Ranges, Adding
<1> QED
  BY <1>1, <1>2, <1>3, <1>4, <1>5 DEF ManualInv

LEMMA ManualVmDies == ~DialWindow /\ ManualInv /\ VmDies => ManualInv'
<1> SUFFICES ASSUME ~DialWindow, ManualInv, VmDies PROVE ManualInv'
  OBVIOUS
<1>1. OwnedInv'
  BY OwnedVmDies DEF ManualInv
<1>2. SameVm' /\ Saved'
  BY DEF VmDies, process, ManualInv, SameVm, Saved, LoopSteps, RoundSteps,
     Connected, OwnedInv, TypeOK, Ranges
<1>3. Unblocked'
  BY DEF VmDies, process, ManualInv, Unblocked, Blocked, LoopSteps, RoundSteps
<1>4. Exact'
  BY DEF VmDies, process, ManualInv, SameVm, Unblocked, Exact, NoOverlap,
     Blocked, Overlap, Connected, AutoRules, LoopSteps, RoundSteps, OwnedInv,
     Ranges, TypeOK, Adding
<1>5. ManualKept' /\ NoOverlap'
  BY DEF VmDies, process, ManualInv, SameVm, Unblocked, ManualKept, NoOverlap,
     Blocked, Overlap, Connected, AutoRules, LoopSteps, RoundSteps, OwnedInv,
     Recovering, TypeOK, Ranges, Adding
<1> QED
  BY <1>1, <1>2, <1>3, <1>4, <1>5 DEF ManualInv

LEMMA ManualConfigure == ~DialWindow /\ ManualInv /\ Configure => ManualInv'
<1> SUFFICES ASSUME ~DialWindow, ManualInv, Configure PROVE ManualInv'
  OBVIOUS
<1>1. OwnedInv'
  BY OwnedConfigure DEF ManualInv
<1>2. SameVm' /\ Saved'
  BY DEF Configure, process, ManualInv, SameVm, Saved, LoopSteps, RoundSteps,
     Connected, OwnedInv, TypeOK, Ranges
<1>3. Unblocked'
  BY DEF Configure, process, ManualInv, Unblocked, Blocked, LoopSteps,
     RoundSteps
<1>4. Exact'
  BY DEF Configure, process, ManualInv, SameVm, Unblocked, Exact, NoOverlap,
     Blocked, Overlap, Connected, AutoRules, LoopSteps, RoundSteps, OwnedInv,
     Ranges, TypeOK, Adding
<1>5. ManualKept' /\ NoOverlap'
  BY DEF Configure, process, ManualInv, SameVm, Unblocked, ManualKept,
     NoOverlap, Blocked, Overlap, Connected, AutoRules, LoopSteps, RoundSteps,
     OwnedInv, Recovering, TypeOK, Ranges, Adding
<1> QED
  BY <1>1, <1>2, <1>3, <1>4, <1>5 DEF ManualInv

LEMMA ManualListen ==
  ~DialWindow /\ ManualInv => \A p \in Ports : Listen(p) => ManualInv'
<1> SUFFICES ASSUME ~DialWindow, ManualInv, NEW p \in Ports, Listen(p)
             PROVE  ManualInv'
  OBVIOUS
<1>1. OwnedInv'
  BY OwnedListen DEF ManualInv
<1>2. SameVm' /\ Saved' /\ Unblocked' /\ Exact' /\ ManualKept' /\ NoOverlap'
  BY DEF Listen, process, ManualInv, SameVm, Saved, Unblocked, Exact,
     ManualKept, NoOverlap, Blocked, Connected, AutoRules, LoopSteps,
     RoundSteps
<1> QED
  BY <1>1, <1>2 DEF ManualInv

LEMMA ManualOccupy ==
  ~DialWindow /\ ManualInv => \A r \in Rules : Occupy(r) => ManualInv'
<1> SUFFICES ASSUME ~DialWindow, ManualInv, NEW r \in Rules, Occupy(r)
             PROVE  ManualInv'
  OBVIOUS
<1>1. OwnedInv'
  BY OwnedOccupy DEF ManualInv
<1>2. SameVm' /\ Saved' /\ Unblocked' /\ Exact' /\ ManualKept' /\ NoOverlap'
  BY DEF Occupy, process, ManualInv, SameVm, Saved, Unblocked, Exact,
     ManualKept, NoOverlap, Blocked, Connected, AutoRules, LoopSteps,
     RoundSteps
<1> QED
  BY <1>1, <1>2 DEF ManualInv

LEMMA ManualStutter == ManualInv /\ UNCHANGED vars => ManualInv'
<1> SUFFICES ASSUME ManualInv, UNCHANGED vars PROVE ManualInv'
  OBVIOUS
<1>1. OwnedInv'
  BY OwnedStutter DEF ManualInv
<1>2. SameVm' /\ Saved' /\ Unblocked' /\ Exact' /\ ManualKept' /\ NoOverlap'
  BY DEF vars, ManualInv, SameVm, Saved, Unblocked, Exact, ManualKept,
     NoOverlap, Blocked, Connected, AutoRules, LoopSteps, RoundSteps
<1> QED
  BY <1>1, <1>2 DEF ManualInv

LEMMA ManualNext == ~DialWindow /\ ManualInv /\ [Next]_vars => ManualInv'
<1> SUFFICES ASSUME ~DialWindow, ManualInv, [Next]_vars PROVE ManualInv'
  OBVIOUS
<1>1. CASE WorkerStart \/ WorkerDial \/ WorkerDialFails
  BY <1>1, ManualWorkerStart, ManualWorkerDial, ManualWorkerDialFails
<1>2. CASE Recover
  BY <1>2, ManualRecoverRule, ManualRecoverFails, ManualRecoverDone DEF Recover
<1>3. CASE RoundBegin \/ RoundRefused
  BY <1>3, ManualRoundBegin, ManualRoundRefused
<1>4. CASE Reconcile
  BY <1>4, ManualProbeOk, ManualProbeFails, ManualRemoveRule,
     ManualRemoveRuleLost, ManualSaveKept, ManualAddJournal, ManualAddRule,
     ManualAddLost, ManualSaveAdded, ManualRoundEnd DEF Reconcile
<1>5. CASE WorkerDies
  BY <1>5, ManualWorkerDies
<1>6. CASE Environment
  BY <1>6, ManualVmStart, ManualVmDies, ManualConfigure, ManualListen,
     ManualOccupy DEF Environment
<1>7. CASE UNCHANGED vars
  BY <1>7, ManualStutter
<1> QED
  BY <1>1, <1>2, <1>3, <1>4, <1>5, <1>6, <1>7 DEF Next, WorkerStep

(* The strengthening is an invariant when workers dial their own VM.       *)
THEOREM ManualInvariant == ASSUME ~DialWindow PROVE Spec => []ManualInv
<1>1. Init => ManualInv
  BY ManualInit
<1>2. ManualInv /\ [Next]_vars => ManualInv'
  BY ManualNext
<1> QED
  BY <1>1, <1>2, PTL DEF Spec

(* When workers dial the VM they were started for, no rule QEMU was        *)
(* started with, SSH among them, is ever removed.                          *)
THEOREM ManualKeptHolds == ASSUME ~DialWindow PROVE Spec => []ManualKept
<1>1. ManualInv => ManualKept
  BY DEF ManualInv
<1> QED
  BY <1>1, ManualInvariant, PTL

(* Nor does any automatic rule overlap one of them.                        *)
THEOREM NoOverlapHolds == ASSUME ~DialWindow PROVE Spec => []NoOverlap
<1>1. ManualInv => NoOverlap
  BY DEF ManualInv
<1> QED
  BY <1>1, ManualInvariant, PTL

(* Between rounds, over a connected monitor, what the worker believes,     *)
(* what the journal says and what QEMU forwards are the same rules.        *)
THEOREM SettledExactHolds == ASSUME ~DialWindow PROVE Spec => []SettledExact
<1>1. ManualInv => SettledExact
  BY DEF ManualInv, OwnedInv, Known, Exact, Saved, SettledExact, LoopSteps
<1> QED
  BY <1>1, ManualInvariant, PTL

-----------------------------------------------------------------------------
(***************************************************************************)
(* RemovedOnlyIfGone, with or without DialWindow.  A rule the worker       *)
(* removes in a round was in State.Active and not wanted; that it was not  *)
(* heard or is of another address takes that nothing in State.Active is    *)
(* refused by a manual rule.  It cannot be: what the journal of a session  *)
(* lists was once wanted by a worker of that session, whose manual rules   *)
(* are those of every worker of the session.                               *)
(***************************************************************************)
Resting == pc = "none" => active = {} /\ wanted = {}
OwnManual == (pc # "none" /\ mine = session) => mineManual = manual
Allowed ==
    /\ pc # "none" => \A r \in active \cup wanted : ~Blocked(r)
    /\ pc \in {"add", "hostfwd", "added"} => todo \subseteq wanted
JournalAllowed ==
    /\ journal.session <= session
    /\ journal.session = session =>
          \A r \in journal.active, m \in manual : ~Overlap(r, m)
    /\ (pc # "none" /\ journal.session = mine) => \A r \in journal.active : ~Blocked(r)
Evidence ==
    (pc = "remove" /\ Connected) =>
        \A r \in todo : r.addr # addr \/ r.port \notin heard

GoneInv ==
    /\ OwnedInv
    /\ Resting /\ OwnManual /\ Allowed /\ JournalAllowed /\ Evidence

LEMMA GoneInit == Init => GoneInv
<1> SUFFICES ASSUME Init PROVE GoneInv
  OBVIOUS
<1>1. OwnedInv
  BY InitOwned
<1>2. Resting /\ OwnManual /\ Allowed /\ JournalAllowed /\ Evidence
  BY DEF Init, NoWorker, Resting, OwnManual, Allowed, JournalAllowed, Evidence
<1> QED
  BY <1>1, <1>2 DEF GoneInv

LEMMA GoneWorkerStart == GoneInv /\ WorkerStart => GoneInv'
<1> SUFFICES ASSUME GoneInv, WorkerStart PROVE GoneInv'
  OBVIOUS
<1>1. OwnedInv'
  BY OwnedWorkerStart DEF GoneInv
<1>2. Resting' /\ OwnManual'
  BY DEF WorkerStart, host, GoneInv, OwnedInv, Ranges, TypeOK, Resting,
     OwnManual
<1>3. Allowed' /\ JournalAllowed'
  BY DEF WorkerStart, host, GoneInv, OwnedInv, Ranges, TypeOK, Resting,
     OwnManual, Allowed, JournalAllowed, Blocked
<1>4. Evidence'
  BY DEF WorkerStart, host, GoneInv, OwnedInv, Ranges, TypeOK, Allowed,
     Blocked, Evidence, Connected, Rules
<1> QED
  BY <1>1, <1>2, <1>3, <1>4 DEF GoneInv

LEMMA GoneWorkerDial == GoneInv /\ WorkerDial => GoneInv'
<1> SUFFICES ASSUME GoneInv, WorkerDial PROVE GoneInv'
  OBVIOUS
<1>1. OwnedInv'
  BY OwnedWorkerDial DEF GoneInv
<1>2. Resting' /\ OwnManual'
  BY DEF WorkerDial, host, engine, GoneInv, OwnedInv, Ranges, TypeOK, Resting,
     OwnManual
<1>3. Allowed' /\ JournalAllowed'
  BY DEF WorkerDial, host, engine, GoneInv, OwnedInv, Ranges, TypeOK, Resting,
     OwnManual, Allowed, JournalAllowed, Blocked
<1>4. Evidence'
  BY DEF WorkerDial, host, engine, GoneInv, OwnedInv, Ranges, TypeOK, Allowed,
     Blocked, Evidence, Connected, Rules
<1> QED
  BY <1>1, <1>2, <1>3, <1>4 DEF GoneInv

LEMMA GoneWorkerDialFails == GoneInv /\ WorkerDialFails => GoneInv'
<1> SUFFICES ASSUME GoneInv, WorkerDialFails PROVE GoneInv'
  OBVIOUS
<1>1. OwnedInv'
  BY OwnedWorkerDialFails DEF GoneInv
<1>2. Resting' /\ OwnManual'
  BY DEF WorkerDialFails, Exit, host, GoneInv, OwnedInv, Ranges, TypeOK,
     Resting, OwnManual
<1>3. Allowed' /\ JournalAllowed'
  BY DEF WorkerDialFails, Exit, host, GoneInv, OwnedInv, Ranges, TypeOK,
     Resting, OwnManual, Allowed, JournalAllowed, Blocked
<1>4. Evidence'
  BY DEF WorkerDialFails, Exit, host, GoneInv, OwnedInv, Ranges, TypeOK,
     Allowed, Blocked, Evidence, Connected, Rules
<1> QED
  BY <1>1, <1>2, <1>3, <1>4 DEF GoneInv

LEMMA GoneRecoverRule == GoneInv /\ RecoverRule => GoneInv'
<1> SUFFICES ASSUME GoneInv, RecoverRule PROVE GoneInv'
  OBVIOUS
<1>1. OwnedInv'
  BY OwnedRecoverRule DEF GoneInv
<1>2. Resting' /\ OwnManual'
  BY DEF RecoverRule, host, engine, GoneInv, OwnedInv, Ranges, TypeOK, Resting,
     OwnManual
<1>3. Allowed' /\ JournalAllowed'
  BY DEF RecoverRule, host, engine, GoneInv, OwnedInv, Ranges, TypeOK, Resting,
     OwnManual, Allowed, JournalAllowed, Blocked
<1>4. Evidence'
  BY DEF RecoverRule, host, engine, GoneInv, OwnedInv, Ranges, TypeOK, Allowed,
     Blocked, Evidence, Connected, Rules
<1> QED
  BY <1>1, <1>2, <1>3, <1>4 DEF GoneInv

LEMMA GoneRecoverFails == GoneInv /\ RecoverFails => GoneInv'
<1> SUFFICES ASSUME GoneInv, RecoverFails PROVE GoneInv'
  OBVIOUS
<1>1. OwnedInv'
  BY OwnedRecoverFails DEF GoneInv
<1>2. Resting' /\ OwnManual'
  BY DEF RecoverFails, Exit, host, GoneInv, OwnedInv, Ranges, TypeOK, Resting,
     OwnManual
<1>3. Allowed' /\ JournalAllowed'
  BY DEF RecoverFails, Exit, host, GoneInv, OwnedInv, Ranges, TypeOK, Resting,
     OwnManual, Allowed, JournalAllowed, Blocked
<1>4. Evidence'
  BY DEF RecoverFails, Exit, host, GoneInv, OwnedInv, Ranges, TypeOK, Allowed,
     Blocked, Evidence, Connected, Rules
<1> QED
  BY <1>1, <1>2, <1>3, <1>4 DEF GoneInv

LEMMA GoneRecoverDone == GoneInv /\ RecoverDone => GoneInv'
<1> SUFFICES ASSUME GoneInv, RecoverDone PROVE GoneInv'
  OBVIOUS
<1>1. OwnedInv'
  BY OwnedRecoverDone DEF GoneInv
<1>2. Resting' /\ OwnManual'
  BY DEF RecoverDone, Save, host, engine, GoneInv, OwnedInv, Ranges, TypeOK,
     Resting, OwnManual
<1>3. Allowed' /\ JournalAllowed'
  BY DEF RecoverDone, Save, host, engine, GoneInv, OwnedInv, Ranges, TypeOK,
     Resting, OwnManual, Allowed, JournalAllowed, Blocked
<1>4. Evidence'
  BY DEF RecoverDone, Save, host, engine, GoneInv, OwnedInv, Ranges, TypeOK,
     Allowed, Blocked, Evidence, Connected, Rules
<1> QED
  BY <1>1, <1>2, <1>3, <1>4 DEF GoneInv

LEMMA GoneRoundBegin == GoneInv /\ RoundBegin => GoneInv'
<1> SUFFICES ASSUME GoneInv, RoundBegin PROVE GoneInv'
  OBVIOUS
<1>1. OwnedInv'
  BY OwnedRoundBegin DEF GoneInv
<1>2. Resting' /\ OwnManual'
  BY DEF RoundBegin, host, GoneInv, OwnedInv, Ranges, TypeOK, Resting, OwnManual
<1>3. Allowed' /\ JournalAllowed'
  BY DEF RoundBegin, host, GoneInv, OwnedInv, Ranges, TypeOK, Resting,
     OwnManual, Allowed, JournalAllowed, Blocked
<1>4. Evidence'
  BY RulesAssumption DEF RulesAssumption, RoundBegin, host, GoneInv, OwnedInv,
     Ranges, TypeOK, Allowed, Blocked, Evidence, Connected, Rules
<1> QED
  BY <1>1, <1>2, <1>3, <1>4 DEF GoneInv

LEMMA GoneRoundRefused == GoneInv /\ RoundRefused => GoneInv'
<1> SUFFICES ASSUME GoneInv, RoundRefused PROVE GoneInv'
  OBVIOUS
<1>1. OwnedInv'
  BY OwnedRoundRefused DEF GoneInv
<1>2. Resting' /\ OwnManual'
  BY DEF RoundRefused, Exit, host, GoneInv, OwnedInv, Ranges, TypeOK, Resting,
     OwnManual
<1>3. Allowed' /\ JournalAllowed'
  BY DEF RoundRefused, Exit, host, GoneInv, OwnedInv, Ranges, TypeOK, Resting,
     OwnManual, Allowed, JournalAllowed, Blocked
<1>4. Evidence'
  BY DEF RoundRefused, Exit, host, GoneInv, OwnedInv, Ranges, TypeOK, Allowed,
     Blocked, Evidence, Connected, Rules
<1> QED
  BY <1>1, <1>2, <1>3, <1>4 DEF GoneInv

LEMMA GoneProbeOk == GoneInv /\ ProbeOk => GoneInv'
<1> SUFFICES ASSUME GoneInv, ProbeOk PROVE GoneInv'
  OBVIOUS
<1>1. OwnedInv'
  BY OwnedProbeOk DEF GoneInv
<1>2. Resting' /\ OwnManual'
  BY DEF ProbeOk, Desired, host, GoneInv, OwnedInv, Ranges, TypeOK, Resting,
     OwnManual
<1>3. Allowed' /\ JournalAllowed'
  BY DEF ProbeOk, Desired, host, GoneInv, OwnedInv, Ranges, TypeOK, Resting,
     OwnManual, Allowed, JournalAllowed, Blocked
<1>4. Evidence'
  BY DEF ProbeOk, Desired, host, GoneInv, OwnedInv, Ranges, TypeOK, Allowed,
     Blocked, Evidence, Connected, Rules
<1> QED
  BY <1>1, <1>2, <1>3, <1>4 DEF GoneInv

LEMMA GoneProbeFails == GoneInv /\ ProbeFails => GoneInv'
<1> SUFFICES ASSUME GoneInv, ProbeFails PROVE GoneInv'
  OBVIOUS
<1>1. OwnedInv'
  BY OwnedProbeFails DEF GoneInv
<1>2. Resting' /\ OwnManual'
  BY DEF ProbeFails, Save, host, engine, GoneInv, OwnedInv, Ranges, TypeOK,
     Resting, OwnManual
<1>3. Allowed' /\ JournalAllowed'
  BY DEF ProbeFails, Save, host, engine, GoneInv, OwnedInv, Ranges, TypeOK,
     Resting, OwnManual, Allowed, JournalAllowed, Blocked
<1>4. Evidence'
  BY DEF ProbeFails, Save, host, engine, GoneInv, OwnedInv, Ranges, TypeOK,
     Allowed, Blocked, Evidence, Connected, Rules
<1> QED
  BY <1>1, <1>2, <1>3, <1>4 DEF GoneInv

LEMMA GoneRemoveRule == GoneInv /\ RemoveRule => GoneInv'
<1> SUFFICES ASSUME GoneInv, RemoveRule PROVE GoneInv'
  OBVIOUS
<1>1. OwnedInv'
  BY OwnedRemoveRule DEF GoneInv
<1>2. Resting' /\ OwnManual'
  BY DEF RemoveRule, Removed, host, engine, GoneInv, OwnedInv, Ranges, TypeOK,
     Resting, OwnManual
<1>3. Allowed' /\ JournalAllowed'
  BY DEF RemoveRule, Removed, host, engine, GoneInv, OwnedInv, Ranges, TypeOK,
     Resting, OwnManual, Allowed, JournalAllowed, Blocked
<1>4. Evidence'
  BY DEF RemoveRule, Removed, host, engine, GoneInv, OwnedInv, Ranges, TypeOK,
     Allowed, Blocked, Evidence, Connected, Rules
<1> QED
  BY <1>1, <1>2, <1>3, <1>4 DEF GoneInv

LEMMA GoneRemoveRuleLost == GoneInv /\ RemoveRuleLost => GoneInv'
<1> SUFFICES ASSUME GoneInv, RemoveRuleLost PROVE GoneInv'
  OBVIOUS
<1>1. OwnedInv'
  BY OwnedRemoveRuleLost DEF GoneInv
<1>2. Resting' /\ OwnManual'
  BY DEF RemoveRuleLost, RemoveLost, host, engine, GoneInv, OwnedInv, Ranges,
     TypeOK, Resting, OwnManual
<1>3. Allowed' /\ JournalAllowed'
  BY DEF RemoveRuleLost, RemoveLost, host, engine, GoneInv, OwnedInv, Ranges,
     TypeOK, Resting, OwnManual, Allowed, JournalAllowed, Blocked
<1>4. Evidence'
  BY DEF RemoveRuleLost, RemoveLost, host, engine, GoneInv, OwnedInv, Ranges,
     TypeOK, Allowed, Blocked, Evidence, Connected, Rules
<1> QED
  BY <1>1, <1>2, <1>3, <1>4 DEF GoneInv

LEMMA GoneSaveKept == GoneInv /\ SaveKept => GoneInv'
<1> SUFFICES ASSUME GoneInv, SaveKept PROVE GoneInv'
  OBVIOUS
<1>1. OwnedInv'
  BY OwnedSaveKept DEF GoneInv
<1>2. Resting' /\ OwnManual'
  BY DEF SaveKept, Save, host, engine, GoneInv, OwnedInv, Ranges, TypeOK,
     Resting, OwnManual
<1>3. Allowed' /\ JournalAllowed'
  BY DEF SaveKept, Save, host, engine, GoneInv, OwnedInv, Ranges, TypeOK,
     Resting, OwnManual, Allowed, JournalAllowed, Blocked
<1>4. Evidence'
  BY DEF SaveKept, Save, host, engine, GoneInv, OwnedInv, Ranges, TypeOK,
     Allowed, Blocked, Evidence, Connected, Rules
<1> QED
  BY <1>1, <1>2, <1>3, <1>4 DEF GoneInv

LEMMA GoneAddJournal == GoneInv /\ AddJournal => GoneInv'
<1> SUFFICES ASSUME GoneInv, AddJournal PROVE GoneInv'
  OBVIOUS
<1>1. OwnedInv'
  BY OwnedAddJournal DEF GoneInv
<1>2. Resting' /\ OwnManual'
  BY DEF AddJournal, Save, host, engine, GoneInv, OwnedInv, Ranges, TypeOK,
     Resting, OwnManual
<1>3. Allowed' /\ JournalAllowed'
  BY DEF AddJournal, Save, host, engine, GoneInv, OwnedInv, Ranges, TypeOK,
     Resting, OwnManual, Allowed, JournalAllowed, Blocked
<1>4. Evidence'
  BY DEF AddJournal, Save, host, engine, GoneInv, OwnedInv, Ranges, TypeOK,
     Allowed, Blocked, Evidence, Connected, Rules
<1> QED
  BY <1>1, <1>2, <1>3, <1>4 DEF GoneInv

LEMMA GoneAddRule == GoneInv /\ AddRule => GoneInv'
<1> SUFFICES ASSUME GoneInv, AddRule PROVE GoneInv'
  OBVIOUS
<1>1. OwnedInv'
  BY OwnedAddRule DEF GoneInv
<1>2. Resting' /\ OwnManual'
  BY DEF AddRule, host, engine, GoneInv, OwnedInv, Ranges, TypeOK, Resting,
     OwnManual
<1>3. Allowed' /\ JournalAllowed'
  BY DEF AddRule, host, engine, GoneInv, OwnedInv, Ranges, TypeOK, Resting,
     OwnManual, Allowed, JournalAllowed, Blocked
<1>4. Evidence'
  BY DEF AddRule, host, engine, GoneInv, OwnedInv, Ranges, TypeOK, Allowed,
     Blocked, Evidence, Connected, Rules
<1> QED
  BY <1>1, <1>2, <1>3, <1>4 DEF GoneInv

LEMMA GoneAddLost == GoneInv /\ AddLost => GoneInv'
<1> SUFFICES ASSUME GoneInv, AddLost PROVE GoneInv'
  OBVIOUS
<1>1. OwnedInv'
  BY OwnedAddLost DEF GoneInv
<1>2. Resting' /\ OwnManual'
  BY DEF AddLost, Exit, host, GoneInv, OwnedInv, Ranges, TypeOK, Resting,
     OwnManual
<1>3. Allowed' /\ JournalAllowed'
  BY DEF AddLost, Exit, host, GoneInv, OwnedInv, Ranges, TypeOK, Resting,
     OwnManual, Allowed, JournalAllowed, Blocked
<1>4. Evidence'
  BY DEF AddLost, Exit, host, GoneInv, OwnedInv, Ranges, TypeOK, Allowed,
     Blocked, Evidence, Connected, Rules
<1> QED
  BY <1>1, <1>2, <1>3, <1>4 DEF GoneInv

LEMMA GoneSaveAdded == GoneInv /\ SaveAdded => GoneInv'
<1> SUFFICES ASSUME GoneInv, SaveAdded PROVE GoneInv'
  OBVIOUS
<1>1. OwnedInv'
  BY OwnedSaveAdded DEF GoneInv
<1>2. Resting' /\ OwnManual'
  BY DEF SaveAdded, Save, host, engine, GoneInv, OwnedInv, Ranges, TypeOK,
     Resting, OwnManual
<1>3. Allowed' /\ JournalAllowed'
  BY DEF SaveAdded, Save, host, engine, GoneInv, OwnedInv, Ranges, TypeOK,
     Resting, OwnManual, Allowed, JournalAllowed, Blocked
<1>4. Evidence'
  BY DEF SaveAdded, Save, host, engine, GoneInv, OwnedInv, Ranges, TypeOK,
     Allowed, Blocked, Evidence, Connected, Rules
<1> QED
  BY <1>1, <1>2, <1>3, <1>4 DEF GoneInv

LEMMA GoneRoundEnd == GoneInv /\ RoundEnd => GoneInv'
<1> SUFFICES ASSUME GoneInv, RoundEnd PROVE GoneInv'
  OBVIOUS
<1>1. OwnedInv'
  BY OwnedRoundEnd DEF GoneInv
<1>2. Resting' /\ OwnManual'
  BY DEF RoundEnd, Save, host, GoneInv, OwnedInv, Ranges, TypeOK, Resting,
     OwnManual
<1>3. Allowed' /\ JournalAllowed'
  BY DEF RoundEnd, Save, host, GoneInv, OwnedInv, Ranges, TypeOK, Resting,
     OwnManual, Allowed, JournalAllowed, Blocked
<1>4. Evidence'
  BY DEF RoundEnd, Save, host, GoneInv, OwnedInv, Ranges, TypeOK, Allowed,
     Blocked, Evidence, Connected, Rules
<1> QED
  BY <1>1, <1>2, <1>3, <1>4 DEF GoneInv

LEMMA GoneWorkerDies == GoneInv /\ WorkerDies => GoneInv'
<1> SUFFICES ASSUME GoneInv, WorkerDies PROVE GoneInv'
  OBVIOUS
<1>1. OwnedInv'
  BY OwnedWorkerDies DEF GoneInv
<1>2. Resting' /\ OwnManual'
  BY DEF WorkerDies, Exit, host, GoneInv, OwnedInv, Ranges, TypeOK, Resting,
     OwnManual
<1>3. Allowed' /\ JournalAllowed'
  BY DEF WorkerDies, Exit, host, GoneInv, OwnedInv, Ranges, TypeOK, Resting,
     OwnManual, Allowed, JournalAllowed, Blocked
<1>4. Evidence'
  BY DEF WorkerDies, Exit, host, GoneInv, OwnedInv, Ranges, TypeOK, Allowed,
     Blocked, Evidence, Connected, Rules
<1> QED
  BY <1>1, <1>2, <1>3, <1>4 DEF GoneInv

LEMMA GoneVmStart == GoneInv /\ VmStart => GoneInv'
<1> SUFFICES ASSUME GoneInv, VmStart PROVE GoneInv'
  OBVIOUS
<1>1. OwnedInv'
  BY OwnedVmStart DEF GoneInv
<1>2. Resting' /\ OwnManual'
  BY DEF VmStart, process, GoneInv, OwnedInv, Ranges, TypeOK, Resting, OwnManual
<1>3. Allowed' /\ JournalAllowed'
  BY DEF VmStart, process, GoneInv, OwnedInv, Ranges, TypeOK, Resting,
     OwnManual, Allowed, JournalAllowed, Blocked
<1>4. Evidence'
  BY DEF VmStart, process, GoneInv, OwnedInv, Ranges, TypeOK, Allowed, Blocked,
     Evidence, Connected, Rules
<1> QED
  BY <1>1, <1>2, <1>3, <1>4 DEF GoneInv

LEMMA GoneVmDies == GoneInv /\ VmDies => GoneInv'
<1> SUFFICES ASSUME GoneInv, VmDies PROVE GoneInv'
  OBVIOUS
<1>1. OwnedInv'
  BY OwnedVmDies DEF GoneInv
<1>2. Resting' /\ OwnManual'
  BY DEF VmDies, process, GoneInv, OwnedInv, Ranges, TypeOK, Resting, OwnManual
<1>3. Allowed' /\ JournalAllowed'
  BY DEF VmDies, process, GoneInv, OwnedInv, Ranges, TypeOK, Resting,
     OwnManual, Allowed, JournalAllowed, Blocked
<1>4. Evidence'
  BY DEF VmDies, process, GoneInv, OwnedInv, Ranges, TypeOK, Allowed, Blocked,
     Evidence, Connected, Rules
<1> QED
  BY <1>1, <1>2, <1>3, <1>4 DEF GoneInv

LEMMA GoneConfigure == GoneInv /\ Configure => GoneInv'
<1> SUFFICES ASSUME GoneInv, Configure PROVE GoneInv'
  OBVIOUS
<1>1. OwnedInv'
  BY OwnedConfigure DEF GoneInv
<1>2. Resting' /\ OwnManual' /\ Allowed' /\ JournalAllowed' /\ Evidence'
  BY DEF Configure, process, GoneInv, Resting, OwnManual, Allowed,
     JournalAllowed, Blocked, Evidence, Connected
<1> QED
  BY <1>1, <1>2 DEF GoneInv

LEMMA GoneListen ==
  GoneInv => \A p \in Ports : Listen(p) => GoneInv'
<1> SUFFICES ASSUME GoneInv, NEW p \in Ports, Listen(p) PROVE GoneInv'
  OBVIOUS
<1>1. OwnedInv'
  BY OwnedListen DEF GoneInv
<1>2. Resting' /\ OwnManual' /\ Allowed' /\ JournalAllowed' /\ Evidence'
  BY DEF Listen, process, GoneInv, Resting, OwnManual, Allowed, JournalAllowed,
     Blocked, Evidence, Connected
<1> QED
  BY <1>1, <1>2 DEF GoneInv

LEMMA GoneOccupy ==
  GoneInv => \A r \in Rules : Occupy(r) => GoneInv'
<1> SUFFICES ASSUME GoneInv, NEW r \in Rules, Occupy(r) PROVE GoneInv'
  OBVIOUS
<1>1. OwnedInv'
  BY OwnedOccupy DEF GoneInv
<1>2. Resting' /\ OwnManual' /\ Allowed' /\ JournalAllowed' /\ Evidence'
  BY DEF Occupy, process, GoneInv, Resting, OwnManual, Allowed, JournalAllowed,
     Blocked, Evidence, Connected
<1> QED
  BY <1>1, <1>2 DEF GoneInv

LEMMA GoneStutter == GoneInv /\ UNCHANGED vars => GoneInv'
<1> SUFFICES ASSUME GoneInv, UNCHANGED vars PROVE GoneInv'
  OBVIOUS
<1>1. OwnedInv'
  BY OwnedStutter DEF GoneInv
<1>2. Resting' /\ OwnManual' /\ Allowed' /\ JournalAllowed' /\ Evidence'
  BY DEF vars, GoneInv, Resting, OwnManual, Allowed, JournalAllowed, Blocked,
     Evidence, Connected
<1> QED
  BY <1>1, <1>2 DEF GoneInv

LEMMA GoneNext == GoneInv /\ [Next]_vars => GoneInv'
<1> SUFFICES ASSUME GoneInv, [Next]_vars PROVE GoneInv'
  OBVIOUS
<1>1. CASE WorkerStart \/ WorkerDial \/ WorkerDialFails
  BY <1>1, GoneWorkerStart, GoneWorkerDial, GoneWorkerDialFails
<1>2. CASE Recover
  BY <1>2, GoneRecoverRule, GoneRecoverFails, GoneRecoverDone DEF Recover
<1>3. CASE RoundBegin \/ RoundRefused
  BY <1>3, GoneRoundBegin, GoneRoundRefused
<1>4. CASE Reconcile
  BY <1>4, GoneProbeOk, GoneProbeFails, GoneRemoveRule, GoneRemoveRuleLost,
     GoneSaveKept, GoneAddJournal, GoneAddRule, GoneAddLost, GoneSaveAdded,
     GoneRoundEnd DEF Reconcile
<1>5. CASE WorkerDies
  BY <1>5, GoneWorkerDies
<1>6. CASE Environment
  BY <1>6, GoneVmStart, GoneVmDies, GoneConfigure, GoneListen, GoneOccupy
     DEF Environment
<1>7. CASE UNCHANGED vars
  BY <1>7, GoneStutter
<1> QED
  BY <1>1, <1>2, <1>3, <1>4, <1>5, <1>6, <1>7 DEF Next, WorkerStep

(* The steps that remove a rule from a QEMU that goes on: those of a       *)
(* recovery, and those of the removals of a round.                         *)
LEMMA RemovalSteps ==
  ASSUME GoneInv, [Next]_vars, vmOn', pc # "recover", NEW r \in fwd \ fwd'
  PROVE  pc = "remove" /\ Connected /\ r \in todo
<1>1. CASE WorkerStart \/ WorkerDial \/ WorkerDialFails
  BY <1>1 DEF WorkerStart, WorkerDial, WorkerDialFails
<1>2. CASE Recover
  BY <1>2 DEF Recover, RecoverRule, RecoverFails, RecoverDone
<1>3. CASE RoundBegin \/ RoundRefused
  BY <1>3 DEF RoundBegin, RoundRefused
<1>4. CASE Reconcile
  BY <1>4 DEF Reconcile, ProbeOk, ProbeFails, RemoveRule, Removed,
     RemoveRuleLost, RemoveLost, SaveKept, AddJournal, AddRule, AddLost,
     SaveAdded, RoundEnd
<1>5. CASE WorkerDies
  BY <1>5 DEF WorkerDies
<1>6. CASE Environment
  BY <1>6 DEF Environment, VmStart, VmDies, Configure, Listen, Occupy, GoneInv,
     OwnedInv, Ranges
<1>7. CASE UNCHANGED vars
  BY <1>7 DEF vars
<1> QED
  BY <1>1, <1>2, <1>3, <1>4, <1>5, <1>6, <1>7 DEF Next, WorkerStep

(* A rule disappears from a running QEMU only when a new worker clears the *)
(* journal, its address is no longer the configured one, or the last       *)
(* successful probe did not report its port; a failed probe removes none.  *)
THEOREM RemovedOnlyIfGoneHolds == Spec => RemovedOnlyIfGone
<1>1. Init => GoneInv
  BY GoneInit
<1>2. GoneInv /\ [Next]_vars => GoneInv'
  BY GoneNext
<1>3. GoneInv /\ [Next]_vars =>
        [ \A r \in fwd \ fwd' :
            vmOn' => \/ pc = "recover"
                     \/ r.addr # addr
                     \/ r.port \notin heard ]_vars
  BY RemovalSteps DEF GoneInv, Evidence
<1> QED
  BY <1>1, <1>2, <1>3, PTL DEF Spec, RemovedOnlyIfGone
=============================================================================
