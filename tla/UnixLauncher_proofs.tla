------------------------ MODULE UnixLauncher_proofs ------------------------
(***************************************************************************)
(* Proofs about UnixLauncher, for any set of launcher processes, any rules *)
(* and requests, and any number of sessions.  The lock, the changes and    *)
(* what a helper is told do not depend on what the rules are: AwkLoad and  *)
(* Edited are not expanded there.  The last two sections use what          *)
(* PortRules_proofs says of them.                                          *)
(***************************************************************************)
EXTENDS UnixLauncher, PortRules_proofs, TLAPS

Past(p) == proc[p].pc \notin {"out", "lock"}

(* What is known of a process without knowing what a rule is.              *)
Shape ==
    /\ DOMAIN proc = Procs
    /\ \A p \in Procs : DOMAIN proc[p] = {"pc", "read", "new", "ssh"}

(* The strengthening of OneCommand: whoever is past control.lock made it.  *)
Owner == \A p \in Procs : Past(p) => lock = p

LockInv == Shape /\ Owner

-----------------------------------------------------------------------------
(* control.lock.                                                           *)

LEMMA LockInit == Init => LockInv
  BY DEF Init, Out, LockInv, Shape, Owner, Past

LEMMA LockCommand == ASSUME LockInv, NEW p \in Procs, Command(p) PROVE LockInv'
  BY DEF Command, Out, LockInv, Shape, Owner, Past

(* The one step that takes the lock finds nobody past it.                  *)
LEMMA LockMakeLock == ASSUME LockInv, NEW p \in Procs, MakeLock(p) PROVE LockInv'
<1>1. CASE lock = 0
  <2>1. \A q \in Procs : ~Past(q)
    BY <1>1, LauncherAssumption DEF LauncherAssumption, LockInv, Owner
  <2> QED
    BY <1>1, <2>1 DEF MakeLock, Step, LockInv, Shape, Owner, Past
<1>2. CASE lock # 0
  BY <1>2 DEF MakeLock, Out, LockInv, Shape, Owner, Past
<1> QED
  BY <1>1, <1>2

(* A process that is past the lock and leaves was the only one.            *)
LEMMA LockLeave == ASSUME LockInv, NEW p \in Procs, Past(p), Leave(p) PROVE LockInv'
<1>1. \A q \in Procs \ {p} : ~Past(q)
  BY DEF LockInv, Owner
<1> QED
  BY <1>1 DEF Leave, Out, LockInv, Shape, Owner, Past

LEMMA LockStartBegin == ASSUME LockInv, NEW p \in Procs, StartBegin(p) PROVE LockInv'
<1>1. Past(p)
  BY DEF StartBegin, Past
<1>2. CASE Leave(p)
  BY <1>1, <1>2, LockLeave
<1>3. CASE ~Leave(p)
  <2>1. /\ proc' = [proc EXCEPT ![p].pc = "boot", ![p].new = AwkLoad(conf, proc[p].ssh)]
        /\ lock' = lock
    BY <1>3 DEF StartBegin
  <2> QED
    BY <1>1, <2>1 DEF LockInv, Shape, Owner, Past
<1> QED
  BY <1>2, <1>3

LEMMA LockBoot == ASSUME LockInv, NEW p \in Procs, Boot(p) PROVE LockInv'
<1>1. Past(p)
  BY DEF Boot, Past
<1>2. CASE Leave(p)
  BY <1>1, <1>2, LockLeave
<1>3. CASE ~Leave(p)
  BY <1>1, <1>3 DEF Boot, Out, LockInv, Shape, Owner, Past
<1> QED
  BY <1>2, <1>3

LEMMA LockTell ==
  ASSUME LockInv, NEW p \in Procs, TellActive(p) \/ TellSshPort(p) \/ TellSession(p)
  PROVE  LockInv'
<1>1. CASE TellActive(p)
  BY <1>1 DEF TellActive, Step, LockInv, Shape, Owner, Past
<1>2. CASE TellSshPort(p)
  BY <1>2 DEF TellSshPort, Step, LockInv, Shape, Owner, Past
<1>3. CASE TellSession(p)
  BY <1>3, LockLeave DEF TellSession, Past
<1> QED
  BY <1>1, <1>2, <1>3

LEMMA LockPorts ==
  ASSUME LockInv, NEW p \in Procs, PortsRead(p) \/ PortsAuto(p) \/ PortsMove(p)
  PROVE  LockInv'
<1>1. Past(p)
  BY DEF PortsRead, PortsAuto, PortsMove, Past
<1>2. CASE Leave(p)
  BY <1>1, <1>2, LockLeave
<1>3. CASE ~Leave(p)
  <2>1. PICK new \in Edited(conf, proc[p].ssh) :
          /\ proc' = [proc EXCEPT ![p] = [Out EXCEPT !.pc = "move", !.read = conf, !.new = new]]
          /\ lock' = lock
    BY <1>3 DEF PortsRead, PortsAuto, PortsMove
  <2> QED
    BY <1>1, <2>1 DEF Out, LockInv, Shape, Owner, Past
<1> QED
  BY <1>2, <1>3

LEMMA LockKilled == ASSUME LockInv, NEW p \in Procs, Killed(p) PROVE LockInv'
  BY DEF Killed, Out, LockInv, Shape, Owner, Past

(* The operator removes the directory of a process that is not past it, so *)
(* nobody is.                                                              *)
LEMMA LockRemoveLock == LockInv /\ RemoveLock => LockInv'
  BY DEF RemoveLock, LockInv, Shape, Owner, Past

Others ==
    \/ VmExits \/ HelperEnters \/ HelperGivesUp \/ HelperDials \/ HelperReads
    \/ HelperEnds \/ UNCHANGED vars

LEMMA LockOthers == LockInv /\ Others => LockInv'
<1> SUFFICES ASSUME LockInv, Others PROVE LockInv'
  OBVIOUS
<1>1. UNCHANGED <<proc, lock>>
  BY DEF Others, VmExits, HelperEnters, HelperGivesUp, HelperDials, HelperReads,
     HelperEnds, vars
<1> QED
  BY <1>1 DEF LockInv, Shape, Owner, Past

LEMMA LockNext == LockInv /\ [Next]_vars => LockInv'
<1> SUFFICES ASSUME LockInv, [Next]_vars PROVE LockInv'
  OBVIOUS
<1>1. CASE \E p \in Procs : Command(p) \/ MakeLock(p) \/ StartBegin(p) \/ Boot(p)
  BY <1>1, LockCommand, LockMakeLock, LockStartBegin, LockBoot
<1>2. CASE \E p \in Procs : TellActive(p) \/ TellSshPort(p) \/ TellSession(p)
  BY <1>2, LockTell
<1>3. CASE \E p \in Procs : PortsRead(p) \/ PortsAuto(p) \/ PortsMove(p) \/ Killed(p)
  BY <1>3, LockPorts, LockKilled
<1>4. CASE RemoveLock \/ Others
  BY <1>4, LockRemoveLock, LockOthers
<1> QED
  BY <1>1, <1>2, <1>3, <1>4 DEF Next, Others

(* Whoever is past control.lock holds it, for any number of processes.     *)
THEOREM LockInvariant == Spec => []LockInv
<1> QED
  BY LockInit, LockNext, PTL DEF Spec

(* Commands exclude each other, although the lock outlives its owner and   *)
(* is then removed by hand.                                                *)
THEOREM OneCommandHolds == Spec => []OneCommand
<1>1. LockInv => OneCommand
  BY DEF LockInv, Owner, Past, OneCommand
<1> QED
  BY <1>1, LockInvariant, PTL

-----------------------------------------------------------------------------
(* ports.conf.  Of a file that is read and replaced the reader is past the *)
(* lock, and so is whoever replaces it.                                    *)

KeptInv == LockInv /\ NoLostChange

LEMMA KeptInit == Init => KeptInv
  BY LockInit DEF Init, Out, KeptInv, NoLostChange

LEMMA KeptPortsRead == ASSUME KeptInv, NEW p \in Procs, PortsRead(p) PROVE NoLostChange'
<1>1. CASE Leave(p)
  BY <1>1 DEF PortsRead, Leave, Out, KeptInv, LockInv, Shape, NoLostChange
<1>2. CASE ~Leave(p)
  <2>1. PICK new \in Edited(conf, proc[p].ssh) :
          /\ proc' = [proc EXCEPT ![p] = [Out EXCEPT !.pc = "move", !.read = conf, !.new = new]]
          /\ conf' = conf
    BY <1>2 DEF PortsRead
  <2> QED
    BY <2>1 DEF Out, KeptInv, LockInv, Shape, NoLostChange
<1> QED
  BY <1>1, <1>2

LEMMA KeptPortsMove == ASSUME KeptInv, NEW p \in Procs, PortsMove(p) PROVE NoLostChange'
<1>1. \A q \in Procs \ {p} : proc[q].pc # "move"
  BY DEF PortsMove, KeptInv, LockInv, Owner, Past
<1> QED
  BY <1>1 DEF PortsMove, Leave, Out, KeptInv, LockInv, Shape, NoLostChange

(* Every other step leaves the file alone, and brings no process to move.  *)
LEMMA KeptStep ==
  ASSUME KeptInv, NEW p \in Procs,
         \/ Command(p) \/ MakeLock(p) \/ StartBegin(p) \/ Boot(p) \/ Killed(p)
         \/ TellActive(p) \/ TellSshPort(p) \/ TellSession(p) \/ PortsAuto(p)
  PROVE  NoLostChange'
<1>1. CASE Command(p) \/ Killed(p)
  <2>1. conf' = conf /\ DOMAIN proc' = Procs /\ proc'[p].pc # "move"
        /\ \A q \in Procs \ {p} : proc'[q] = proc[q]
    <3>1. CASE Command(p)
      BY <3>1 DEF Command, Out, KeptInv, LockInv, Shape
    <3>2. CASE Killed(p)
      BY <3>2 DEF Killed, Out, KeptInv, LockInv, Shape
    <3> QED
      BY <1>1, <3>1, <3>2
  <2> QED
    BY <2>1 DEF KeptInv, NoLostChange
<1>2. CASE MakeLock(p)
  BY <1>2 DEF MakeLock, Step, Out, KeptInv, LockInv, Shape, NoLostChange
<1>3. CASE StartBegin(p)
  <2>1. CASE Leave(p)
    BY <1>3, <2>1 DEF StartBegin, Leave, Out, KeptInv, LockInv, Shape, NoLostChange
  <2>2. CASE ~Leave(p)
    <3>1. /\ proc' = [proc EXCEPT ![p].pc = "boot", ![p].new = AwkLoad(conf, proc[p].ssh)]
          /\ conf' = conf
      BY <1>3, <2>2 DEF StartBegin
    <3> QED
      BY <3>1 DEF KeptInv, LockInv, Shape, NoLostChange
  <2> QED
    BY <2>1, <2>2
<1>4. CASE Boot(p)
  BY <1>4 DEF Boot, Leave, Out, KeptInv, LockInv, Shape, NoLostChange
<1>5. CASE TellActive(p) \/ TellSshPort(p)
  BY <1>5 DEF TellActive, TellSshPort, Step, KeptInv, LockInv, Shape, NoLostChange
<1>6. CASE TellSession(p) \/ PortsAuto(p)
  BY <1>6 DEF TellSession, PortsAuto, Leave, Out, KeptInv, LockInv, Shape, NoLostChange
<1> QED
  BY <1>1, <1>2, <1>3, <1>4, <1>5, <1>6

LEMMA KeptOthers == KeptInv /\ (RemoveLock \/ Others) => NoLostChange'
<1> SUFFICES ASSUME KeptInv, RemoveLock \/ Others PROVE NoLostChange'
  OBVIOUS
<1>1. UNCHANGED <<proc, conf>>
  BY DEF RemoveLock, Others, VmExits, HelperEnters, HelperGivesUp, HelperDials,
     HelperReads, HelperEnds, vars
<1> QED
  BY <1>1 DEF KeptInv, NoLostChange

LEMMA KeptNext == KeptInv /\ [Next]_vars => KeptInv'
<1> SUFFICES ASSUME KeptInv, [Next]_vars PROVE KeptInv'
  OBVIOUS
<1>1. LockInv'
  BY LockNext DEF KeptInv
<1>2. CASE \E p \in Procs : PortsRead(p) \/ PortsMove(p)
  BY <1>1, <1>2, KeptPortsRead, KeptPortsMove DEF KeptInv
<1>3. CASE \E p \in Procs :
              \/ Command(p) \/ MakeLock(p) \/ StartBegin(p) \/ Boot(p) \/ Killed(p)
              \/ TellActive(p) \/ TellSshPort(p) \/ TellSession(p) \/ PortsAuto(p)
  BY <1>1, <1>3, KeptStep DEF KeptInv
<1>4. CASE RemoveLock \/ Others
  BY <1>1, <1>4, KeptOthers DEF KeptInv
<1> QED
  BY <1>2, <1>3, <1>4 DEF Next, Others

(* No change of the rules is lost to another command, whatever the         *)
(* commands make of the file.                                              *)
THEOREM NoLostChangeHolds == Spec => []NoLostChange
<1>1. KeptInv => NoLostChange
  BY DEF KeptInv
<1> QED
  BY <1>1, KeptInit, KeptNext, PTL DEF Spec

-----------------------------------------------------------------------------
(* What a start tells a helper.                                            *)

Sessions ==
    /\ session \in Nat /\ vm \in {0, session}
    /\ active \in 0 .. session /\ sshport \in 0 .. session /\ current \in 0 .. session

HelperTypes ==
    helper \in [pc : {"gone", "dial", "read", "port", "serve"}, mine : 0 .. session,
                conn : 0 .. session, manual : 0 .. session, ssh : 0 .. session]

(* The files are those of the session that runs up to where its start got. *)
Telling ==
    \A p \in Procs :
       /\ proc[p].pc = "sshport" => active = session
       /\ proc[p].pc = "session" => active = session /\ sshport = session

(* Once somebody knows the last session by name, it is told.               *)
Told ==
    session \in {current, helper.mine} \ {0} => active = session /\ sshport = session

Serving ==
    /\ helper.pc \in {"read", "port", "serve"} => helper.conn # 0
    /\ helper.pc \in {"port", "serve"} /\ helper.mine = session /\ session # 0
          => helper.manual = session
    /\ helper.pc = "serve" /\ helper.mine = session /\ session # 0
          => helper.ssh = session

ToldInv == LockInv /\ Sessions /\ HelperTypes /\ Telling /\ Told /\ Serving

LEMMA ToldInit == Init => ToldInv
  BY LockInit DEF Init, Out, NoHelper, ToldInv, Sessions, HelperTypes, Telling, Told, Serving

(* A step of a process that is not telling, and tells nothing.             *)
LEMMA ToldQuiet ==
  ASSUME ToldInv, LockInv', UNCHANGED <<vm, session, told, helper>>,
         NEW p \in Procs, \A q \in Procs \ {p} : proc'[q] = proc[q],
         proc'[p].pc \notin {"sshport", "session"}
  PROVE  ToldInv'
  BY DEF told, ToldInv, Sessions, HelperTypes, Telling, Told, Serving

LEMMA ToldProcess ==
  ASSUME ToldInv, LockInv', NEW p \in Procs,
         \/ Command(p) \/ MakeLock(p) \/ StartBegin(p)
         \/ PortsRead(p) \/ PortsAuto(p) \/ PortsMove(p)
  PROVE  ToldInv'
<1>1. UNCHANGED <<vm, session, told, helper>>
  BY DEF Command, MakeLock, StartBegin, PortsRead, PortsAuto, PortsMove
<1>2. DOMAIN proc = Procs /\ DOMAIN proc[p] = {"pc", "read", "new", "ssh"}
  BY DEF ToldInv, LockInv, Shape
<1>3. /\ \A q \in Procs \ {p} : proc'[q] = proc[q]
      /\ proc'[p].pc \notin {"sshport", "session"}
  <2>0. CASE Command(p)
    BY <1>2, <2>0 DEF Command, Out
  <2>2. CASE MakeLock(p)
    BY <1>2, <2>2 DEF MakeLock, Step, Out
  <2>3. CASE StartBegin(p)
    <3>1. CASE Leave(p)
      BY <1>2, <3>1 DEF Leave, Out
    <3>2. CASE ~Leave(p)
      <4>1. proc' = [proc EXCEPT ![p].pc = "boot", ![p].new = AwkLoad(conf, proc[p].ssh)]
        BY <2>3, <3>2 DEF StartBegin
      <4> QED
        BY <1>2, <4>1
    <3> QED
      BY <3>1, <3>2
  <2>4. CASE PortsRead(p)
    <3>1. CASE Leave(p)
      BY <1>2, <3>1 DEF Leave, Out
    <3>2. CASE ~Leave(p)
      <4>1. PICK new \in Edited(conf, proc[p].ssh) :
              proc' = [proc EXCEPT ![p] = [Out EXCEPT !.pc = "move", !.read = conf, !.new = new]]
        BY <2>4, <3>2 DEF PortsRead
      <4> QED
        BY <1>2, <4>1 DEF Out
    <3> QED
      BY <3>1, <3>2
  <2>5. CASE PortsAuto(p) \/ PortsMove(p)
    BY <1>2, <2>5 DEF PortsAuto, PortsMove, Leave, Out
  <2> QED
    BY <2>0, <2>2, <2>3, <2>4, <2>5
<1> QED
  BY <1>1, <1>3, ToldQuiet

(* A new session is known to nobody, and its start tells it from the       *)
(* beginning, if it lives.                                                 *)
LEMMA ToldBoot ==
  ASSUME ToldInv, LockInv', NEW p \in Procs, Boot(p) \/ Killed(p)
  PROVE  ToldInv'
<1>1. DOMAIN proc = Procs
  BY DEF ToldInv, LockInv, Shape
<1>2. /\ \A q \in Procs \ {p} : proc'[q] = proc[q]
      /\ proc'[p].pc \notin {"sshport", "session"}
      /\ UNCHANGED <<told, helper>>
  BY <1>1 DEF Boot, Killed, Leave, Out
<1>3. CASE proc[p].pc = "boot" /\ vm' = session + 1 /\ session' = session + 1
  <2>1. \A q \in Procs : proc'[q].pc \notin {"sshport", "session"}
    BY <1>2, <1>3 DEF Past, ToldInv, LockInv, Owner
  <2>2. Sessions' /\ HelperTypes'
    BY <1>2, <1>3 DEF told, ToldInv, Sessions, HelperTypes
  <2>3. session' \notin {current', helper'.mine}
    BY <1>2, <1>3 DEF told, ToldInv, Sessions, HelperTypes
  <2> QED
    BY <1>2, <2>1, <2>2, <2>3 DEF ToldInv, Telling, Told, Serving
<1>4. CASE UNCHANGED <<vm, session>>
  BY <1>2, <1>4, ToldQuiet
<1> QED
  BY <1>3, <1>4 DEF Boot, Killed

LEMMA ToldTell ==
  ASSUME ToldInv, LockInv', NEW p \in Procs, TellActive(p) \/ TellSshPort(p) \/ TellSession(p)
  PROVE  ToldInv'
<1>1. DOMAIN proc = Procs /\ DOMAIN proc[p] = {"pc", "read", "new", "ssh"}
  BY DEF ToldInv, LockInv, Shape
<1>2. \A q \in Procs \ {p} : ~Past(q)
  BY DEF TellActive, TellSshPort, TellSession, ToldInv, LockInv, Owner, Past
<1>3. CASE TellActive(p)
  BY <1>1, <1>2, <1>3
     DEF TellActive, Step, Past, ToldInv, Sessions, HelperTypes, Telling, Told, Serving
<1>4. CASE TellSshPort(p)
  BY <1>1, <1>2, <1>4
     DEF TellSshPort, Step, Past, ToldInv, Sessions, HelperTypes, Telling, Told, Serving
<1>5. CASE TellSession(p)
  BY <1>1, <1>2, <1>5
     DEF TellSession, Leave, Out, Past, ToldInv, Sessions, HelperTypes, Telling, Told, Serving
<1> QED
  BY <1>3, <1>4, <1>5

(* The helper copies what the files say, in an order of its own.           *)
LEMMA ToldHelper ==
  ASSUME ToldInv, LockInv',
         HelperEnters \/ HelperGivesUp \/ HelperDials \/ HelperReads \/ HelperEnds
  PROVE  ToldInv'
<1>1. UNCHANGED <<proc, vm, session, told>>
  BY DEF HelperEnters, HelperGivesUp, HelperDials, HelperReads, HelperEnds
<1>2. CASE HelperEnters
  <2>1. helper' = [pc |-> "dial", mine |-> current, conn |-> 0, manual |-> 0, ssh |-> 0]
    BY <1>2 DEF HelperEnters, NoHelper
  <2> QED
    BY <1>1, <2>1 DEF told, ToldInv, Sessions, HelperTypes, Telling, Told, Serving
<1>3. CASE HelperGivesUp
  BY <1>1, <1>3 DEF HelperGivesUp, told, ToldInv, Sessions, HelperTypes, Telling, Told, Serving
<1>4. CASE HelperDials
  <2>1. CASE vm = 0
    <3>1. helper' = NoHelper
      BY <1>4, <2>1 DEF HelperDials
    <3> QED
      BY <1>1, <3>1 DEF NoHelper, told, ToldInv, Sessions, HelperTypes, Telling, Told, Serving
  <2>2. CASE vm # 0
    <3>1. helper' = [helper EXCEPT !.pc = "read", !.conn = vm]
      BY <1>4, <2>2 DEF HelperDials
    <3>2. vm \in 0 .. session /\ HelperTypes
      BY DEF ToldInv, Sessions
    <3>3. helper' = [pc |-> "read", mine |-> helper.mine, conn |-> vm,
                     manual |-> helper.manual, ssh |-> helper.ssh]
      BY <3>1, <3>2 DEF HelperTypes
    <3>4. HelperTypes'
      BY <1>1, <3>2, <3>3 DEF HelperTypes
    <3> QED
      BY <1>1, <2>2, <3>3, <3>4 DEF told, ToldInv, Sessions, Telling, Told, Serving
  <2> QED
    BY <2>1, <2>2
<1>5. CASE HelperReads
  BY <1>1, <1>5 DEF HelperReads, told, ToldInv, Sessions, HelperTypes, Telling, Told, Serving
<1>6. CASE HelperEnds
  BY <1>1, <1>6 DEF HelperEnds, NoHelper, told, ToldInv, Sessions, HelperTypes, Telling, Told,
     Serving
<1> QED
  BY <1>2, <1>3, <1>4, <1>5, <1>6

LEMMA ToldRest ==
  ASSUME ToldInv, LockInv', VmExits \/ RemoveLock \/ UNCHANGED vars PROVE ToldInv'
<1>1. UNCHANGED <<proc, session, told, helper>> /\ vm' \in {0, vm}
  BY DEF VmExits, RemoveLock, vars
<1> QED
  BY <1>1 DEF told, ToldInv, Sessions, HelperTypes, Telling, Told, Serving

LEMMA ToldNext == ToldInv /\ [Next]_vars => ToldInv'
<1> SUFFICES ASSUME ToldInv, [Next]_vars PROVE ToldInv'
  OBVIOUS
<1>1. LockInv'
  BY LockNext DEF ToldInv
<1>2. CASE \E p \in Procs :
              \/ Command(p) \/ MakeLock(p) \/ StartBegin(p)
              \/ PortsRead(p) \/ PortsAuto(p) \/ PortsMove(p)
  BY <1>1, <1>2, ToldProcess
<1>3. CASE \E p \in Procs : Boot(p) \/ Killed(p) \/ TellActive(p) \/ TellSshPort(p) \/ TellSession(p)
  BY <1>1, <1>3, ToldBoot, ToldTell
<1>4. CASE HelperEnters \/ HelperGivesUp \/ HelperDials \/ HelperReads \/ HelperEnds
  BY <1>1, <1>4, ToldHelper
<1>5. CASE VmExits \/ RemoveLock \/ UNCHANGED vars
  BY <1>1, <1>5, ToldRest
<1> QED
  BY <1>2, <1>3, <1>4, <1>5 DEF Next

(* A helper whose journal is that of its VM has the manual rules and the   *)
(* SSH port of that VM, although start and helper share no lock and a      *)
(* start may be killed between any two files.                              *)
THEOREM HelperKnowsHolds == Spec => []HelperKnows
<1>1. ToldInv => HelperKnows
  BY DEF ToldInv, Sessions, Serving, HelperKnows
<1> QED
  BY <1>1, ToldInit, ToldNext, PTL DEF Spec

-----------------------------------------------------------------------------
(* Types.  The sessions are those of ToldInv; the rest holds whatever the  *)
(* commands make of the rules, as they write a list of rules or nothing.   *)

Process == [pc : {"out", "lock", "start", "boot", "active", "sshport",
                  "session", "ports", "move"},
            read : Seq(Line), new : Seq(Rule), ssh : SshPorts \cup {0}]

Typed ==
    /\ lock \in Procs \cup {0}
    /\ proc \in [Procs -> Process]
    /\ conf \in Seq(Line)
    /\ session \in 0 .. MaxSession
    /\ waiting \in BOOLEAN

LEMMA OutTyped == Out \in Process
  BY EmptySeq DEF Out, Process

LEMMA EditedTyped ==
  ASSUME NEW file \in Seq(Line), NEW ssh
  PROVE  Edited(file, ssh) \subseteq Seq(Rule) \cup {Refused}
<1>1. <<>> \in Seq(Rule)
  BY EmptySeq
<1>2. \A q \in Requests :
         {AwkAddTo(file, ssh, q), AwkRemoveFrom(file, ssh, q)} \subseteq Seq(Rule) \cup {Refused}
  BY LauncherAssumption, EditWrites DEF LauncherAssumption
<1> QED
  BY <1>1, <1>2 DEF Edited

LEMMA TypedInit == Init => Typed
<1> SUFFICES ASSUME Init PROVE Typed
  OBVIOUS
<1>1. lock \in Procs \cup {0} /\ session \in 0 .. MaxSession
  BY LauncherAssumption DEF LauncherAssumption, Init
<1>4. waiting \in BOOLEAN
  BY Zenon DEF Init
<1>2. conf \in Seq(Line)
  BY LauncherAssumption DEF LauncherAssumption, Init
<1>3. proc \in [Procs -> Process]
  BY OutTyped DEF Init
<1> QED
  BY <1>1, <1>2, <1>3, <1>4 DEF Typed

LEMMA LeaveTyped ==
  ASSUME Typed, NEW p \in Procs, Leave(p)
  PROVE  lock' \in Procs \cup {0} /\ proc' \in [Procs -> Process]
  BY OutTyped DEF Leave, Typed

LEMMA LaunchTyped ==
  ASSUME Typed, LaunchHelper
  PROVE  waiting' \in BOOLEAN
  BY Zenon DEF LaunchHelper, Typed

LEMMA StepTyped ==
  ASSUME Typed, NEW p \in Procs,
         NEW pc \in {"start", "boot", "active", "sshport", "session", "ports"}, Step(p, pc)
  PROVE  proc' \in [Procs -> Process]
  BY DEF Step, Typed, Process

LEMMA TypedCommand == ASSUME Typed, NEW p \in Procs, Command(p) PROVE Typed'
<1>1. PICK ssh \in SshPorts : proc' = [proc EXCEPT ![p] = [Out EXCEPT !.pc = "lock", !.ssh = ssh]]
  BY DEF Command
<1>2. [Out EXCEPT !.pc = "lock", !.ssh = ssh] \in Process
  BY OutTyped DEF Out, Process
<1>3. proc' \in [Procs -> Process]
  <2> HIDE DEF Process
  <2> QED
    BY <1>1, <1>2 DEF Typed
<1> QED
  BY <1>3 DEF Command, Typed

LEMMA TypedMakeLock == ASSUME Typed, NEW p \in Procs, MakeLock(p) PROVE Typed'
<1>1. CASE lock = 0
  BY <1>1, StepTyped DEF MakeLock, Typed
<1>2. CASE lock # 0
  BY <1>2, OutTyped DEF MakeLock, Typed
<1> QED
  BY <1>1, <1>2

LEMMA TypedStartBegin == ASSUME Typed, NEW p \in Procs, StartBegin(p) PROVE Typed'
<1> DEFINE rules == AwkLoad(conf, proc[p].ssh)
<1>1. CASE vm # 0 \/ rules = Refused
  BY <1>1, LeaveTyped, LaunchTyped DEF StartBegin, Typed
<1>2. CASE ~(vm # 0 \/ rules = Refused)
  <2>1. rules \in Seq(Rule)
    BY <1>2, LoadIsFile DEF Typed
  <2>2. proc' = [proc EXCEPT ![p].pc = "boot", ![p].new = rules] /\ UNCHANGED <<lock, waiting>>
    BY <1>2 DEF StartBegin
  <2> HIDE DEF rules
  <2>3. proc' \in [Procs -> Process]
    BY <2>1, <2>2 DEF Typed, Process
  <2> QED
    BY <2>2, <2>3 DEF StartBegin, Typed
<1> QED
  BY <1>1, <1>2

LEMMA TypedBoot == ASSUME Typed, NEW p \in Procs, Boot(p) PROVE Typed'
<1>1. CASE Leave(p) /\ UNCHANGED <<vm, session>>
  BY <1>1, LeaveTyped DEF Boot, Typed
<1>2. CASE ~(Leave(p) /\ UNCHANGED <<vm, session>>)
  <2>1. /\ session < MaxSession /\ session' = session + 1 /\ UNCHANGED lock
        /\ proc' = [proc EXCEPT ![p] = [Out EXCEPT !.pc = "active"]]
    BY <1>2 DEF Boot
  <2>2. [Out EXCEPT !.pc = "active"] \in Process
    BY OutTyped DEF Out, Process
  <2>3. proc' \in [Procs -> Process]
    BY <2>1, <2>2 DEF Typed
  <2>4. session' \in 0 .. MaxSession
    BY <2>1, LauncherAssumption DEF LauncherAssumption, Typed
  <2> QED
    BY <2>1, <2>3, <2>4 DEF Boot, Typed
<1> QED
  BY <1>1, <1>2

LEMMA TypedTell ==
  ASSUME Typed, NEW p \in Procs, TellActive(p) \/ TellSshPort(p) \/ TellSession(p)
  PROVE  Typed'
<1>1. CASE TellActive(p)
  BY <1>1, StepTyped DEF TellActive, Typed
<1>2. CASE TellSshPort(p)
  BY <1>2, StepTyped DEF TellSshPort, Typed
<1>3. CASE TellSession(p)
  BY <1>3, LeaveTyped, LaunchTyped DEF TellSession, Typed
<1> QED
  BY <1>1, <1>2, <1>3

LEMMA TypedPortsRead == ASSUME Typed, NEW p \in Procs, PortsRead(p) PROVE Typed'
<1>1. PICK new \in Edited(conf, proc[p].ssh) :
        IF new = Refused THEN Leave(p)
        ELSE /\ proc' = [proc EXCEPT ![p] = [Out EXCEPT !.pc = "move", !.read = conf, !.new = new]]
             /\ UNCHANGED lock
  BY DEF PortsRead
<1>2. CASE new = Refused
  BY <1>1, <1>2, LeaveTyped DEF PortsRead, Typed
<1>3. CASE new # Refused
  <2>1. new \in Seq(Rule) /\ conf \in Seq(Line)
    BY <1>3, EditedTyped DEF Typed
  <2>2. [Out EXCEPT !.pc = "move", !.read = conf, !.new = new] \in Process
    BY <2>1, OutTyped DEF Out, Process
  <2>3. proc' \in [Procs -> Process]
    BY <1>1, <1>3, <2>2 DEF Typed
  <2> QED
    BY <1>1, <1>3, <2>3 DEF PortsRead, Typed
<1> QED
  BY <1>2, <1>3

LEMMA TypedPortsEnd ==
  ASSUME Typed, NEW p \in Procs, PortsAuto(p) \/ PortsMove(p) \/ Killed(p)
  PROVE  Typed'
<1>1. CASE PortsAuto(p)
  BY <1>1, LeaveTyped, LaunchTyped DEF PortsAuto, Typed
<1>2. CASE PortsMove(p)
  <2>1. conf' \in Seq(Line)
    BY <1>2, EncodedRead DEF PortsMove, Typed, Process
  <2> QED
    BY <1>2, <2>1, LeaveTyped DEF PortsMove, Typed
<1>3. CASE Killed(p)
  <2>1. session' \in 0 .. MaxSession
    BY <1>3, LauncherAssumption DEF LauncherAssumption, Killed, Typed
  <2> QED
    BY <1>3, <2>1, OutTyped DEF Killed, Typed
<1> QED
  BY <1>1, <1>2, <1>3

LEMMA TypedRest == Typed /\ (RemoveLock \/ Others) => Typed'
<1> SUFFICES ASSUME Typed, RemoveLock \/ Others PROVE Typed'
  OBVIOUS
<1>1. /\ UNCHANGED <<proc, conf, session>> /\ lock' \in {0, lock}
      /\ waiting' = waiting \/ waiting' = FALSE
  BY DEF RemoveLock, Others, VmExits, HelperEnters, HelperGivesUp, HelperDials,
     HelperReads, HelperEnds, vars
<1>2. waiting' \in BOOLEAN
  BY <1>1, Zenon DEF Typed
<1> QED
  BY <1>1, <1>2 DEF Typed

LEMMA TypedNext == Typed /\ [Next]_vars => Typed'
<1> SUFFICES ASSUME Typed, [Next]_vars PROVE Typed'
  OBVIOUS
<1>1. CASE \E p \in Procs : Command(p) \/ MakeLock(p) \/ StartBegin(p) \/ Boot(p)
  BY <1>1, TypedCommand, TypedMakeLock, TypedStartBegin, TypedBoot
<1>2. CASE \E p \in Procs : TellActive(p) \/ TellSshPort(p) \/ TellSession(p)
  BY <1>2, TypedTell
<1>3. CASE \E p \in Procs : PortsRead(p) \/ PortsAuto(p) \/ PortsMove(p) \/ Killed(p)
  BY <1>3, TypedPortsRead, TypedPortsEnd
<1>4. CASE RemoveLock \/ Others
  BY <1>4, TypedRest
<1> QED
  BY <1>1, <1>2, <1>3, <1>4 DEF Next, Others

(* The types of everything, the rules of a file and of a process among     *)
(* them: what a command writes is a list of rules, never a refusal.        *)
THEOREM TypeCorrect == Spec => []TypeOK
<1>1. Typed /\ ToldInv => TypeOK
  BY DEF Typed, Process, ToldInv, Sessions, HelperTypes, TypeOK
<1> QED
  BY <1>1, TypedInit, TypedNext, ToldInit, ToldNext, PTL DEF Spec

-----------------------------------------------------------------------------
(* The rules, whatever file an editor left.                                *)

(* On every file there ever is the script does what Windows does, or       *)
(* refuses because of how a port is written, which no file that either     *)
(* program wrote gives it reason to.                                       *)
THEOREM AgreeHolds == Spec => Agree
<1>1. Typed => SameRules(conf, SshPorts)
  BY SamePrograms DEF Typed
<1>2. Typed' => SameRules(conf', SshPorts)
  BY SamePrograms DEF Typed
<1>3. Typed' => [conf' # conf => SameRules(conf', SshPorts)]_conf
  BY <1>2
<1> QED
  BY <1>1, <1>3, TypedInit, TypedNext, PTL DEF Spec, Agree

(* Nobody else changes the file while a start has its rules.               *)
BootInv == LockInv /\ Typed /\ BootSound

LEMMA BootInit == Init => BootInv
  BY LockInit, TypedInit DEF Init, Out, BootInv, BootSound

LEMMA BootStartBegin == ASSUME BootInv, NEW p \in Procs, StartBegin(p) PROVE BootSound'
<1> DEFINE rules == AwkLoad(conf, proc[p].ssh)
<1>0. DOMAIN proc = Procs /\ DOMAIN proc[p] = {"pc", "read", "new", "ssh"} /\ conf' = conf
  BY DEF BootInv, LockInv, Shape, StartBegin
<1>1. CASE Leave(p)
  BY <1>0, <1>1 DEF Leave, Out, BootInv, BootSound
<1>2. CASE ~Leave(p)
  <2>1. rules # Refused /\ proc' = [proc EXCEPT ![p].pc = "boot", ![p].new = rules]
    BY <1>2 DEF StartBegin
  <2>2. conf = Encoded(rules) /\ GoValid(rules, proc[p].ssh)
    BY <2>1, LoadIsFile DEF BootInv, Typed
  <2> HIDE DEF rules
  <2>3. /\ proc'[p].new = rules /\ proc'[p].ssh = proc[p].ssh
        /\ \A q \in Procs \ {p} : proc'[q] = proc[q]
    BY <1>0, <2>1
  <2> QED
    BY <1>0, <2>2, <2>3 DEF BootInv, BootSound
<1> QED
  BY <1>1, <1>2

(* A file is moved into place by the only process past the lock.           *)
LEMMA BootPortsMove == ASSUME BootInv, NEW p \in Procs, PortsMove(p) PROVE BootSound'
<1>1. \A q \in Procs : proc'[q].pc # "boot"
  BY DEF PortsMove, Leave, Out, BootInv, LockInv, Shape, Owner, Past
<1> QED
  BY <1>1 DEF BootSound

(* Every other step leaves the file and the rules of a start alone.        *)
LEMMA BootQuiet ==
  ASSUME BootInv, UNCHANGED conf, NEW p \in Procs, proc'[p].pc # "boot",
         \A q \in Procs \ {p} : proc'[q] = proc[q]
  PROVE  BootSound'
  BY DEF BootInv, BootSound

LEMMA BootStep ==
  ASSUME BootInv, NEW p \in Procs,
         \/ Command(p) \/ MakeLock(p) \/ Boot(p) \/ Killed(p) \/ PortsRead(p) \/ PortsAuto(p)
         \/ TellActive(p) \/ TellSshPort(p) \/ TellSession(p)
  PROVE  BootSound'
<1>0. DOMAIN proc = Procs /\ DOMAIN proc[p] = {"pc", "read", "new", "ssh"}
  BY DEF BootInv, LockInv, Shape
<1>1. UNCHANGED conf
  BY DEF Command, MakeLock, Boot, Killed, PortsRead, PortsAuto, TellActive, TellSshPort,
     TellSession
<1>2. proc'[p].pc # "boot" /\ \A q \in Procs \ {p} : proc'[q] = proc[q]
  <2>0. CASE Command(p)
    BY <1>0, <2>0 DEF Command, Out
  <2>1. CASE Killed(p)
    BY <1>0, <2>1 DEF Killed, Out
  <2>2. CASE MakeLock(p)
    BY <1>0, <2>2 DEF MakeLock, Step, Out
  <2>3. CASE Boot(p)
    BY <1>0, <2>3 DEF Boot, Leave, Out
  <2>4. CASE PortsRead(p)
    <3>1. CASE Leave(p)
      BY <1>0, <3>1 DEF Leave, Out
    <3>2. CASE ~Leave(p)
      <4>1. PICK new \in Edited(conf, proc[p].ssh) :
              proc' = [proc EXCEPT ![p] = [Out EXCEPT !.pc = "move", !.read = conf, !.new = new]]
        BY <2>4, <3>2 DEF PortsRead
      <4> QED
        BY <1>0, <4>1 DEF Out
    <3> QED
      BY <3>1, <3>2
  <2>5. CASE PortsAuto(p) \/ TellSession(p)
    BY <1>0, <2>5 DEF PortsAuto, TellSession, Leave, Out
  <2>6. CASE TellActive(p) \/ TellSshPort(p)
    BY <1>0, <2>6 DEF TellActive, TellSshPort, Step
  <2> QED
    BY <2>0, <2>1, <2>2, <2>3, <2>4, <2>5, <2>6
<1> QED
  BY <1>1, <1>2, BootQuiet

LEMMA BootRest == BootInv /\ (RemoveLock \/ Others) => BootSound'
<1> SUFFICES ASSUME BootInv, RemoveLock \/ Others PROVE BootSound'
  OBVIOUS
<1>1. UNCHANGED <<proc, conf>>
  BY DEF RemoveLock, Others, VmExits, HelperEnters, HelperGivesUp, HelperDials,
     HelperReads, HelperEnds, vars
<1> QED
  BY <1>1 DEF BootInv, BootSound

LEMMA BootNext == BootInv /\ [Next]_vars => BootInv'
<1> SUFFICES ASSUME BootInv, [Next]_vars PROVE BootInv'
  OBVIOUS
<1>1. LockInv' /\ Typed'
  BY LockNext, TypedNext DEF BootInv
<1>2. BootSound'
  <2>1. CASE \E p \in Procs : StartBegin(p) \/ PortsMove(p)
    BY <2>1, BootStartBegin, BootPortsMove
  <2>2. CASE \E p \in Procs :
               \/ Command(p) \/ MakeLock(p) \/ Boot(p) \/ Killed(p) \/ PortsRead(p)
               \/ PortsAuto(p) \/ TellActive(p) \/ TellSshPort(p) \/ TellSession(p)
    BY <2>2, BootStep
  <2>3. CASE RemoveLock \/ Others
    BY <2>3, BootRest
  <2> QED
    BY <2>1, <2>2, <2>3 DEF Next, Others
<1> QED
  BY <1>1, <1>2 DEF BootInv

(* The rules a VM boots with are valid, beside each other and beside its   *)
(* SSH, and still those of ports.conf: the commands that could change the  *)
(* file between the two are shut out, and a file that does not fit the     *)
(* port of this start is refused.                                          *)
THEOREM BootSoundHolds == Spec => []BootSound
<1>1. BootInv => BootSound
  BY DEF BootInv
<1> QED
  BY <1>1, BootInit, BootNext, PTL DEF Spec
=============================================================================
