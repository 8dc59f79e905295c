---------------------------- MODULE UnixLauncher ----------------------------
(***************************************************************************)
(* The launcher of macOS and Linux (src/voxy, src/lib/ports.sh) and its    *)
(* ports helper (src/windows/cmd/voxy-ports/main.go), as far as they share *)
(* files: commands that exclude each other by a directory, control.lock,   *)
(* the configured rules (PortRules), and the three files by which a start  *)
(* tells the helper about the VM it launched.  Each of these is known here *)
(* by the session whose start wrote it.                                    *)
(***************************************************************************)
EXTENDS PortRules

CONSTANTS
    Procs,        \* launcher processes at once
    SshPorts,     \* values of VOXY_SSH_PORT
    ByHand,       \* files an editor may have left as ports.conf
    Requests,     \* bound: what the commands ask to add or to remove
    MaxSession    \* bound: QEMU processes

ASSUME LauncherAssumption ==
    /\ SshPorts \subseteq Nat /\ 0 \notin Procs /\ MaxSession \in Nat
    /\ ByHand \subseteq Seq(Line) /\ Requests \subseteq Request

VARIABLES
    lock,       \* control.lock: the process that made the directory, or 0
    proc,       \* the launcher processes
    conf,       \* ports.conf
    vm,         \* the session of the QEMU that runs, or 0
    session,    \* the last session
    active,     \* ports.active
    sshport,    \* ssh-port
    current,    \* ports-session
    waiting,    \* whether a helper waits for ports-worker.lck
    helper      \* the helper that has it

told == <<active, sshport, current>>
vars == <<lock, proc, conf, vm, session, told, waiting, helper>>

(* read is ports.conf as a command read it, new what it made of it.        *)
Out == [pc |-> "out", read |-> <<>>, new |-> <<>>, ssh |-> 0]

(* mine is the session a helper serves, conn the one its connection        *)
(* reaches, manual and ssh those of the files it read.                     *)
NoHelper == [pc |-> "gone", mine |-> 0, conn |-> 0, manual |-> 0, ssh |-> 0]

Init ==
    /\ lock = 0
    /\ proc = [p \in Procs |-> Out]
    /\ conf \in ByHand
    /\ vm = 0 /\ session = 0
    /\ active = 0 /\ sshport = 0 /\ current = 0
    /\ waiting = FALSE /\ helper = NoHelper

Step(p, pc) == proc' = [proc EXCEPT ![p].pc = pc]

(* The trap on exit removes the directory.                                 *)
Leave(p) == proc' = [proc EXCEPT ![p] = Out] /\ lock' = 0

(* The helper is launched in the background if QEMU runs.                  *)
LaunchHelper == waiting' = (waiting \/ vm # 0)

-----------------------------------------------------------------------------
(* A launcher process.                                                     *)

(* A command is given its port by the environment, which may change.       *)
Command(p) ==
    /\ proc[p].pc = "out"
    /\ \E ssh \in SshPorts : proc' = [proc EXCEPT ![p] = [Out EXCEPT !.pc = "lock", !.ssh = ssh]]
    /\ UNCHANGED <<lock, conf, vm, session, told, waiting, helper>>

(* Mutant: the trap is set before the directory is made, and removes that  *)
(* of another.                                                             *)
MakeLockTrapped(p) ==
    /\ proc[p].pc = "lock"
    /\ IF lock = 0
       THEN /\ lock' = p
            /\ Step(p, "start") \/ Step(p, "ports")
       ELSE Leave(p)
    /\ UNCHANGED <<conf, vm, session, told, waiting, helper>>

(* mkdir; a command that finds the directory leaves it where it is.        *)
MakeLock(p) ==
    /\ proc[p].pc = "lock"
    /\ IF lock = 0
       THEN /\ lock' = p
            /\ Step(p, "start") \/ Step(p, "ports")
       ELSE proc' = [proc EXCEPT ![p] = Out] /\ UNCHANGED lock
    /\ UNCHANGED <<conf, vm, session, told, waiting, helper>>

(* start on a VM that runs launches a helper.  Otherwise the rules are     *)
(* read, with the port of this command.                                    *)
StartBegin(p) ==
    LET rules == AwkLoad(conf, proc[p].ssh) IN
    /\ proc[p].pc = "start"
    /\ IF vm # 0 \/ rules = Refused
       THEN Leave(p) /\ LaunchHelper
       ELSE /\ proc' = [proc EXCEPT ![p].pc = "boot", ![p].new = rules]
            /\ UNCHANGED <<lock, waiting>>
    /\ UNCHANGED <<conf, vm, session, told, helper>>

(* QEMU goes to the background when its monitor listens, or fails.         *)
Boot(p) ==
    /\ proc[p].pc = "boot"
    /\ \/ /\ vm = 0 /\ session < MaxSession
          /\ session' = session + 1 /\ vm' = session + 1
          /\ proc' = [proc EXCEPT ![p] = [Out EXCEPT !.pc = "active"]]
          /\ UNCHANGED lock
       \/ Leave(p) /\ UNCHANGED <<vm, session>>
    /\ UNCHANGED <<conf, told, waiting, helper>>

(* Mutant: the session is written before the rules.                        *)
TellActiveLast(p) ==
    \/ /\ proc[p].pc = "active"
       /\ current' = session /\ Step(p, "late")
       /\ UNCHANGED <<lock, conf, vm, session, active, sshport, waiting, helper>>
    \/ /\ proc[p].pc = "late"
       /\ active' = session /\ Step(p, "sshport")
       /\ UNCHANGED <<lock, conf, vm, session, sshport, current, waiting, helper>>

(* The files are written one after the other; ports-session is the last.   *)
TellActive(p) ==
    /\ proc[p].pc = "active"
    /\ active' = session /\ Step(p, "sshport")
    /\ UNCHANGED <<lock, conf, vm, session, sshport, current, waiting, helper>>

TellSshPort(p) ==
    /\ proc[p].pc = "sshport"
    /\ sshport' = session /\ Step(p, "session")
    /\ UNCHANGED <<lock, conf, vm, session, active, current, waiting, helper>>

TellSession(p) ==
    /\ proc[p].pc = "session"
    /\ current' = session
    /\ LaunchHelper
    /\ Leave(p)
    /\ UNCHANGED <<conf, vm, session, active, sshport, helper>>

(* ports add, remove and clear; clear does not read the file.              *)
Edited(file, ssh) ==
    {<<>>} \cup
    {AwkAddTo(file, ssh, q) : q \in Requests} \cup {AwkRemoveFrom(file, ssh, q) : q \in Requests}

(* Mutant: a refusal is not looked at.                                     *)
PortsReadAnyway(p) ==
    /\ proc[p].pc = "ports"
    /\ \E new \in Edited(conf, proc[p].ssh) :
          proc' = [proc EXCEPT ![p] = [Out EXCEPT !.pc = "move", !.read = conf, !.new = new]]
    /\ UNCHANGED <<lock, conf, vm, session, told, waiting, helper>>

PortsRead(p) ==
    /\ proc[p].pc = "ports"
    /\ \E new \in Edited(conf, proc[p].ssh) :
          IF new = Refused THEN Leave(p)
          ELSE /\ proc' = [proc EXCEPT ![p] =
                              [Out EXCEPT !.pc = "move", !.read = conf, !.new = new]]
               /\ UNCHANGED lock
    /\ UNCHANGED <<conf, vm, session, told, waiting, helper>>

(* ports auto leaves ports.conf alone, and launches a helper.              *)
PortsAuto(p) ==
    /\ proc[p].pc = "ports"
    /\ LaunchHelper
    /\ Leave(p)
    /\ UNCHANGED <<conf, vm, session, told, helper>>

PortsMove(p) ==
    /\ proc[p].pc = "move"
    /\ conf' = Encoded(proc[p].new)
    /\ Leave(p)
    /\ UNCHANGED <<vm, session, told, waiting, helper>>

(* SIGKILL or a power loss: the directory stays.  The QEMU of a start may  *)
(* come up all the same, and nobody tells of it.                           *)
Killed(p) ==
    /\ proc[p].pc # "out"
    /\ proc' = [proc EXCEPT ![p] = Out]
    /\ \/ UNCHANGED <<vm, session>>
       \/ /\ proc[p].pc = "boot" /\ vm = 0 /\ session < MaxSession
          /\ session' = session + 1 /\ vm' = session + 1
    /\ UNCHANGED <<lock, conf, told, waiting, helper>>

(* The operator looks first, and removes the directory of a dead process.  *)
RemoveLock ==
    /\ lock # 0 /\ proc[lock].pc \in {"out", "lock"}
    /\ lock' = 0
    /\ UNCHANGED <<proc, conf, vm, session, told, waiting, helper>>

(* stop asks the guest for it; QEMU may end at any other time too.         *)
VmExits ==
    /\ vm # 0
    /\ vm' = 0
    /\ UNCHANGED <<lock, proc, conf, session, told, waiting, helper>>

-----------------------------------------------------------------------------
(* The helper.                                                             *)

HelperEnters ==
    /\ waiting /\ helper.pc = "gone"
    /\ waiting' = FALSE
    /\ helper' = [NoHelper EXCEPT !.pc = "dial", !.mine = current]
    /\ UNCHANGED <<lock, proc, conf, vm, session, told>>

HelperGivesUp ==
    /\ waiting /\ helper.pc # "gone"
    /\ waiting' = FALSE
    /\ UNCHANGED <<lock, proc, conf, vm, session, told, helper>>

(* The monitor that listens now; without one the helper ends.              *)
HelperDials ==
    /\ helper.pc = "dial"
    /\ helper' = IF vm = 0 THEN NoHelper
                 ELSE [helper EXCEPT !.pc = "read", !.conn = vm]
    /\ UNCHANGED <<lock, proc, conf, vm, session, told, waiting>>

(* ports.active, and then ssh-port; then Recover, from the journal of mine *)
HelperReads ==
    /\ \/ /\ helper.pc = "read"
          /\ helper' = [helper EXCEPT !.pc = "port", !.manual = active]
       \/ /\ helper.pc = "port"
          /\ helper' = [helper EXCEPT !.pc = "serve", !.ssh = sshport]
    /\ UNCHANGED <<lock, proc, conf, vm, session, told, waiting>>

(* The loop ends with the connection, or when another session is written;  *)
(* and any error ends the helper.                                          *)
HelperEnds ==
    /\ helper.pc # "gone"
    /\ helper' = NoHelper
    /\ UNCHANGED <<lock, proc, conf, vm, session, told, waiting>>

-----------------------------------------------------------------------------
Next ==
    \/ \E p \in Procs :
          \/ Command(p) \/ MakeLock(p) \/ StartBegin(p) \/ Boot(p)
          \/ TellActive(p) \/ TellSshPort(p) \/ TellSession(p)
          \/ PortsRead(p) \/ PortsAuto(p) \/ PortsMove(p) \/ Killed(p)
    \/ RemoveLock \/ VmExits
    \/ HelperEnters \/ HelperGivesUp \/ HelperDials \/ HelperReads \/ HelperEnds

Spec == Init /\ [][Next]_vars

-----------------------------------------------------------------------------
(* Properties.                                                             *)

(* Types; the files a start writes and those a helper read are of sessions *)
(* that were.                                                              *)
TypeOK ==
    /\ lock \in Procs \cup {0}
    /\ proc \in [Procs -> [pc : {"out", "lock", "start", "boot", "active", "sshport",
                                 "session", "ports", "move"},
                           read : Seq(Line), new : Seq(Rule), ssh : SshPorts \cup {0}]]
    /\ conf \in Seq(Line)
    /\ vm \in {0, session} /\ session \in 0 .. MaxSession
    /\ {active, sshport, current} \subseteq 0 .. session
    /\ waiting \in BOOLEAN
    /\ helper \in [pc : {"gone", "dial", "read", "port", "serve"}, mine : 0 .. session,
                   conn : 0 .. session, manual : 0 .. session, ssh : 0 .. session]

(* One command at a time is past control.lock, whatever was killed and     *)
(* whatever directory the operator removed.                                *)
OneCommand ==
    \A p, q \in Procs :
       proc[p].pc \notin {"out", "lock"} /\ proc[q].pc \notin {"out", "lock"} => p = q

(* A change to ports.conf is made from the file it replaces: no change is  *)
(* lost to another.                                                        *)
NoLostChange ==
    \A p \in Procs : proc[p].pc = "move" => proc[p].read = conf

(* On every file the commands or an editor leave, whatever the port of SSH *)
(* is by then, the script does what Windows does, or refuses because of    *)
(* how a port is written; a file that Windows wrote it does not refuse.    *)
Agree ==
    /\ SameRules(conf, SshPorts)
    /\ [][conf' # conf => SameRules(conf', SshPorts)]_conf

(* The rules given to QEMU do not overlap each other nor its SSH, although *)
(* file and port of SSH change between the commands, and they are still    *)
(* those of the file.                                                      *)
BootSound ==
    \A p \in Procs :
       proc[p].pc = "boot" =>
          GoValid(proc[p].new, proc[p].ssh) /\ conf = Encoded(proc[p].new)

(* A helper that goes by the journal of the VM it is connected to knows    *)
(* the manual rules and the SSH port of that VM, although it reads four    *)
(* files that starts write meanwhile and may leave half written.           *)
HelperKnows ==
    helper.pc = "serve" /\ helper.conn = vm /\ helper.mine = vm
       => {helper.manual, helper.ssh} = {vm}
=============================================================================
