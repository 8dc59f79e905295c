------------------------------ MODULE GpuServer ------------------------------
(***************************************************************************)
(* The GPU server (src/gpu/src/server.rs): a process that listens on the   *)
(* loopback, serves each connection in a thread of its own, computes in a  *)
(* child process, and ends when it is asked to, signalled, or the QEMU it  *)
(* watches is gone.  Its state files, server.lock first, tell the launcher *)
(* (GpuSharing) about it.  A server is known by the number of its launch.  *)
(***************************************************************************)
EXTENDS Naturals, Sequences, FiniteSets, SequencesExt

CONSTANTS
    Clients,     \* connections of clients, which come again and again
    Control,     \* the connection of the launcher that asks for shutdown
    Limit,       \* threads at once
    None,
    MaxServer,   \* bound: servers launched
    MaxVm,       \* bound: QEMU processes
    Kills        \* bound: servers killed by SIGKILL

ASSUME GpuAssumption ==
    /\ Control \notin Clients /\ None \notin Clients \cup {Control}
    /\ {Limit, MaxServer, MaxVm, Kills} \subseteq Nat

VARIABLES
    vm,       \* the QEMU that runs, or 0
    vms,      \* QEMU processes so far
    srv,      \* the servers
    conn,     \* the connections
    files,    \* the files of the state directory and who wrote each
    killed,   \* servers killed so far
    left      \* servers killed in a computation that still goes on

server == <<vm, vms, srv, conn, files, killed, left>>

Servers == 1 .. MaxServer
Conns == Clients \cup {Control}

(* In the order the server writes them.                                    *)
Written == <<"server.lock", "token", "server.port", "server.pid", "server.ready">>
Files == Range(Written) \cup {"launcher.pid", "curl.conf"}

(* wrote is how many of its files the server has written, busy the thread  *)
(* that holds the busy lock, threads, while it accepts, the handles left   *)
(* when it last forgot the finished ones.                                  *)
NoServer == [pc |-> "none", watch |-> 0, stop |-> FALSE, wrote |-> 0,
             threads |-> {}, busy |-> None]

(* child is the computation, status what the client is told: a result, or  *)
(* something else.                                                         *)
Away == [pc |-> "away", srv |-> 0, child |-> "none", status |-> "none"]

ServerInit ==
    /\ vm = 0 /\ vms = 0
    /\ srv = [s \in Servers |-> NoServer]
    /\ conn = [c \in Conns |-> Away]
    /\ files = [f \in Files |-> 0]
    /\ killed = 0 /\ left = {}

Alive(s) == srv[s].pc \notin {"none", "gone", "killed"}
Live == {s \in Servers : Alive(s)}
Threads(s) == {c \in Conns : conn[c].srv = s /\ conn[c].pc \notin {"away", "queued"}}

-----------------------------------------------------------------------------
(* The host.                                                               *)

VmStarts ==
    /\ vm = 0 /\ vms < MaxVm
    /\ vms' = vms + 1 /\ vm' = vms + 1
    /\ UNCHANGED <<srv, conn, files, killed, left>>

VmExits ==
    /\ vm # 0
    /\ vm' = 0
    /\ UNCHANGED <<vms, srv, conn, files, killed, left>>

(* SIGKILL: the connections break, the files stay, and a child goes on by  *)
(* itself until its computation ends.                                      *)
Kill(s) ==
    /\ Alive(s) /\ killed < Kills
    /\ killed' = killed + 1
    /\ srv' = [srv EXCEPT ![s] = [NoServer EXCEPT !.pc = "killed"]]
    /\ conn' = [c \in Conns |-> IF c \in Threads(s)
                                THEN Away ELSE conn[c]]
    /\ left' = IF \E c \in Threads(s) : conn[c].child = "runs"
               THEN left \cup {s} ELSE left
    /\ UNCHANGED <<vm, vms, files>>

(* It ends; nobody reads what it writes.                                   *)
LeftEnds(s) ==
    /\ s \in left
    /\ left' = left \ {s}
    /\ UNCHANGED <<vm, vms, srv, conn, files, killed>>

-----------------------------------------------------------------------------
(* serve.                                                                  *)

Goes(s, pc) == srv' = [srv EXCEPT ![s].pc = pc]

(* stop is set for the threads, which are then joined.                     *)
Stops(s) == srv' = [srv EXCEPT ![s] = [@ EXCEPT !.pc = "join", !.stop = TRUE, !.threads = {}]]

(* The signal handler.  A process that boots may not have installed it     *)
(* yet, and is killed by the signal.                                       *)
Signalled(s) ==
    \/ srv[s].pc = "boot" /\ Goes(s, "gone")
    \/ srv' = [srv EXCEPT ![s].stop = TRUE]

(* A watched process that is not there ends the server before it has files *)
(* to remove, and so does a server.lock of another.                        *)
TakeLock(s) ==
    /\ srv[s].pc = "boot"
    /\ IF srv[s].watch = vm /\ files["server.lock"] = 0
       THEN /\ files' = [files EXCEPT !["server.lock"] = s]
            /\ srv' = [srv EXCEPT ![s] = [@ EXCEPT !.wrote = 1, !.pc = "probe"]]
       ELSE Goes(s, "gone") /\ UNCHANGED files
    /\ UNCHANGED <<vm, vms, conn, killed, left>>

(* The probe is a child too, and a stop ends it.                           *)
Probe(s) ==
    /\ srv[s].pc = "probe"
    /\ Goes(s, "write") \/ Goes(s, "drop")
    /\ UNCHANGED <<vm, vms, conn, files, killed, left>>

(* Each file must be new; one that is not, or a full disk, ends the server. *)
WriteFile(s) ==
    LET f == Written[srv[s].wrote + 1] IN
    /\ srv[s].pc = "write"
    /\ \/ /\ files[f] = 0
          /\ files' = [files EXCEPT ![f] = s]
          /\ srv' = [srv EXCEPT ![s] =
                       [@ EXCEPT !.wrote = srv[s].wrote + 1,
                                 !.pc = IF f = "server.ready" THEN "loop" ELSE "write"]]
       \/ Goes(s, "drop") /\ UNCHANGED files
    /\ UNCHANGED <<vm, vms, conn, killed, left>>

(* Mutant: nobody looks whether QEMU is still there.                       *)
LoopBlind(s) ==
    /\ srv[s].pc = "loop"
    /\ IF srv[s].stop
       THEN srv' = [srv EXCEPT ![s] = [@ EXCEPT !.pc = "join", !.threads = {}]]
       ELSE srv' = [srv EXCEPT ![s] = [@ EXCEPT !.pc = "accept", !.threads = Threads(s)]]
    /\ UNCHANGED <<vm, vms, conn, files, killed, left>>

(* The top of the loop: the three reasons to end, and the finished threads *)
(* are forgotten.                                                          *)
Loop(s) ==
    /\ srv[s].pc = "loop"
    /\ IF srv[s].stop \/ srv[s].watch # vm
       THEN Stops(s)
       ELSE srv' = [srv EXCEPT ![s] = [@ EXCEPT !.pc = "accept", !.threads = Threads(s)]]
    /\ UNCHANGED <<vm, vms, conn, files, killed, left>>

LoopsAgain(s) == srv' = [srv EXCEPT ![s] = [@ EXCEPT !.pc = "loop", !.threads = {}]]

(* Mutant: one thread too many.                                            *)
AcceptOneMore(s, c) ==
    /\ srv[s].pc = "accept"
    /\ IF c = Control THEN conn[c].pc = "queued" ELSE conn[c].pc = "away"
    /\ IF Cardinality(srv[s].threads) > Limit
       THEN conn' = [conn EXCEPT ![c] = Away]
       ELSE conn' = [conn EXCEPT ![c] = [@ EXCEPT !.pc = "parse", !.srv = s]]
    /\ LoopsAgain(s)
    /\ UNCHANGED <<vm, vms, files, killed, left>>

(* A client connects, or the launcher that waits for it.                   *)
Accept(s, c) ==
    /\ srv[s].pc = "accept"
    /\ IF c = Control THEN conn[c].pc = "queued" ELSE conn[c].pc = "away"
    /\ IF Cardinality(srv[s].threads) >= Limit
       THEN conn' = [conn EXCEPT ![c] = Away]
       ELSE conn' = [conn EXCEPT ![c] = [@ EXCEPT !.pc = "parse", !.srv = s]]
    /\ LoopsAgain(s)
    /\ UNCHANGED <<vm, vms, files, killed, left>>

(* Nobody waits, or accept fails, which ends the loop.                     *)
AcceptNone(s) ==
    /\ srv[s].pc = "accept"
    /\ \/ conn[Control].pc # "queued" /\ LoopsAgain(s)
       \/ Stops(s)
    /\ UNCHANGED <<vm, vms, conn, files, killed, left>>

(* Mutant: the server ends without its threads.                            *)
JoinNone(s) ==
    /\ srv[s].pc = "join"
    /\ Goes(s, "drop")
    /\ UNCHANGED <<vm, vms, conn, files, killed, left>>

Join(s) ==
    /\ srv[s].pc = "join"
    /\ Threads(s) = {}
    /\ Goes(s, "drop")
    /\ UNCHANGED <<vm, vms, conn, files, killed, left>>

(* State::drop removes what it wrote, by name, the last file first.        *)
Drop(s) ==
    /\ srv[s].pc = "drop"
    /\ IF srv[s].wrote = 0
       THEN /\ srv' = [srv EXCEPT ![s] = [NoServer EXCEPT !.pc = "gone"]]
            /\ conn' = [conn EXCEPT ![Control].pc = IF @ = "queued" THEN "away" ELSE @]
            /\ UNCHANGED files
       ELSE /\ files' = [files EXCEPT ![Written[srv[s].wrote]] = 0]
            /\ srv' = [srv EXCEPT ![s].wrote = @ - 1]
            /\ UNCHANGED conn
    /\ UNCHANGED <<vm, vms, killed, left>>

-----------------------------------------------------------------------------
(* handle: the thread of a connection.                                     *)

Answers(c, status) ==
    conn' = [conn EXCEPT ![c] = [@ EXCEPT !.pc = "respond", !.child = "none", !.status = status]]

(* The request is refused: malformed, unauthorized, late, or the server    *)
(* stops while it is read; or it is one that only reads.                   *)
ParseOther(c) ==
    /\ conn[c].pc = "parse"
    /\ Answers(c, "other")
    /\ UNCHANGED <<vm, vms, srv, files, killed, left>>

(* The flags are set after the response.                                   *)
ParseShutdown(c) ==
    /\ conn[c].pc = "parse" /\ c = Control
    /\ Answers(c, "shutdown")
    /\ UNCHANGED <<vm, vms, srv, files, killed, left>>

(* Mutant: the busy lock is not asked for.                                 *)
ParseComputeAnyway(c) ==
    /\ conn[c].pc = "parse" /\ c \in Clients
    /\ conn' = [conn EXCEPT ![c] = [@ EXCEPT !.pc = "watch", !.child = "runs"]]
    /\ srv' = [srv EXCEPT ![conn[c].srv].busy = c]
    /\ UNCHANGED <<vm, vms, files, killed, left>>

(* The busy lock is tried, and its owner starts the child.                 *)
ParseCompute(c) ==
    LET s == conn[c].srv IN
    /\ conn[c].pc = "parse" /\ c \in Clients
    /\ IF srv[s].busy # None
       THEN Answers(c, "other") /\ UNCHANGED srv
       ELSE /\ srv' = [srv EXCEPT ![s].busy = c]
            /\ \/ conn' = [conn EXCEPT ![c] = [@ EXCEPT !.pc = "watch", !.child = "runs"]]
               \/ Answers(c, "other")
    /\ UNCHANGED <<vm, vms, files, killed, left>>

(* The computation ends, well or not.                                      *)
ChildEnds(c) ==
    /\ conn[c].pc = "watch" /\ conn[c].child = "runs"
    /\ \E how \in {"ok", "bad"} : conn' = [conn EXCEPT ![c].child = how]
    /\ UNCHANGED <<vm, vms, srv, files, killed, left>>

(* The child has not ended, as of the last look: a stop, too much output   *)
(* or the deadline give it up, and it is killed.                           *)
GiveUp(c) ==
    /\ conn[c].pc = "watch" /\ conn[c].child = "runs"
    /\ Answers(c, "other")
    /\ UNCHANGED <<vm, vms, srv, files, killed, left>>

(* Mutant: the exit status is not looked at.                               *)
ResultAnyway(c) ==
    /\ conn[c].pc = "watch" /\ conn[c].child # "runs"
    /\ Answers(c, "result") \/ Answers(c, "other")
    /\ UNCHANGED <<vm, vms, srv, files, killed, left>>

(* The child has ended, maybe while it was given up; only when its readers *)
(* are joined is it known whether they met their limit.                    *)
Result(c) ==
    /\ conn[c].pc = "watch" /\ conn[c].child # "runs"
    /\ \/ conn[c].child = "ok" /\ Answers(c, "result")
       \/ Answers(c, "other")
    /\ UNCHANGED <<vm, vms, srv, files, killed, left>>

(* The response is written, or the client does not take it in time; then   *)
(* the flags of a shutdown are set, and the busy lock is dropped.          *)
Respond(c) ==
    LET s == conn[c].srv IN
    /\ conn[c].pc = "respond"
    /\ conn' = [conn EXCEPT ![c] = Away]
    /\ srv' = [srv EXCEPT ![s] =
                [@ EXCEPT !.busy = IF srv[s].busy = c THEN None ELSE srv[s].busy,
                          !.stop = srv[s].stop \/ conn[c].status = "shutdown"]]
    /\ UNCHANGED <<vm, vms, files, killed, left>>

-----------------------------------------------------------------------------
ServerStep(s) ==
    TakeLock(s) \/ Probe(s) \/ WriteFile(s) \/ Loop(s)
    \/ (\E c \in Conns : Accept(s, c)) \/ AcceptNone(s) \/ Join(s) \/ Drop(s)

Parse(c) == ParseOther(c) \/ ParseShutdown(c) \/ ParseCompute(c)

ThreadStep(c) ==
    Parse(c) \/ GiveUp(c) \/ Result(c) \/ Respond(c)

ServerNext ==
    \/ \E s \in Servers : ServerStep(s) \/ Kill(s) \/ LeftEnds(s)
    \/ \E c \in Conns : ThreadStep(c) \/ ChildEnds(c)
    \/ VmStarts \/ VmExits

(* A process runs, and so does some thread of it: a request is read,       *)
(* computed and answered within time limits.                               *)
ServerFairness ==
    /\ WF_server(\E s \in Servers : ServerStep(s))
    /\ WF_server(\E c \in Conns : ThreadStep(c))
=============================================================================
