------------------------- MODULE GpuSharing_proofs -------------------------
(***************************************************************************)
(* Theorems about GpuSharing, for any number of clients, servers, QEMU     *)
(* processes, kills and threads: types and limits hold however launcher    *)
(* and servers are killed; and as long as the launcher is not killed       *)
(* between the spawn of a server and the writing of launcher.pid, servers  *)
(* end orderly, enable and disable tell the truth, the launcher never      *)
(* sweeps under a live server, and one computation runs at a time beside   *)
(* those that killed servers have left behind.                             *)
(*                                                                         *)
(* The argument: Base says of each server and connection that it is well   *)
(* formed; Succession says that at most one server lives, that the state   *)
(* directory is its own and that the launcher can find it by a pid, so it  *)
(* neither sweeps nor spawns while one lives.  The busy lock of the one    *)
(* server is then the lock of the GPU.                                     *)
(***************************************************************************)
EXTENDS GpuSharing, FiniteSetTheorems, TLAPS

(* Where a server runs its main loop, has its lock file, and where the     *)
(* thread of a connection runs.                                            *)
Serving == {"loop", "accept", "join"}
Holding == {"probe", "write", "drop"} \cup Serving
Handled == {"parse", "watch", "respond"}

(* A thread is of a server that runs its main loop.                        *)
ThreadsServed ==
    \A c \in Conns :
       IF conn[c].pc \in Handled
       THEN conn[c].srv \in Servers /\ srv[conn[c].srv].pc \in Serving
       ELSE conn[c].srv = 0

(* A computation is a client's and holds the busy lock of its server; only *)
(* the launcher asks for the end of a server.                              *)
Requests ==
    \A c \in Conns :
       /\ conn[c].pc # "watch" => conn[c].child = "none"
       /\ conn[c].pc # "respond" => conn[c].status = "none"
       /\ conn[c].pc = "queued" => c = Control
       /\ conn[c].pc = "watch" =>
             c \in Clients /\ conn[c].child # "none" /\ srv[conn[c].srv].busy = c
       /\ conn[c].pc = "respond" => conn[c].status # "none"
       /\ conn[c].status = "shutdown" => c = Control

(* The busy lock of a server is with one of its threads.                   *)
Busy ==
    \A s \in Servers :
       srv[s].busy # None =>
          /\ srv[s].busy \in Clients
          /\ conn[srv[s].busy].srv = s
          /\ conn[srv[s].busy].pc \in {"watch", "respond"}

(* At the accept, the list of handles contains every thread that runs.     *)
Counted ==
    \A s \in Servers :
       /\ IsFiniteSet(Threads(s)) /\ Cardinality(Threads(s)) <= Limit
       /\ IsFiniteSet(srv[s].threads)
       /\ srv[s].pc = "accept" => Threads(s) \subseteq srv[s].threads

(* The files of a server are those it has written so far.                  *)
Wrote ==
    \A s \in Servers :
       /\ srv[s].pc \in {"none", "boot", "gone", "killed"} => srv[s].wrote = 0
       /\ srv[s].pc \in {"probe", "write"} => srv[s].wrote \in 1 .. 4
       /\ srv[s].pc \in Serving => srv[s].wrote = 5
       /\ \A i \in 1 .. 5 :
             files[Written[i]] = s =>
                srv[s].pc = "killed" \/ (srv[s].pc \in Holding /\ i <= srv[s].wrote)

-----------------------------------------------------------------------------
(* The names of the files, in the order the server writes them.            *)
LEMMA Names ==
    /\ Len(Written) = 5
    /\ Written[1] = "server.lock" /\ Written[2] = "token" /\ Written[3] = "server.port"
    /\ Written[4] = "server.pid" /\ Written[5] = "server.ready"
    /\ Files = {"server.lock", "token", "server.port", "server.pid", "server.ready",
                "launcher.pid", "curl.conf"}
<1>1. Len(Written) = 5 /\ DOMAIN Written = 1 .. 5
  BY DEF Written
<1>2. /\ Written[1] = "server.lock" /\ Written[2] = "token" /\ Written[3] = "server.port"
      /\ Written[4] = "server.pid" /\ Written[5] = "server.ready"
  BY DEF Written
<1>3. Range(Written) = {Written[i] : i \in 1 .. 5}
  BY <1>1 DEF Range
<1>4. Range(Written) = {"server.lock", "token", "server.port", "server.pid", "server.ready"}
  <2>1. \A i \in 1 .. 5 : i = 1 \/ i = 2 \/ i = 3 \/ i = 4 \/ i = 5
    OBVIOUS
  <2>. QED  BY <1>2, <1>3, <2>1
<1>. QED  BY <1>1, <1>2, <1>4 DEF Files

(* The constants are naturals.                                             *)
LEMMA LimitNat == Limit \in Nat
BY GpuAssumption

LEMMA BoundsNat ==
    /\ MaxVm \in Nat /\ MaxServer \in Nat /\ Kills \in Nat
    /\ 0 \in 0 .. MaxVm /\ 0 \in 0 .. MaxServer /\ 0 \in 0 .. Kills
<1>1. MaxVm \in Nat /\ MaxServer \in Nat /\ Kills \in Nat
  BY GpuAssumption
<1>. QED  BY <1>1

(* A server is numbered from 1.                                            *)
LEMMA ServerNumber == \A s \in Servers : s \in 0 .. MaxServer /\ s # 0
<1>1. MaxServer \in Nat
  BY GpuAssumption
<1>. QED  BY <1>1 DEF Servers

(* What a server writes is in its directory, and none of it is the         *)
(* launcher's.                                                             *)
LEMMA WrittenFiles == \A i \in 1 .. 5 : Written[i] \in Files \ {"launcher.pid", "curl.conf"}
<1>1. \A i \in 1 .. 5 : i = 1 \/ i = 2 \/ i = 3 \/ i = 4 \/ i = 5
  OBVIOUS
<1>. QED  BY <1>1, Names

(* A server writes no file twice.                                          *)
LEMMA WrittenDistinct == \A i, j \in 1 .. 5 : Written[i] = Written[j] => i = j
<1>1. \A i \in 1 .. 5 : i = 1 \/ i = 2 \/ i = 3 \/ i = 4 \/ i = 5
  OBVIOUS
<1>. QED  BY <1>1, Names

(* The other servers stay as they are, and so do the other connections.    *)
OnlyServer(s) ==
    srv' \in [Servers -> ServerRecord] /\ \A r \in Servers \ {s} : srv'[r] = srv[r]
OnlyConn(c) ==
    conn' \in [Conns -> ConnRecord] /\ \A d \in Conns \ {c} : conn'[d] = conn[d]

(* What a step makes of a server, and of a connection.                     *)
Becomes(s, pc, stop, wrote, threads, busy) ==
    /\ OnlyServer(s)
    /\ srv'[s].pc = pc /\ srv'[s].watch = srv[s].watch /\ srv'[s].stop = stop
    /\ srv'[s].wrote = wrote /\ srv'[s].threads = threads /\ srv'[s].busy = busy

Turns(c, pc, s, child, status) ==
    /\ OnlyConn(c)
    /\ conn'[c].pc = pc /\ conn'[c].srv = s
    /\ conn'[c].child = child /\ conn'[c].status = status

(* A step to another place in the program.                                 *)
LEMMA GoesEffect ==
    ASSUME ServersTyped, NEW s \in Servers, NEW p, Goes(s, p),
           p \in {"none", "boot", "probe", "write", "loop", "accept", "join", "drop",
                  "gone", "killed"}
    PROVE  Becomes(s, p, srv[s].stop, srv[s].wrote, srv[s].threads, srv[s].busy)
<1>1. srv[s] \in ServerRecord
  BY DEF ServersTyped
<1>. QED  BY <1>1 DEF Goes, Becomes, OnlyServer, ServersTyped, ServerRecord

(* The loop ends.                                                          *)
LEMMA StopsEffect ==
    ASSUME ServersTyped, NEW s \in Servers, Stops(s)
    PROVE  Becomes(s, "join", TRUE, srv[s].wrote, {}, srv[s].busy)
<1>1. srv[s] \in ServerRecord
  BY DEF ServersTyped
<1>. QED  BY <1>1 DEF Stops, Becomes, OnlyServer, ServersTyped, ServerRecord

(* A file more is written.                                                 *)
LEMMA WritesEffect ==
    ASSUME ServersTyped, NEW s \in Servers, NEW n \in 0 .. Len(Written),
           NEW p \in {"probe", "loop", "write"},
           srv' = [srv EXCEPT ![s] = [@ EXCEPT !.wrote = n, !.pc = p]]
    PROVE  Becomes(s, p, srv[s].stop, n, srv[s].threads, srv[s].busy)
<1>1. srv[s] \in ServerRecord
  BY DEF ServersTyped
<1>. QED  BY <1>1 DEF Becomes, OnlyServer, ServersTyped, ServerRecord

(* The server is about to accept, having counted its threads.              *)
LEMMA AcceptsEffect ==
    ASSUME ServersTyped, NEW s \in Servers,
           srv' = [srv EXCEPT ![s] = [@ EXCEPT !.pc = "accept", !.threads = Threads(s)]]
    PROVE  Becomes(s, "accept", srv[s].stop, srv[s].wrote, Threads(s), srv[s].busy)
<1>1. srv[s] \in ServerRecord
  BY DEF ServersTyped
<1>2. Threads(s) \in SUBSET Conns
  BY DEF Threads
<1>. QED  BY <1>1, <1>2 DEF Becomes, OnlyServer, ServersTyped, ServerRecord

(* Back to the top of the loop.                                            *)
LEMMA LoopsAgainEffect ==
    ASSUME ServersTyped, NEW s \in Servers, LoopsAgain(s)
    PROVE  Becomes(s, "loop", srv[s].stop, srv[s].wrote, {}, srv[s].busy)
<1>1. srv[s] \in ServerRecord
  BY DEF ServersTyped
<1>. QED  BY <1>1 DEF LoopsAgain, Becomes, OnlyServer, ServersTyped, ServerRecord

(* A process that ends holds nothing any more.                             *)
LEMMA EndsEffect ==
    ASSUME ServersTyped, NEW s \in Servers, NEW p \in {"gone", "killed"},
           srv' = [srv EXCEPT ![s] = [NoServer EXCEPT !.pc = p]]
    PROVE  /\ OnlyServer(s)
           /\ srv'[s] = [NoServer EXCEPT !.pc = p]
<1>1. srv[s] \in ServerRecord
  BY DEF ServersTyped
<1>2. [NoServer EXCEPT !.pc = p] \in ServerRecord
  <2>1. /\ 0 \in 0 .. MaxVm /\ 0 \in 0 .. Len(Written)
    BY Names, GpuAssumption, BoundsNat
  <2>. QED  BY <2>1 DEF NoServer, ServerRecord
<1>. QED  BY <1>1, <1>2 DEF OnlyServer, ServersTyped

(* A thread has its answer.                                                *)
LEMMA AnswersEffect ==
    ASSUME ConnsTyped, NEW c \in Conns, NEW x \in {"none", "result", "other", "shutdown"},
           Answers(c, x)
    PROVE  Turns(c, "respond", conn[c].srv, "none", x)
<1>1. conn[c] \in ConnRecord
  BY DEF ConnsTyped
<1>. QED  BY <1>1 DEF Answers, Turns, OnlyConn, ConnsTyped, ConnRecord

(* A connection is closed.                                                 *)
LEMMA AwayEffect ==
    ASSUME ConnsTyped, NEW c \in Conns, conn' = [conn EXCEPT ![c] = Away]
    PROVE  Turns(c, "away", 0, "none", "none")
<1>1. Away \in ConnRecord
  BY BoundsNat DEF Away, ConnRecord
<1>. QED  BY <1>1 DEF Turns, OnlyConn, ConnsTyped, Away

(* What each operation makes of the variables, field by field.             *)
LEMMA TakeLockEffect ==
    ASSUME ServersTyped, NEW s \in Servers, TakeLock(s)
    PROVE  /\ srv[s].pc = "boot" /\ UNCHANGED <<vm, vms, conn, killed>>
           /\ \/ /\ srv[s].watch = vm /\ files["server.lock"] = 0
                 /\ files' = [files EXCEPT !["server.lock"] = s]
                 /\ Becomes(s, "probe", srv[s].stop, 1, srv[s].threads, srv[s].busy)
              \/ /\ UNCHANGED files
                 /\ Becomes(s, "gone", srv[s].stop, srv[s].wrote, srv[s].threads, srv[s].busy)
<1>1. srv[s] \in ServerRecord
  BY DEF ServersTyped
<1>2. CASE srv[s].watch = vm /\ files["server.lock"] = 0
  <2>1. srv' = [srv EXCEPT ![s] = [@ EXCEPT !.wrote = 1, !.pc = "probe"]]
    BY <1>2 DEF TakeLock
  <2>2. Becomes(s, "probe", srv[s].stop, 1, srv[s].threads, srv[s].busy)
    <3>1. 1 \in 0 .. Len(Written)
      BY Names
    <3>. QED  BY <2>1, <3>1, WritesEffect
  <2>. QED  BY <1>2, <2>2 DEF TakeLock
<1>3. CASE ~(srv[s].watch = vm /\ files["server.lock"] = 0)
  <2>1. Goes(s, "gone") /\ UNCHANGED files
    BY <1>3 DEF TakeLock
  <2>. QED  BY <2>1, GoesEffect DEF TakeLock
<1>. QED  BY <1>2, <1>3

LEMMA ProbeEffect ==
    ASSUME ServersTyped, NEW s \in Servers, Probe(s)
    PROVE  /\ srv[s].pc = "probe" /\ UNCHANGED <<vm, vms, conn, files, killed>>
           /\ \E p \in {"write", "drop"} :
                 Becomes(s, p, srv[s].stop, srv[s].wrote, srv[s].threads, srv[s].busy)
<1>1. \/ Becomes(s, "write", srv[s].stop, srv[s].wrote, srv[s].threads, srv[s].busy)
      \/ Becomes(s, "drop", srv[s].stop, srv[s].wrote, srv[s].threads, srv[s].busy)
  BY GoesEffect DEF Probe
<1>. QED  BY <1>1 DEF Probe

LEMMA WriteFileEffect ==
    ASSUME ServersTyped, NEW s \in Servers, WriteFile(s), srv[s].wrote \in 1 .. 4
    PROVE  /\ srv[s].pc = "write" /\ UNCHANGED <<vm, vms, conn, killed>>
           /\ \/ /\ files[Written[srv[s].wrote + 1]] = 0
                 /\ files' = [files EXCEPT ![Written[srv[s].wrote + 1]] = s]
                 /\ Becomes(s, IF srv[s].wrote = 4 THEN "loop" ELSE "write", srv[s].stop,
                            srv[s].wrote + 1, srv[s].threads, srv[s].busy)
              \/ /\ UNCHANGED files
                 /\ Becomes(s, "drop", srv[s].stop, srv[s].wrote, srv[s].threads,
                            srv[s].busy)
<1>. DEFINE f == Written[srv[s].wrote + 1]
            p == IF f = "server.ready" THEN "loop" ELSE "write"
            n == srv[s].wrote + 1
<1>1. srv[s] \in ServerRecord
  BY DEF ServersTyped
<1>2. srv[s].pc = "write" /\ UNCHANGED <<vm, vms, conn, killed>>
  BY DEF WriteFile
<1>3. CASE /\ files[f] = 0
           /\ files' = [files EXCEPT ![f] = s]
           /\ srv' = [srv EXCEPT ![s] = [@ EXCEPT !.wrote = n, !.pc = p]]
  <2>1. p = IF srv[s].wrote = 4 THEN "loop" ELSE "write"
    BY Names, WrittenDistinct
  <2>2. n \in 0 .. Len(Written)
    BY Names
  <2>3. p \in {"loop", "write"}
    OBVIOUS
  <2>. HIDE DEF f, p, n
  <2>4. Becomes(s, p, srv[s].stop, n, srv[s].threads, srv[s].busy)
    BY <1>3, <2>2, <2>3, WritesEffect
  <2>. QED  BY <1>2, <1>3, <2>1, <2>4 DEF f, n
<1>4. CASE Goes(s, "drop") /\ UNCHANGED files
  BY <1>2, <1>4, GoesEffect
<1>. QED  BY <1>3, <1>4 DEF WriteFile

LEMMA LoopEffect ==
    ASSUME ServersTyped, NEW s \in Servers, Loop(s)
    PROVE  /\ srv[s].pc = "loop" /\ UNCHANGED <<vm, vms, conn, files, killed>>
           /\ \/ Becomes(s, "join", TRUE, srv[s].wrote, {}, srv[s].busy)
              \/ Becomes(s, "accept", srv[s].stop, srv[s].wrote, Threads(s), srv[s].busy)
<1>1. CASE srv[s].stop \/ srv[s].watch # vm
  BY <1>1, StopsEffect DEF Loop
<1>2. CASE ~(srv[s].stop \/ srv[s].watch # vm)
  BY <1>2, AcceptsEffect DEF Loop
<1>. QED  BY <1>1, <1>2

LEMMA AcceptEffect ==
    ASSUME ServersTyped, ConnsTyped, NEW s \in Servers, NEW c \in Conns, Accept(s, c)
    PROVE  /\ srv[s].pc = "accept" /\ UNCHANGED <<vm, vms, files, killed>>
           /\ conn[c].pc \in {"away", "queued"}
           /\ Becomes(s, "loop", srv[s].stop, srv[s].wrote, {}, srv[s].busy)
           /\ \/ Turns(c, "away", 0, "none", "none")
              \/ /\ ~(Cardinality(srv[s].threads) >= Limit)
                 /\ Turns(c, "parse", s, conn[c].child, conn[c].status)
<1>1. conn[c] \in ConnRecord
  BY DEF ConnsTyped
<1>2. Becomes(s, "loop", srv[s].stop, srv[s].wrote, {}, srv[s].busy)
  BY LoopsAgainEffect DEF Accept
<1>3. CASE Cardinality(srv[s].threads) >= Limit
  BY <1>2, <1>3, AwayEffect DEF Accept
<1>4. CASE ~(Cardinality(srv[s].threads) >= Limit)
  <2>1. conn' = [conn EXCEPT ![c] = [@ EXCEPT !.pc = "parse", !.srv = s]]
    BY <1>4 DEF Accept
  <2>2. Turns(c, "parse", s, conn[c].child, conn[c].status)
    BY <1>1, <2>1, ServerNumber DEF Turns, OnlyConn, ConnsTyped, ConnRecord
  <2>. QED  BY <1>2, <1>4, <2>2 DEF Accept
<1>. QED  BY <1>3, <1>4

LEMMA AcceptNoneEffect ==
    ASSUME ServersTyped, NEW s \in Servers, AcceptNone(s)
    PROVE  /\ srv[s].pc = "accept" /\ UNCHANGED <<vm, vms, conn, files, killed>>
           /\ \/ Becomes(s, "loop", srv[s].stop, srv[s].wrote, {}, srv[s].busy)
              \/ Becomes(s, "join", TRUE, srv[s].wrote, {}, srv[s].busy)
BY LoopsAgainEffect, StopsEffect DEF AcceptNone

LEMMA JoinEffect ==
    ASSUME ServersTyped, NEW s \in Servers, Join(s)
    PROVE  /\ srv[s].pc = "join" /\ UNCHANGED <<vm, vms, conn, files, killed>>
           /\ Threads(s) = {}
           /\ Becomes(s, "drop", srv[s].stop, srv[s].wrote, srv[s].threads, srv[s].busy)
BY GoesEffect DEF Join

LEMMA DropEffect ==
    ASSUME ServersTyped, ConnsTyped, NEW s \in Servers, Drop(s)
    PROVE  /\ srv[s].pc = "drop" /\ UNCHANGED <<vm, vms, killed>>
           /\ \/ /\ srv[s].wrote = 0
                 /\ OnlyServer(s) /\ srv'[s] = [NoServer EXCEPT !.pc = "gone"]
                 /\ UNCHANGED files
                 /\ \/ UNCHANGED conn
                    \/ /\ conn[Control].pc = "queued"
                       /\ Turns(Control, "away", conn[Control].srv, conn[Control].child,
                                conn[Control].status)
              \/ /\ srv[s].wrote \in 1 .. 5 /\ UNCHANGED conn
                 /\ files' = [files EXCEPT ![Written[srv[s].wrote]] = 0]
                 /\ Becomes(s, "drop", srv[s].stop, srv[s].wrote - 1, srv[s].threads,
                            srv[s].busy)
<1>1. srv[s] \in ServerRecord /\ conn[Control] \in ConnRecord /\ Control \in Conns
  BY DEF ServersTyped, ConnsTyped, Conns
<1>2. CASE srv[s].wrote = 0
  <2>1. OnlyServer(s) /\ srv'[s] = [NoServer EXCEPT !.pc = "gone"]
    BY <1>2, EndsEffect DEF Drop
  <2>2. CASE conn[Control].pc = "queued"
    <3>1. conn' = [conn EXCEPT ![Control].pc = "away"]
      BY <1>2, <2>2 DEF Drop
    <3>2. Turns(Control, "away", conn[Control].srv, conn[Control].child,
                conn[Control].status)
      BY <1>1, <3>1 DEF Turns, OnlyConn, ConnsTyped, ConnRecord
    <3>. QED  BY <1>2, <2>1, <2>2, <3>2 DEF Drop
  <2>3. CASE conn[Control].pc # "queued"
    <3>1. conn' = [conn EXCEPT ![Control].pc = conn[Control].pc]
      BY <1>2, <2>3 DEF Drop
    <3>2. conn' = conn
      BY <1>1, <3>1 DEF ConnsTyped, ConnRecord
    <3>. QED  BY <1>2, <2>1, <3>2 DEF Drop
  <2>. QED  BY <2>2, <2>3
<1>3. CASE srv[s].wrote # 0
  <2>1. srv[s].wrote \in 1 .. 5 /\ srv[s].wrote - 1 \in 0 .. Len(Written)
    BY <1>1, <1>3, Names DEF ServerRecord
  <2>2. Becomes(s, "drop", srv[s].stop, srv[s].wrote - 1, srv[s].threads, srv[s].busy)
    <3>. DEFINE n == srv[s].wrote - 1
    <3>1. srv' = [srv EXCEPT ![s].wrote = n] /\ n \in 0 .. Len(Written)
      BY <1>3, <2>1 DEF Drop
    <3>. HIDE DEF n
    <3>2. Becomes(s, srv[s].pc, srv[s].stop, n, srv[s].threads, srv[s].busy)
      BY <1>1, <3>1 DEF Becomes, OnlyServer, ServersTyped, ServerRecord
    <3>. QED  BY <3>2 DEF Drop, n
  <2>. QED  BY <1>3, <2>1, <2>2 DEF Drop
<1>. QED  BY <1>2, <1>3

LEMMA ParseComputeEffect ==
    ASSUME ServersTyped, ConnsTyped, NEW c \in Conns, NEW s \in Servers, conn[c].srv = s,
           ParseCompute(c)
    PROVE  /\ conn[c].pc = "parse" /\ c \in Clients /\ UNCHANGED <<vm, vms, files, killed>>
           /\ \/ srv[s].busy # None /\ UNCHANGED srv /\ Turns(c, "respond", s, "none", "other")
              \/ /\ srv[s].busy = None
                 /\ Becomes(s, srv[s].pc, srv[s].stop, srv[s].wrote, srv[s].threads, c)
                 /\ \/ Turns(c, "watch", s, "runs", conn[c].status)
                    \/ Turns(c, "respond", s, "none", "other")
<1>1. conn[c] \in ConnRecord /\ srv[s] \in ServerRecord
  BY DEF ServersTyped, ConnsTyped
<1>2. conn[c].pc = "parse" /\ c \in Clients /\ UNCHANGED <<vm, vms, files, killed>>
  BY DEF ParseCompute
<1>3. CASE srv[s].busy # None
  BY <1>2, <1>3, AnswersEffect DEF ParseCompute
<1>4. CASE srv[s].busy = None
  <2>1. Becomes(s, srv[s].pc, srv[s].stop, srv[s].wrote, srv[s].threads, c)
    <3>1. srv' = [srv EXCEPT ![s].busy = c]
      BY <1>4 DEF ParseCompute
    <3>. QED  BY <1>1, <3>1 DEF Becomes, OnlyServer, ServersTyped, ServerRecord
  <2>2. CASE conn' = [conn EXCEPT ![c] = [@ EXCEPT !.pc = "watch", !.child = "runs"]]
    <3>1. Turns(c, "watch", s, "runs", conn[c].status)
      BY <1>1, <2>2 DEF Turns, OnlyConn, ConnsTyped, ConnRecord
    <3>. QED  BY <1>2, <1>4, <2>1, <3>1
  <2>3. CASE Answers(c, "other")
    BY <1>2, <1>4, <2>1, <2>3, AnswersEffect
  <2>. QED  BY <1>4, <2>2, <2>3 DEF ParseCompute
<1>. QED  BY <1>3, <1>4

LEMMA ChildEndsEffect ==
    ASSUME ConnsTyped, NEW c \in Conns, ChildEnds(c)
    PROVE  /\ conn[c].pc = "watch" /\ conn[c].child = "runs"
           /\ UNCHANGED <<vm, vms, srv, files, killed>>
           /\ \E how \in {"ok", "bad"} :
                 Turns(c, "watch", conn[c].srv, how, conn[c].status)
<1>1. conn[c] \in ConnRecord
  BY DEF ConnsTyped
<1>2. PICK how \in {"ok", "bad"} : conn' = [conn EXCEPT ![c].child = how]
  BY DEF ChildEnds
<1>3. Turns(c, "watch", conn[c].srv, how, conn[c].status)
  BY <1>1, <1>2 DEF ChildEnds, Turns, OnlyConn, ConnsTyped, ConnRecord
<1>. QED  BY <1>3 DEF ChildEnds

LEMMA RespondEffect ==
    ASSUME ServersTyped, ConnsTyped, NEW c \in Conns, NEW s \in Servers, conn[c].srv = s,
           Respond(c)
    PROVE  /\ conn[c].pc = "respond" /\ UNCHANGED <<vm, vms, files, killed>>
           /\ Turns(c, "away", 0, "none", "none")
           /\ Becomes(s, srv[s].pc, srv[s].stop \/ conn[c].status = "shutdown", srv[s].wrote,
                      srv[s].threads, IF srv[s].busy = c THEN None ELSE srv[s].busy)
<1>1. srv[s] \in ServerRecord
  BY DEF ServersTyped
<1>2. Turns(c, "away", 0, "none", "none")
  BY AwayEffect DEF Respond
<1>3. (srv[s].stop \/ conn[c].status = "shutdown") \in BOOLEAN
  BY <1>1 DEF ServerRecord
<1>4. Becomes(s, srv[s].pc, srv[s].stop \/ conn[c].status = "shutdown", srv[s].wrote,
              srv[s].threads, IF srv[s].busy = c THEN None ELSE srv[s].busy)
  <2>. DEFINE b == IF srv[s].busy = c THEN None ELSE srv[s].busy
              t == srv[s].stop \/ conn[c].status = "shutdown"
  <2>1. b \in Conns \cup {None}
    BY <1>1 DEF ServerRecord
  <2>2. t \in BOOLEAN
    BY <1>3
  <2>3. srv' = [srv EXCEPT ![s] = [srv[s] EXCEPT !.busy = b, !.stop = t]]
    BY <1>1 DEF Respond
  <2>. HIDE DEF b, t
  <2>4. Becomes(s, srv[s].pc, t, srv[s].wrote, srv[s].threads, b)
    BY <1>1, <2>1, <2>2, <2>3 DEF Becomes, OnlyServer, ServersTyped,
       ServerRecord
  <2>. QED  BY <2>4 DEF b, t
<1>. QED  BY <1>2, <1>4 DEF Respond

LEMMA SignalledEffect ==
    ASSUME ServersTyped, NEW s \in Servers, Signalled(s)
    PROVE  \/ /\ srv[s].pc = "boot"
              /\ Becomes(s, "gone", srv[s].stop, srv[s].wrote, srv[s].threads, srv[s].busy)
           \/ Becomes(s, srv[s].pc, TRUE, srv[s].wrote, srv[s].threads, srv[s].busy)
<1>1. srv[s] \in ServerRecord
  BY DEF ServersTyped
<1>2. CASE srv[s].pc = "boot" /\ Goes(s, "gone")
  BY <1>2, GoesEffect
<1>3. CASE srv' = [srv EXCEPT ![s].stop = TRUE]
  <2>1. Becomes(s, srv[s].pc, TRUE, srv[s].wrote, srv[s].threads, srv[s].busy)
    BY <1>1, <1>3 DEF Becomes, OnlyServer, ServersTyped, ServerRecord
  <2>. QED  BY <2>1
<1>. QED  BY <1>2, <1>3 DEF Signalled

LEMMA LaunchEffect ==
    ASSUME ServersTyped, LauncherTyped, Launch
    PROVE  \E s \in Servers :
              /\ srv[s].pc = "none" /\ UNCHANGED <<vm, vms, conn, files, killed, guest, tunnel>>
              /\ OnlyServer(s)
              /\ srv'[s].pc = "boot" /\ srv'[s].wrote = 0 /\ srv'[s].threads = {}
              /\ srv'[s].busy = None
              /\ lau.pc = "spawn" /\ lau' = [lau EXCEPT !.pc = "note", !.pid = s]
<1>1. PICK s \in Servers :
         /\ srv[s].pc = "none"
         /\ srv' = [srv EXCEPT ![s] = [NoServer EXCEPT !.pc = "boot", !.watch = vms]]
         /\ lau' = [lau EXCEPT !.pc = "note", !.pid = s]
  BY DEF Launch
<1>2. [NoServer EXCEPT !.pc = "boot", !.watch = vms] \in ServerRecord
  <2>1. 0 \in 0 .. Len(Written) /\ vms \in 0 .. MaxVm
    BY Names DEF ServersTyped
  <2>. QED  BY <2>1 DEF NoServer, ServerRecord
<1>. DEFINE v == [NoServer EXCEPT !.pc = "boot", !.watch = vms]
<1>3. OnlyServer(s) /\ srv'[s] = v
  <2>. HIDE DEF v
  <2>. QED  BY <1>1, <1>2 DEF OnlyServer, ServersTyped, v
<1>4. v.pc = "boot" /\ v.wrote = 0 /\ v.threads = {} /\ v.busy = None
  BY DEF NoServer
<1>. HIDE DEF v
<1>. QED  BY <1>1, <1>3, <1>4 DEF Launch

LEMMA StopBeginEffect ==
    ASSUME ConnsTyped, StopBegin
    PROVE  /\ UNCHANGED <<vm, vms, srv, files, killed, guest, tunnel>>
           /\ \/ UNCHANGED conn
              \/ /\ conn[Control].pc = "away"
                 /\ Turns(Control, "queued", conn[Control].srv, conn[Control].child,
                          conn[Control].status)
<1>1. conn[Control] \in ConnRecord /\ Control \in Conns
  BY DEF ConnsTyped, Conns
<1>2. CASE UNCHANGED conn
  BY <1>2 DEF StopBegin
<1>3. CASE conn[Control].pc = "away" /\ conn' = [conn EXCEPT ![Control].pc = "queued"]
  <2>1. Turns(Control, "queued", conn[Control].srv, conn[Control].child, conn[Control].status)
    BY <1>1, <1>3 DEF Turns, OnlyConn, ConnsTyped, ConnRecord
  <2>. QED  BY <1>3, <2>1 DEF StopBegin
<1>. QED  BY <1>2, <1>3 DEF StopBegin

(* A server the launcher asks to end is known.                             *)
Asked == lau.pc \in {"ask", "term"} => lau.pid # 0

(* Servers, connections and files, however everything is killed.           *)
Service ==
    /\ ServersTyped /\ ConnsTyped /\ FilesTyped
    /\ ThreadsServed /\ Requests /\ Busy /\ Counted /\ Wrote

Base == Service /\ LauncherTyped /\ Asked /\ LeftTyped

(* Threads end, and no server counts them anew.                            *)
Shrinks ==
    \A r \in Servers :
       /\ Threads(r)' \subseteq Threads(r)
       /\ srv'[r].threads \in {srv[r].threads, {}}
       /\ srv'[r].pc = "accept" =>
             srv[r].pc = "accept" /\ srv'[r].threads = srv[r].threads

(* Threads that end, or servers that do not accept, leave the limit kept.  *)
LEMMA CountedShrinks == ASSUME Counted, Shrinks PROVE Counted'
<1>. USE DEF Shrinks
<1>. SUFFICES ASSUME NEW r \in Servers
              PROVE  /\ IsFiniteSet(Threads(r)') /\ Cardinality(Threads(r)') <= Limit
                     /\ IsFiniteSet(srv'[r].threads)
                     /\ srv'[r].pc = "accept" => Threads(r)' \subseteq srv'[r].threads
  BY DEF Counted
<1>1. IsFiniteSet(Threads(r)) /\ Cardinality(Threads(r)) <= Limit
  BY DEF Counted
<1>2. /\ IsFiniteSet(Threads(r)') /\ Cardinality(Threads(r)') <= Cardinality(Threads(r))
  BY <1>1, FS_Subset
<1>3. Cardinality(Threads(r)) \in Nat /\ Cardinality(Threads(r)') \in Nat
  BY <1>1, <1>2, FS_CardinalityType
<1>4. Cardinality(Threads(r)') <= Limit
  BY <1>1, <1>2, <1>3, LimitNat
<1>5. IsFiniteSet(srv'[r].threads)
  BY FS_EmptySet DEF Counted
<1>6. srv'[r].pc = "accept" => Threads(r)' \subseteq srv'[r].threads
  BY DEF Counted
<1>. QED  BY <1>2, <1>4, <1>5, <1>6

(* A pid that is not 0 is that of a server.                                *)
LEMMA AliveNumber == ASSUME NEW n \in 0 .. MaxServer, n # 0 PROVE n \in Servers
<1>1. MaxServer \in Nat
  BY GpuAssumption
<1>. QED  BY <1>1 DEF Servers

(* Before anything runs.                                                   *)
LEMMA InitBase == ASSUME Init PROVE Base
<1>. USE GpuAssumption DEF Init, ServerInit
<1>1. ServersTyped /\ ConnsTyped /\ FilesTyped /\ LauncherTyped /\ Asked /\ LeftTyped
  BY DEF Asked, LeftTyped, ServersTyped, ServerRecord, ConnsTyped, ConnRecord,
     FilesTyped, LauncherTyped, Idle, Away, NoServer
<1>2. ThreadsServed /\ Requests /\ Busy
  BY DEF ThreadsServed, Requests, Busy, Away, NoServer, Handled
<1>3. Counted
  <2>1. \A s \in Servers : Threads(s) = {} /\ srv[s] = NoServer
    BY DEF Threads, Away
  <2>2. IsFiniteSet({}) /\ Cardinality({}) <= Limit
    BY FS_EmptySet, LimitNat
  <2>. QED  BY <2>1, <2>2 DEF Counted, NoServer
<1>4. Wrote
  BY WrittenFiles DEF Wrote, NoServer, Serving, Holding, Servers
<1>. QED  BY <1>1, <1>2, <1>3, <1>4 DEF Base, Service

(* Each operation keeps the service well formed: the host,                 *)
LEMMA VmStartsBase ==
    ASSUME Base, VmStarts
    PROVE  Service'
<1>. USE DEF Base, Service
<1>1. (ServersTyped /\ ConnsTyped /\ FilesTyped)'
  BY BoundsNat DEF VmStarts, ServersTyped, ConnsTyped, FilesTyped
<1>2. (ThreadsServed /\ Requests /\ Busy)'
  BY DEF VmStarts, ThreadsServed, Requests, Busy
<1>3. Counted'
  <2>1. Shrinks
    BY ServerNumber DEF VmStarts, Threads, Shrinks
  <2>. QED  BY <2>1, CountedShrinks
<1>4. Wrote'
  BY DEF VmStarts, Wrote
<1>. QED  BY <1>1, <1>2, <1>3, <1>4

LEMMA VmExitsBase ==
    ASSUME Base, VmExits
    PROVE  Service'
<1>. USE DEF Base, Service
<1>1. (ServersTyped /\ ConnsTyped /\ FilesTyped)'
  BY DEF VmExits, ServersTyped, ConnsTyped, FilesTyped
<1>2. (ThreadsServed /\ Requests /\ Busy)'
  BY DEF VmExits, ThreadsServed, Requests, Busy
<1>3. Counted'
  <2>1. Shrinks
    BY ServerNumber DEF VmExits, Threads, Shrinks
  <2>. QED  BY <2>1, CountedShrinks
<1>4. Wrote'
  BY DEF VmExits, Wrote
<1>. QED  BY <1>1, <1>2, <1>3, <1>4

LEMMA KillBase ==
    ASSUME Base, NEW s \in Servers, Kill(s)
    PROVE  Service'
<1>. USE DEF Base, Service
<1>0. /\ OnlyServer(s) /\ srv'[s] = [NoServer EXCEPT !.pc = "killed"]
      /\ UNCHANGED <<vm, vms, files>> /\ killed' \in 0 .. Kills
  <2>1. OnlyServer(s) /\ srv'[s] = [NoServer EXCEPT !.pc = "killed"]
    BY EndsEffect DEF Kill
  <2>2. killed' \in 0 .. Kills
    BY BoundsNat DEF Kill, ServersTyped
  <2>. QED  BY <2>1, <2>2 DEF Kill
<1>a. /\ conn' \in [Conns -> ConnRecord]
      /\ \A c \in Conns : conn'[c] = IF c \in Threads(s) THEN Away ELSE conn[c]
  <2>1. Away \in ConnRecord
    BY BoundsNat DEF Away, ConnRecord
  <2>. QED  BY <2>1 DEF Kill, ConnsTyped
<1>1. (ServersTyped /\ ConnsTyped /\ FilesTyped)'
  BY <1>0, <1>a DEF OnlyServer, ServersTyped, ConnsTyped, FilesTyped
<1>2. (ThreadsServed /\ Requests /\ Busy)'
  BY <1>0, <1>a DEF OnlyServer, NoServer, Away, Threads, ThreadsServed,
     Requests, Busy, Handled, Conns
<1>3. Counted'
  <2>1. Shrinks
    BY <1>0, <1>a DEF OnlyServer, NoServer, Threads, Away, Shrinks
  <2>. QED  BY <2>1, CountedShrinks
<1>4. Wrote'
  BY <1>0 DEF OnlyServer, NoServer, Wrote, Serving
<1>. QED  BY <1>1, <1>2, <1>3, <1>4

(* the server until it is ready,                                           *)
LEMMA TakeLockBase ==
    ASSUME Base, NEW s \in Servers, TakeLock(s)
    PROVE  Service'
<1>. USE DEF Base, Service
<1>1. (ServersTyped /\ ConnsTyped /\ FilesTyped)'
  BY TakeLockEffect, ServerNumber DEF Becomes, OnlyServer, ServersTyped,
     ConnsTyped, FilesTyped
<1>2. (ThreadsServed /\ Requests /\ Busy)'
  BY TakeLockEffect DEF Becomes, OnlyServer, ThreadsServed, Requests, Busy,
     Handled, Serving
<1>3. Counted'
  <2>1. Shrinks
    BY TakeLockEffect DEF Becomes, OnlyServer, Threads, Shrinks
  <2>. QED  BY <2>1, CountedShrinks
<1>4. Wrote'
  BY TakeLockEffect, Names DEF Becomes, OnlyServer, Wrote, Serving, Holding,
     FilesTyped
<1>. QED  BY <1>1, <1>2, <1>3, <1>4

LEMMA ProbeBase ==
    ASSUME Base, NEW s \in Servers, Probe(s)
    PROVE  Service'
<1>. USE DEF Base, Service
<1>1. (ServersTyped /\ ConnsTyped /\ FilesTyped)'
  BY ProbeEffect DEF Becomes, OnlyServer, ServersTyped, ConnsTyped, FilesTyped
<1>2. (ThreadsServed /\ Requests /\ Busy)'
  BY ProbeEffect DEF Becomes, OnlyServer, ThreadsServed, Requests, Busy,
     Handled, Serving
<1>3. Counted'
  <2>1. Shrinks
    BY ProbeEffect DEF Becomes, OnlyServer, Threads, Shrinks
  <2>. QED  BY <2>1, CountedShrinks
<1>4. Wrote'
  BY ProbeEffect DEF Becomes, OnlyServer, Wrote, Serving, Holding
<1>. QED  BY <1>1, <1>2, <1>3, <1>4

LEMMA WriteFileBase ==
    ASSUME Base, NEW s \in Servers, WriteFile(s)
    PROVE  Service'
<1>. USE DEF Base, Service
<1>a. srv[s].wrote \in 1 .. 4
  BY DEF Wrote, WriteFile
<1>0. /\ srv[s].pc = "write" /\ UNCHANGED <<vm, vms, conn, killed>>
      /\ \/ /\ files[Written[srv[s].wrote + 1]] = 0
            /\ files' = [files EXCEPT ![Written[srv[s].wrote + 1]] = s]
            /\ Becomes(s, IF srv[s].wrote = 4 THEN "loop" ELSE "write", srv[s].stop,
                       srv[s].wrote + 1, srv[s].threads, srv[s].busy)
         \/ /\ UNCHANGED files
            /\ Becomes(s, "drop", srv[s].stop, srv[s].wrote, srv[s].threads,
                       srv[s].busy)
  BY <1>a, WriteFileEffect
<1>1. (ServersTyped /\ ConnsTyped /\ FilesTyped)'
  BY <1>0, ServerNumber DEF Becomes, OnlyServer, ServersTyped, ConnsTyped,
     FilesTyped
<1>2. (ThreadsServed /\ Requests /\ Busy)'
  BY <1>0 DEF Becomes, OnlyServer, ThreadsServed, Requests, Busy, Handled,
     Serving
<1>3. Counted'
  <2>1. Shrinks
    BY <1>0 DEF Becomes, OnlyServer, Threads, Shrinks
  <2>. QED  BY <2>1, CountedShrinks
<1>4. Wrote'
  BY <1>0, Names DEF Becomes, OnlyServer, Wrote, Serving, Holding, FilesTyped
<1>. QED  BY <1>1, <1>2, <1>3, <1>4

(* the loop, where the limit is kept because the threads counted before    *)
(* accept can only have become fewer,                                      *)
LEMMA LoopBase ==
    ASSUME Base, NEW s \in Servers, Loop(s)
    PROVE  Service'
<1>. USE DEF Base, Service
<1>0. /\ srv[s].pc = "loop" /\ UNCHANGED <<vm, vms, conn, files, killed>>
      /\ \/ Becomes(s, "join", TRUE, srv[s].wrote, {}, srv[s].busy)
         \/ Becomes(s, "accept", srv[s].stop, srv[s].wrote, Threads(s), srv[s].busy)
  BY LoopEffect
<1>1. (ServersTyped /\ ConnsTyped /\ FilesTyped)'
  BY <1>0 DEF Becomes, OnlyServer, ServersTyped, ConnsTyped, FilesTyped
<1>2. (ThreadsServed /\ Requests /\ Busy)'
  BY <1>0 DEF Becomes, OnlyServer, ThreadsServed, Requests, Busy, Handled,
     Serving
<1>3. Counted'
  <2>. SUFFICES ASSUME NEW r \in Servers
                PROVE  /\ IsFiniteSet(Threads(r)') /\ Cardinality(Threads(r)') <= Limit
                       /\ IsFiniteSet(srv'[r].threads)
                       /\ srv'[r].pc = "accept" => Threads(r)' \subseteq srv'[r].threads
    BY DEF Counted
  <2>1. Threads(r)' = Threads(r)
    BY <1>0 DEF Threads
  <2>2. /\ IsFiniteSet(Threads(r)) /\ Cardinality(Threads(r)) <= Limit
        /\ IsFiniteSet(srv[r].threads)
    BY DEF Counted
  <2>3. CASE r = s
    BY <1>0, <2>1, <2>2, <2>3, FS_EmptySet DEF Becomes
  <2>4. CASE r # s
    <3>1. srv'[r] = srv[r]
      BY <1>0, <2>4 DEF Becomes, OnlyServer
    <3>. QED  BY <2>1, <2>2, <3>1 DEF Counted
  <2>. QED  BY <2>3, <2>4
<1>4. Wrote'
  BY <1>0 DEF Becomes, OnlyServer, Wrote, Serving, Holding
<1>. QED  BY <1>1, <1>2, <1>3, <1>4

LEMMA AcceptBase ==
    ASSUME Base, NEW s \in Servers, NEW c \in Conns, Accept(s, c)
    PROVE  Service'
<1>. USE DEF Base, Service
<1>1. (ServersTyped /\ ConnsTyped /\ FilesTyped)'
  BY AcceptEffect DEF Becomes, Turns, OnlyServer, OnlyConn, ServersTyped,
     ConnsTyped, FilesTyped
<1>2. (ThreadsServed /\ Requests /\ Busy)'
  BY AcceptEffect DEF Becomes, Turns, OnlyServer, OnlyConn, ThreadsServed,
     Requests, Busy, Handled, Serving, Conns
<1>3. Counted'
  <2>. SUFFICES ASSUME NEW r \in Servers
                PROVE  /\ IsFiniteSet(Threads(r)') /\ Cardinality(Threads(r)') <= Limit
                       /\ IsFiniteSet(srv'[r].threads)
                       /\ srv'[r].pc = "accept" => Threads(r)' \subseteq srv'[r].threads
    BY DEF Counted
  <2>1. IsFiniteSet(Threads(r)) /\ Cardinality(Threads(r)) <= Limit
    BY DEF Counted
  <2>2. /\ IsFiniteSet(srv'[r].threads)
        /\ srv'[r].pc = "accept" => Threads(r)' \subseteq srv'[r].threads
    <3>1. CASE r = s
      BY AcceptEffect, <3>1, FS_EmptySet DEF Becomes
    <3>2. CASE r # s
      <4>1. srv'[r] = srv[r]
        BY AcceptEffect, <3>2 DEF Becomes, OnlyServer
      <4>2. Threads(r)' \subseteq Threads(r)
        BY AcceptEffect, <3>2, ServerNumber DEF Turns, OnlyConn, Threads
      <4>. QED  BY <4>1, <4>2 DEF Counted
    <3>. QED  BY <3>1, <3>2
  <2>3. CASE Threads(r)' \subseteq Threads(r)
    <3>1. IsFiniteSet(Threads(r)') /\ Cardinality(Threads(r)') <= Cardinality(Threads(r))
      BY <2>1, <2>3, FS_Subset
    <3>2. Cardinality(Threads(r)) \in Nat /\ Cardinality(Threads(r)') \in Nat
      BY <2>1, <3>1, FS_CardinalityType
    <3>. QED  BY <2>1, <2>2, <3>1, <3>2, LimitNat
  <2>4. CASE ~(Threads(r)' \subseteq Threads(r))
    <3>1. /\ r = s /\ ~(Cardinality(srv[s].threads) >= Limit)
          /\ Threads(r)' \subseteq Threads(r) \cup {c}
      <4>1. CASE Turns(c, "away", 0, "none", "none")
        <5>1. Threads(r)' \subseteq Threads(r)
          BY <4>1 DEF Turns, OnlyConn, Threads
        <5>. QED  BY <2>4, <5>1
      <4>2. CASE /\ ~(Cardinality(srv[s].threads) >= Limit)
                 /\ Turns(c, "parse", s, conn[c].child, conn[c].status)
        <5>1. /\ Threads(r)' \subseteq Threads(r) \cup {c}
              /\ r # s => Threads(r)' \subseteq Threads(r)
          BY <4>2 DEF Turns, OnlyConn, Threads
        <5>. QED  BY <2>4, <4>2, <5>1
      <4>. QED  BY AcceptEffect, <4>1, <4>2
    <3>2. IsFiniteSet(srv[s].threads) /\ Threads(s) \subseteq srv[s].threads
      BY AcceptEffect DEF Counted
    <3>3. Cardinality(Threads(s)) <= Cardinality(srv[s].threads) /\ IsFiniteSet(Threads(s))
      BY <3>2, FS_Subset
    <3>4. Cardinality(Threads(s)) \in Nat /\ Cardinality(srv[s].threads) \in Nat
      BY <3>2, <3>3, FS_CardinalityType
    <3>5. /\ IsFiniteSet(Threads(s) \cup {c})
          /\ Cardinality(Threads(s) \cup {c}) <= Cardinality(Threads(s)) + 1
      <4>1. /\ IsFiniteSet(Threads(s) \cup {c})
            /\ \/ Cardinality(Threads(s) \cup {c}) = Cardinality(Threads(s))
               \/ Cardinality(Threads(s) \cup {c}) = Cardinality(Threads(s)) + 1
        BY <3>3, FS_AddElement
      <4>. QED  BY <3>4, <4>1
    <3>6. Cardinality(Threads(s) \cup {c}) \in Nat
      BY <3>5, FS_CardinalityType
    <3>7. /\ IsFiniteSet(Threads(r)')
          /\ Cardinality(Threads(r)') <= Cardinality(Threads(s) \cup {c})
      BY <3>1, <3>5, FS_Subset
    <3>8. Cardinality(Threads(r)') \in Nat
      BY <3>7, FS_CardinalityType
    <3>9. Cardinality(Threads(r)') <= Limit
      BY <3>1, <3>3, <3>4, <3>5, <3>6, <3>7, <3>8, LimitNat
    <3>. QED  BY <2>2, <3>7, <3>9
  <2>. QED  BY <2>3, <2>4
<1>4. Wrote'
  BY AcceptEffect DEF Becomes, OnlyServer, Wrote, Serving, Holding
<1>. QED  BY <1>1, <1>2, <1>3, <1>4

(* and its end,                                                            *)
LEMMA AcceptNoneBase ==
    ASSUME Base, NEW s \in Servers, AcceptNone(s)
    PROVE  Service'
<1>. USE DEF Base, Service
<1>0. /\ srv[s].pc = "accept" /\ UNCHANGED <<vm, vms, conn, files, killed>>
      /\ \/ Becomes(s, "loop", srv[s].stop, srv[s].wrote, {}, srv[s].busy)
         \/ Becomes(s, "join", TRUE, srv[s].wrote, {}, srv[s].busy)
  BY AcceptNoneEffect
<1>1. (ServersTyped /\ ConnsTyped /\ FilesTyped)'
  BY <1>0 DEF Becomes, OnlyServer, ServersTyped, ConnsTyped, FilesTyped
<1>2. (ThreadsServed /\ Requests /\ Busy)'
  BY <1>0 DEF Becomes, OnlyServer, ThreadsServed, Requests, Busy, Handled,
     Serving
<1>3. Counted'
  <2>1. Shrinks
    BY <1>0 DEF Becomes, OnlyServer, Threads, Shrinks
  <2>. QED  BY <2>1, CountedShrinks
<1>4. Wrote'
  BY <1>0 DEF Becomes, OnlyServer, Wrote, Serving, Holding
<1>. QED  BY <1>1, <1>2, <1>3, <1>4

LEMMA JoinBase ==
    ASSUME Base, NEW s \in Servers, Join(s)
    PROVE  Service'
<1>. USE DEF Base, Service
<1>1. (ServersTyped /\ ConnsTyped /\ FilesTyped)'
  BY JoinEffect DEF Becomes, OnlyServer, ServersTyped, ConnsTyped, FilesTyped
<1>2. (ThreadsServed /\ Requests /\ Busy)'
  BY JoinEffect DEF Becomes, OnlyServer, ThreadsServed, Requests, Busy,
     Handled, Threads
<1>3. Counted'
  <2>1. Shrinks
    BY JoinEffect DEF Becomes, OnlyServer, Threads, Shrinks
  <2>. QED  BY <2>1, CountedShrinks
<1>4. Wrote'
  BY JoinEffect DEF Becomes, OnlyServer, Wrote, Serving, Holding
<1>. QED  BY <1>1, <1>2, <1>3, <1>4

LEMMA DropBase ==
    ASSUME Base, NEW s \in Servers, Drop(s)
    PROVE  Service'
<1>. USE DEF Base, Service
<1>1. (ServersTyped /\ ConnsTyped /\ FilesTyped)'
  BY DropEffect, BoundsNat DEF Becomes, Turns, OnlyServer, OnlyConn,
     ServersTyped, ConnsTyped, FilesTyped
<1>2. (ThreadsServed /\ Requests /\ Busy)'
  BY DropEffect DEF Becomes, Turns, OnlyServer, OnlyConn, NoServer,
     ThreadsServed, Requests, Busy, Handled, Serving, Conns
<1>3. Counted'
  <2>1. Shrinks
    BY DropEffect DEF Becomes, Turns, OnlyServer, OnlyConn, NoServer, Threads,
       Shrinks
  <2>. QED  BY <2>1, CountedShrinks
<1>4. Wrote'
  BY DropEffect, ServerNumber, Names DEF Becomes, OnlyServer, NoServer, Wrote,
     Serving, FilesTyped
<1>. QED  BY <1>1, <1>2, <1>3, <1>4

(* the threads, whose server is there as long as they are,                 *)
LEMMA ParseOtherBase ==
    ASSUME Base, NEW c \in Conns, ParseOther(c)
    PROVE  Service'
<1>. USE DEF Base, Service
<1>0. /\ conn[c].pc \in {"parse", "watch"} /\ UNCHANGED <<vm, vms, srv, files, killed>>
      /\ \E x \in {"result", "other", "shutdown"} :
            Turns(c, "respond", conn[c].srv, "none", x) /\ (x = "shutdown" => c = Control)
  BY AnswersEffect DEF ParseOther
<1>1. (ServersTyped /\ ConnsTyped /\ FilesTyped)'
  BY <1>0 DEF Turns, OnlyConn, ServersTyped, ConnsTyped, FilesTyped
<1>2. (ThreadsServed /\ Requests /\ Busy)'
  BY <1>0 DEF Turns, OnlyConn, ThreadsServed, Requests, Busy, Handled, Conns
<1>3. Counted'
  <2>1. Shrinks
    BY <1>0 DEF Turns, OnlyConn, Threads, Shrinks
  <2>. QED  BY <2>1, CountedShrinks
<1>4. Wrote'
  BY <1>0 DEF Wrote
<1>. QED  BY <1>1, <1>2, <1>3, <1>4

LEMMA ParseShutdownBase ==
    ASSUME Base, NEW c \in Conns, ParseShutdown(c)
    PROVE  Service'
<1>. USE DEF Base, Service
<1>0. /\ conn[c].pc \in {"parse", "watch"} /\ UNCHANGED <<vm, vms, srv, files, killed>>
      /\ \E x \in {"result", "other", "shutdown"} :
            Turns(c, "respond", conn[c].srv, "none", x) /\ (x = "shutdown" => c = Control)
  BY AnswersEffect DEF ParseShutdown
<1>1. (ServersTyped /\ ConnsTyped /\ FilesTyped)'
  BY <1>0 DEF Turns, OnlyConn, ServersTyped, ConnsTyped, FilesTyped
<1>2. (ThreadsServed /\ Requests /\ Busy)'
  BY <1>0 DEF Turns, OnlyConn, ThreadsServed, Requests, Busy, Handled, Conns
<1>3. Counted'
  <2>1. Shrinks
    BY <1>0 DEF Turns, OnlyConn, Threads, Shrinks
  <2>. QED  BY <2>1, CountedShrinks
<1>4. Wrote'
  BY <1>0 DEF Wrote
<1>. QED  BY <1>1, <1>2, <1>3, <1>4

LEMMA ParseComputeBase ==
    ASSUME Base, NEW c \in Conns, ParseCompute(c)
    PROVE  Service'
<1>. USE DEF Base, Service
<1>. DEFINE s == conn[c].srv
<1>a. s \in Servers
  BY DEF ParseCompute, ThreadsServed, Handled
<1>0. /\ conn[c].pc = "parse" /\ c \in Clients /\ UNCHANGED <<vm, vms, files, killed>>
      /\ \/ srv[s].busy # None /\ UNCHANGED srv /\ Turns(c, "respond", s, "none", "other")
         \/ /\ srv[s].busy = None
            /\ Becomes(s, srv[s].pc, srv[s].stop, srv[s].wrote, srv[s].threads, c)
            /\ \/ Turns(c, "watch", s, "runs", conn[c].status)
               \/ Turns(c, "respond", s, "none", "other")
  BY <1>a, ParseComputeEffect
<1>1. (ServersTyped /\ ConnsTyped /\ FilesTyped)'
  BY <1>0 DEF Becomes, Turns, OnlyServer, OnlyConn, ServersTyped, ConnsTyped,
     FilesTyped
<1>2. (ThreadsServed /\ Requests /\ Busy)'
  BY <1>0, GpuAssumption, ServerNumber DEF Becomes, Turns, OnlyServer,
     OnlyConn, ThreadsServed, Requests, Busy, Handled, Serving, Conns,
     ServersTyped
<1>3. Counted'
  <2>1. Shrinks
    BY <1>0 DEF Becomes, Turns, OnlyServer, OnlyConn, Threads, Shrinks
  <2>. QED  BY <2>1, CountedShrinks
<1>4. Wrote'
  BY <1>0 DEF Becomes, OnlyServer, Wrote
<1>. QED  BY <1>1, <1>2, <1>3, <1>4

LEMMA GiveUpBase ==
    ASSUME Base, NEW c \in Conns, GiveUp(c)
    PROVE  Service'
<1>. USE DEF Base, Service
<1>0. /\ conn[c].pc \in {"parse", "watch"} /\ UNCHANGED <<vm, vms, srv, files, killed>>
      /\ \E x \in {"result", "other", "shutdown"} :
            Turns(c, "respond", conn[c].srv, "none", x) /\ (x = "shutdown" => c = Control)
  BY AnswersEffect DEF GiveUp
<1>1. (ServersTyped /\ ConnsTyped /\ FilesTyped)'
  BY <1>0 DEF Turns, OnlyConn, ServersTyped, ConnsTyped, FilesTyped
<1>2. (ThreadsServed /\ Requests /\ Busy)'
  BY <1>0 DEF Turns, OnlyConn, ThreadsServed, Requests, Busy, Handled, Conns
<1>3. Counted'
  <2>1. Shrinks
    BY <1>0 DEF Turns, OnlyConn, Threads, Shrinks
  <2>. QED  BY <2>1, CountedShrinks
<1>4. Wrote'
  BY <1>0 DEF Wrote
<1>. QED  BY <1>1, <1>2, <1>3, <1>4

LEMMA ResultBase ==
    ASSUME Base, NEW c \in Conns, Result(c)
    PROVE  Service'
<1>. USE DEF Base, Service
<1>0. /\ conn[c].pc \in {"parse", "watch"} /\ UNCHANGED <<vm, vms, srv, files, killed>>
      /\ \E x \in {"result", "other", "shutdown"} :
            Turns(c, "respond", conn[c].srv, "none", x) /\ (x = "shutdown" => c = Control)
  BY AnswersEffect DEF Result
<1>1. (ServersTyped /\ ConnsTyped /\ FilesTyped)'
  BY <1>0 DEF Turns, OnlyConn, ServersTyped, ConnsTyped, FilesTyped
<1>2. (ThreadsServed /\ Requests /\ Busy)'
  BY <1>0 DEF Turns, OnlyConn, ThreadsServed, Requests, Busy, Handled, Conns
<1>3. Counted'
  <2>1. Shrinks
    BY <1>0 DEF Turns, OnlyConn, Threads, Shrinks
  <2>. QED  BY <2>1, CountedShrinks
<1>4. Wrote'
  BY <1>0 DEF Wrote
<1>. QED  BY <1>1, <1>2, <1>3, <1>4

LEMMA RespondBase ==
    ASSUME Base, NEW c \in Conns, Respond(c)
    PROVE  Service'
<1>. USE DEF Base, Service
<1>. DEFINE s == conn[c].srv
<1>a. s \in Servers
  BY DEF Respond, ThreadsServed, Handled
<1>0. /\ conn[c].pc = "respond" /\ UNCHANGED <<vm, vms, files, killed>>
      /\ Turns(c, "away", 0, "none", "none")
      /\ Becomes(s, srv[s].pc, srv[s].stop \/ conn[c].status = "shutdown", srv[s].wrote,
                 srv[s].threads, IF srv[s].busy = c THEN None ELSE srv[s].busy)
  BY <1>a, RespondEffect
<1>1. (ServersTyped /\ ConnsTyped /\ FilesTyped)'
  BY <1>0 DEF Becomes, Turns, OnlyServer, OnlyConn, ServersTyped, ConnsTyped,
     FilesTyped
<1>2. (ThreadsServed /\ Requests /\ Busy)'
  BY <1>0, GpuAssumption, ServerNumber DEF Becomes, Turns, OnlyServer,
     OnlyConn, ThreadsServed, Requests, Busy, Handled, Serving, Conns,
     ServersTyped
<1>3. Counted'
  <2>1. Shrinks
    BY <1>0 DEF Becomes, Turns, OnlyServer, OnlyConn, Threads, Shrinks
  <2>. QED  BY <2>1, CountedShrinks
<1>4. Wrote'
  BY <1>0 DEF Becomes, OnlyServer, Wrote
<1>. QED  BY <1>1, <1>2, <1>3, <1>4

LEMMA ChildEndsBase ==
    ASSUME Base, NEW c \in Conns, ChildEnds(c)
    PROVE  Service'
<1>. USE DEF Base, Service
<1>1. (ServersTyped /\ ConnsTyped /\ FilesTyped)'
  BY ChildEndsEffect DEF Turns, OnlyConn, ServersTyped, ConnsTyped, FilesTyped
<1>2. (ThreadsServed /\ Requests /\ Busy)'
  BY ChildEndsEffect DEF Turns, OnlyConn, ThreadsServed, Requests, Busy, Conns
<1>3. Counted'
  <2>1. Shrinks
    BY ChildEndsEffect DEF Turns, OnlyConn, Threads, Shrinks
  <2>. QED  BY <2>1, CountedShrinks
<1>4. Wrote'
  BY ChildEndsEffect DEF Wrote
<1>. QED  BY <1>1, <1>2, <1>3, <1>4

(* and the launcher.                                                       *)
LEMMA StopBeginBase ==
    ASSUME Base, StopBegin
    PROVE  Service'
<1>. USE DEF Base, Service
<1>1. (ServersTyped /\ ConnsTyped /\ FilesTyped)'
  BY StopBeginEffect DEF Turns, OnlyConn, ServersTyped, ConnsTyped, FilesTyped
<1>2. (ThreadsServed /\ Requests /\ Busy)'
  BY StopBeginEffect DEF Turns, OnlyConn, ThreadsServed, Requests, Busy,
     Handled, Conns
<1>3. Counted'
  <2>1. Shrinks
    BY StopBeginEffect DEF Turns, OnlyConn, Threads, Shrinks
  <2>. QED  BY <2>1, CountedShrinks
<1>4. Wrote'
  BY StopBeginEffect DEF Wrote
<1>. QED  BY <1>1, <1>2, <1>3, <1>4

LEMMA TermBase ==
    ASSUME Base, Term
    PROVE  Service'
<1>. USE DEF Base, Service
<1>a. lau.pid \in Servers
  BY AliveNumber DEF Term, LauncherTyped, Asked
<1>0. \/ UNCHANGED <<vm, vms, srv, conn, files, killed>>
      \/ /\ UNCHANGED <<vm, vms, conn, files, killed>>
         /\ \E s \in Servers :
               \/ /\ srv[s].pc = "boot"
                  /\ Becomes(s, "gone", srv[s].stop, srv[s].wrote, srv[s].threads, srv[s].busy)
               \/ Becomes(s, srv[s].pc, TRUE, srv[s].wrote, srv[s].threads, srv[s].busy)
  BY <1>a, SignalledEffect DEF Term
<1>1. (ServersTyped /\ ConnsTyped /\ FilesTyped)'
  BY <1>0 DEF Becomes, OnlyServer, ServersTyped, ConnsTyped, FilesTyped
<1>2. (ThreadsServed /\ Requests /\ Busy)'
  BY <1>0 DEF Becomes, OnlyServer, ThreadsServed, Requests, Busy, Handled,
     Serving
<1>3. Counted'
  <2>1. Shrinks
    BY <1>0 DEF Becomes, OnlyServer, Threads, Shrinks
  <2>. QED  BY <2>1, CountedShrinks
<1>4. Wrote'
  BY <1>0 DEF Becomes, OnlyServer, Wrote, Serving
<1>. QED  BY <1>1, <1>2, <1>3, <1>4

LEMMA SweepBase ==
    ASSUME Base, Sweep
    PROVE  Service'
<1>. USE DEF Base, Service
<1>1. (ServersTyped /\ ConnsTyped /\ FilesTyped)'
  BY BoundsNat DEF Sweep, ServersTyped, ConnsTyped, FilesTyped
<1>2. (ThreadsServed /\ Requests /\ Busy)'
  BY DEF Sweep, ThreadsServed, Requests, Busy
<1>3. Counted'
  <2>1. Shrinks
    BY ServerNumber DEF Sweep, Threads, Shrinks
  <2>. QED  BY <2>1, CountedShrinks
<1>4. Wrote'
  BY ServerNumber, WrittenFiles DEF Sweep, Wrote
<1>. QED  BY <1>1, <1>2, <1>3, <1>4

LEMMA SweepDiesBase ==
    ASSUME Base, SweepDies
    PROVE  Service'
<1>. USE DEF Base, Service
<1>0. /\ UNCHANGED <<vm, vms, srv, conn, killed>>
      /\ files' \in [Files -> 0 .. MaxServer] /\ \A f \in Files : files'[f] \in {0, files[f]}
  BY BoundsNat DEF SweepDies, FilesTyped
<1>1. (ServersTyped /\ ConnsTyped /\ FilesTyped)'
  BY <1>0 DEF ServersTyped, ConnsTyped, FilesTyped
<1>2. (ThreadsServed /\ Requests /\ Busy)'
  BY <1>0 DEF ThreadsServed, Requests, Busy
<1>3. Counted'
  <2>1. Shrinks
    BY <1>0, ServerNumber DEF Threads, Shrinks
  <2>. QED  BY <2>1, CountedShrinks
<1>4. Wrote'
  BY <1>0, ServerNumber, WrittenFiles DEF Wrote
<1>. QED  BY <1>1, <1>2, <1>3, <1>4

LEMMA LaunchBase ==
    ASSUME Base, Launch
    PROVE  Service'
<1>. USE DEF Base, Service
<1>0. \E s \in Servers :
         /\ srv[s].pc = "none" /\ UNCHANGED <<vm, vms, conn, files, killed, guest, tunnel>>
         /\ OnlyServer(s)
         /\ srv'[s].pc = "boot" /\ srv'[s].wrote = 0 /\ srv'[s].threads = {}
         /\ srv'[s].busy = None
         /\ lau.pc = "spawn" /\ lau' = [lau EXCEPT !.pc = "note", !.pid = s]
  BY LaunchEffect
<1>1. (ServersTyped /\ ConnsTyped /\ FilesTyped)'
  BY <1>0 DEF OnlyServer, ServersTyped, ConnsTyped, FilesTyped
<1>2. (ThreadsServed /\ Requests /\ Busy)'
  BY <1>0 DEF OnlyServer, ThreadsServed, Requests, Busy, Handled, Serving
<1>3. Counted'
  <2>1. Shrinks
    BY <1>0 DEF OnlyServer, Threads, Shrinks
  <2>. QED  BY <2>1, CountedShrinks
<1>4. Wrote'
  BY <1>0 DEF OnlyServer, Wrote, Serving
<1>. QED  BY <1>1, <1>2, <1>3, <1>4

LEMMA NoteBase ==
    ASSUME Base, Note
    PROVE  Service'
<1>. USE DEF Base, Service
<1>1. (ServersTyped /\ ConnsTyped /\ FilesTyped)'
  BY DEF Note, ServersTyped, ConnsTyped, FilesTyped, LauncherTyped
<1>2. (ThreadsServed /\ Requests /\ Busy)'
  BY DEF Note, ThreadsServed, Requests, Busy
<1>3. Counted'
  <2>1. Shrinks
    BY ServerNumber DEF Note, Threads, Shrinks
  <2>. QED  BY <2>1, CountedShrinks
<1>4. Wrote'
  BY Names DEF Note, Wrote
<1>. QED  BY <1>1, <1>2, <1>3, <1>4

LEMMA CredentialsBase ==
    ASSUME Base, Credentials
    PROVE  Service'
<1>. USE DEF Base, Service
<1>1. (ServersTyped /\ ConnsTyped /\ FilesTyped)'
  BY Names DEF Credentials, ServersTyped, ConnsTyped, FilesTyped
<1>2. (ThreadsServed /\ Requests /\ Busy)'
  BY DEF Credentials, ThreadsServed, Requests, Busy
<1>3. Counted'
  <2>1. Shrinks
    BY ServerNumber DEF Credentials, Threads, Shrinks
  <2>. QED  BY <2>1, CountedShrinks
<1>4. Wrote'
  BY Names DEF Credentials, Wrote, FilesTyped
<1>. QED  BY <1>1, <1>2, <1>3, <1>4

-----------------------------------------------------------------------------
(* Servers come one after the other.                                       *)

(* What a server has written is its own.                                   *)
Own ==
    \A s \in Servers :
       srv[s].pc \in Holding => \A i \in 1 .. srv[s].wrote : files[Written[i]] = s

(* While a server lives no other does, no file is another's, and nobody    *)
(* sweeps or spawns: the launcher would find it by its pid.                *)
Alone ==
    \A s \in Servers :
       Alive(s) =>
          /\ \A r \in Servers : Alive(r) => r = s
          /\ \A f \in Files : files[f] \in {0, s}
          /\ lau.pc \notin {"sweep", "spawn"}
          /\ IF lau.pc = "note" THEN lau.pid = s ELSE files["launcher.pid"] = s

(* The files of the directory are of one server.                           *)
OneOwner == \A f, g \in Files : files[f] # 0 /\ files[g] # 0 => files[f] = files[g]

(* What the launcher knows at each step of enable.                         *)
Enabling ==
    /\ lau.pc = "spawn" => \A f \in Files : files[f] = 0
    /\ lau.pc = "note" => lau.pid \in Servers /\ \A f \in Files : files[f] \in {0, lau.pid}
    /\ lau.pc \in {"guest", "tunnel", "check"} =>
          lau.pid # 0 /\ files["curl.conf"] = lau.pid
    /\ lau.pc \in {"tunnel", "check"} => guest = lau.pid
    /\ lau.pc = "check" => tunnel \in {0, lau.pid}
    /\ lau.result # "none" => lau.pc = "idle"

Succession == Own /\ Alone /\ OneOwner /\ Enabling /\ WhatItSays

(* Before anything runs.                                                   *)
LEMMA InitSuccession == ASSUME Init PROVE Succession
<1>. USE DEF Init, ServerInit
<1>1. \A s \in Servers : ~Alive(s)
  BY DEF Alive, NoServer
<1>2. Own /\ Alone /\ OneOwner
  BY <1>1 DEF Own, Alone, OneOwner, NoServer, Holding, Serving
<1>3. Enabling /\ WhatItSays
  BY DEF Enabling, WhatItSays, Idle
<1>. QED  BY <1>2, <1>3 DEF Succession

(* A server that writes or removes files lives.                            *)
Keeps ==
    /\ \A r \in Servers : Alive(r)' => Alive(r)
    /\ \/ UNCHANGED files
       \/ \E s \in Servers, i \in 1 .. 5 :
             /\ Alive(s)
             /\ \/ files[Written[i]] = 0 /\ files' = [files EXCEPT ![Written[i]] = s]
                \/ /\ srv[s].pc = "drop" /\ files[Written[i]] = s
                   /\ files' = [files EXCEPT ![Written[i]] = 0]

(* server.lock is the first file.                                          *)
LEMMA FirstWritten == 1 \in 1 .. 5 /\ Written[1] = "server.lock"
BY Names

(* No more than five files are written.                                    *)
LEMMA WroteAll ==
    ASSUME Wrote, ServersTyped
    PROVE  \A s \in Servers : srv[s].wrote \in 0 .. 5
BY Names DEF ServersTyped, ServerRecord

(* A step that moves no server and touches no file.                        *)
LEMMA QuietKeeps ==
    ASSUME Own, UNCHANGED files,
           \A r \in Servers : srv'[r].pc = srv[r].pc /\ srv'[r].wrote = srv[r].wrote
    PROVE  Keeps /\ Own'
BY DEF Keeps, Own, Alive

(* The steps of a server, which is the only one that lives.                *)
LEMMA TakeLockKeeps ==
    ASSUME Base, Own, Alone, NEW s \in Servers, TakeLock(s)
    PROVE  Keeps /\ Own'
<1>. USE DEF Base, Service
<1>1. Alive(s) /\ \A r \in Servers : srv[r].pc \in Holding => r = s
  BY TakeLockEffect DEF Alone, Alive, Holding, Serving
<1>2. Keeps
  BY TakeLockEffect, FirstWritten DEF Keeps, Becomes, OnlyServer, Alive
<1>3. Own'
  BY TakeLockEffect, <1>1, FirstWritten, WrittenFiles DEF Becomes, OnlyServer,
     Own, Holding, Serving, FilesTyped
<1>. QED  BY <1>2, <1>3

LEMMA ProbeKeeps ==
    ASSUME Base, Own, Alone, NEW s \in Servers, Probe(s)
    PROVE  Keeps /\ Own'
<1>. USE DEF Base, Service
<1>1. Alive(s) /\ \A r \in Servers : srv[r].pc \in Holding => r = s
  BY ProbeEffect DEF Alone, Alive, Holding, Serving
<1>2. Keeps
  BY ProbeEffect DEF Keeps, Becomes, OnlyServer, Alive
<1>3. Own'
  BY ProbeEffect DEF Becomes, OnlyServer, Own, Holding
<1>. QED  BY <1>2, <1>3

LEMMA WriteFileKeeps ==
    ASSUME Base, Own, Alone, NEW s \in Servers, WriteFile(s)
    PROVE  Keeps /\ Own'
<1>. USE DEF Base, Service
<1>a. srv[s].wrote \in 1 .. 4
  BY DEF Wrote, WriteFile
<1>0. /\ srv[s].pc = "write" /\ UNCHANGED <<vm, vms, conn, killed>>
      /\ \/ /\ files[Written[srv[s].wrote + 1]] = 0
            /\ files' = [files EXCEPT ![Written[srv[s].wrote + 1]] = s]
            /\ Becomes(s, IF srv[s].wrote = 4 THEN "loop" ELSE "write", srv[s].stop,
                       srv[s].wrote + 1, srv[s].threads, srv[s].busy)
         \/ /\ UNCHANGED files
            /\ Becomes(s, "drop", srv[s].stop, srv[s].wrote, srv[s].threads,
                       srv[s].busy)
  BY <1>a, WriteFileEffect
<1>1. Alive(s) /\ \A r \in Servers : srv[r].pc \in Holding => r = s
  BY <1>0 DEF Alone, Alive, Holding, Serving
<1>2. Keeps
  BY <1>0 DEF Keeps, Becomes, OnlyServer, Alive, Wrote
<1>3. Own'
  BY <1>0, <1>1, WrittenFiles DEF Becomes, OnlyServer, Own, Wrote, Holding,
     FilesTyped
<1>. QED  BY <1>2, <1>3

LEMMA LoopKeeps ==
    ASSUME Base, Own, Alone, NEW s \in Servers, Loop(s)
    PROVE  Keeps /\ Own'
<1>. USE DEF Base, Service
<1>0. /\ srv[s].pc = "loop" /\ UNCHANGED <<vm, vms, conn, files, killed>>
      /\ \/ Becomes(s, "join", TRUE, srv[s].wrote, {}, srv[s].busy)
         \/ Becomes(s, "accept", srv[s].stop, srv[s].wrote, Threads(s), srv[s].busy)
  BY LoopEffect
<1>1. Alive(s) /\ \A r \in Servers : srv[r].pc \in Holding => r = s
  BY <1>0 DEF Alone, Alive, Holding, Serving
<1>2. Keeps
  BY <1>0 DEF Keeps, Becomes, OnlyServer, Alive
<1>3. Own'
  BY <1>0 DEF Becomes, OnlyServer, Own, Holding, Serving
<1>. QED  BY <1>2, <1>3

LEMMA AcceptKeeps ==
    ASSUME Base, Own, Alone, NEW s \in Servers, NEW c \in Conns, Accept(s, c)
    PROVE  Keeps /\ Own'
<1>. USE DEF Base, Service
<1>1. Alive(s) /\ \A r \in Servers : srv[r].pc \in Holding => r = s
  BY AcceptEffect DEF Alone, Alive, Holding, Serving
<1>2. Keeps
  BY AcceptEffect DEF Keeps, Becomes, OnlyServer, Alive
<1>3. Own'
  BY AcceptEffect DEF Becomes, OnlyServer, Own, Holding, Serving
<1>. QED  BY <1>2, <1>3

LEMMA AcceptNoneKeeps ==
    ASSUME Base, Own, Alone, NEW s \in Servers, AcceptNone(s)
    PROVE  Keeps /\ Own'
<1>. USE DEF Base, Service
<1>0. /\ srv[s].pc = "accept" /\ UNCHANGED <<vm, vms, conn, files, killed>>
      /\ \/ Becomes(s, "loop", srv[s].stop, srv[s].wrote, {}, srv[s].busy)
         \/ Becomes(s, "join", TRUE, srv[s].wrote, {}, srv[s].busy)
  BY AcceptNoneEffect
<1>1. Alive(s) /\ \A r \in Servers : srv[r].pc \in Holding => r = s
  BY <1>0 DEF Alone, Alive, Holding, Serving
<1>2. Keeps
  BY <1>0 DEF Keeps, Becomes, OnlyServer, Alive
<1>3. Own'
  BY <1>0 DEF Becomes, OnlyServer, Own, Holding, Serving
<1>. QED  BY <1>2, <1>3

LEMMA JoinKeeps ==
    ASSUME Base, Own, Alone, NEW s \in Servers, Join(s)
    PROVE  Keeps /\ Own'
<1>. USE DEF Base, Service
<1>1. Alive(s) /\ \A r \in Servers : srv[r].pc \in Holding => r = s
  BY JoinEffect DEF Alone, Alive, Holding, Serving
<1>2. Keeps
  BY JoinEffect DEF Keeps, Becomes, OnlyServer, Alive
<1>3. Own'
  BY JoinEffect DEF Becomes, OnlyServer, Own, Holding, Serving
<1>. QED  BY <1>2, <1>3

LEMMA DropKeeps ==
    ASSUME Base, Own, Alone, NEW s \in Servers, Drop(s)
    PROVE  Keeps /\ Own'
<1>. USE DEF Base, Service
<1>1. Alive(s) /\ \A r \in Servers : srv[r].pc \in Holding => r = s
  BY DropEffect DEF Alone, Alive, Holding, Serving
<1>2. Keeps
  BY DropEffect DEF Keeps, Becomes, OnlyServer, Alive, Own, Holding
<1>3. Own'
  BY DropEffect, <1>1, WrittenFiles, WrittenDistinct DEF Becomes, OnlyServer,
     Own, Wrote, Holding, FilesTyped, NoServer
<1>. QED  BY <1>2, <1>3

LEMMA KillKeeps ==
    ASSUME Base, Own, Alone, NEW s \in Servers, Kill(s)
    PROVE  Keeps /\ Own'
<1>. USE DEF Base, Service
<1>0. /\ OnlyServer(s) /\ srv'[s] = [NoServer EXCEPT !.pc = "killed"]
      /\ UNCHANGED <<vm, vms, files>> /\ killed' \in 0 .. Kills
  <2>1. OnlyServer(s) /\ srv'[s] = [NoServer EXCEPT !.pc = "killed"]
    BY EndsEffect DEF Kill
  <2>2. killed' \in 0 .. Kills
    BY BoundsNat DEF Kill, ServersTyped
  <2>. QED  BY <2>1, <2>2 DEF Kill
<1>1. Alive(s) /\ \A r \in Servers : srv[r].pc \in Holding => r = s
  BY <1>0 DEF Alone, Alive, Holding, Serving, Kill
<1>2. Keeps
  BY <1>0, <1>1 DEF Keeps, OnlyServer, Alive
<1>3. Own'
  BY <1>0 DEF OnlyServer, Own, NoServer
<1>. QED  BY <1>2, <1>3

-----------------------------------------------------------------------------
(* The launcher.                                                           *)

(* A pid read from the directory is that of a server, or 0.                *)
LEMMA NamedFiles ==
    ASSUME FilesTyped
    PROVE  /\ Named \in 0 .. MaxServer
           /\ {"server.lock", "token", "server.port", "server.pid", "server.ready",
               "launcher.pid", "curl.conf"} \subseteq Files
           /\ \A f \in Files : files[f] \in 0 .. MaxServer
BY Names DEF FilesTyped, Named

(* Every step of the launcher knows whom it asks to end.                   *)
LEMMA LauncherStepTyped ==
    ASSUME Base, Enable \/ Disable \/ LauncherStep \/ LauncherDies \/ SweepDies
    PROVE  LauncherTyped' /\ Asked'
<1>. USE BoundsNat DEF Base, Service, LauncherTyped, Asked, At, Ends, Fails, StopGivesUp, Idle
<1>1. ASSUME Enable \/ Disable \/ LauncherDies \/ SweepDies PROVE LauncherTyped' /\ Asked'
  BY <1>1 DEF Enable, Disable, LauncherDies, SweepDies
<1>2. ASSUME StopBegin PROVE LauncherTyped' /\ Asked'
  BY <1>2, NamedFiles DEF StopBegin, SeenAlive
<1>3. ASSUME SeeDead \/ StopFails \/ Poll PROVE LauncherTyped' /\ Asked'
  BY <1>3 DEF SeeDead, StopFails, Poll
<1>4. ASSUME Term PROVE LauncherTyped' /\ Asked'
  BY <1>4 DEF Term
<1>5. ASSUME Sweep PROVE LauncherTyped' /\ Asked'
  BY <1>5 DEF Sweep
<1>6. ASSUME Launch PROVE LauncherTyped' /\ Asked'
  BY <1>6, ServerNumber DEF Launch
<1>7. ASSUME Note \/ Check PROVE LauncherTyped' /\ Asked'
  BY <1>7 DEF Note, Check
<1>8. ASSUME Credentials PROVE LauncherTyped' /\ Asked'
  BY <1>8, NamedFiles DEF Credentials
<1>9. ASSUME GuestFiles \/ Tunnel PROVE LauncherTyped' /\ Asked'
  BY <1>9, NamedFiles DEF GuestFiles, Tunnel
<1>. QED
  BY <1>1, <1>2, <1>3, <1>4, <1>5, <1>6, <1>7, <1>8, <1>9 DEF LauncherStep

(* A step that leaves servers, connections and files alone.                *)
LEMMA QuietBase ==
    ASSUME Service, UNCHANGED <<vm, vms, srv, conn, files, killed>>
    PROVE  Service'
<1>1. (ServersTyped /\ ConnsTyped /\ FilesTyped)'
  BY DEF Service, ServersTyped, ConnsTyped, FilesTyped
<1>2. (ThreadsServed /\ Requests /\ Busy)'
  BY DEF Service, ThreadsServed, Requests, Busy
<1>3. (Counted /\ Wrote)'
  BY DEF Service, Counted, Wrote, Threads
<1>. QED  BY <1>1, <1>2, <1>3 DEF Service

(* A killed server stays killed, and only a kill leaves a computation.     *)
DeadStay == \A r \in Servers : srv[r].pc = "killed" => srv'[r].pc = "killed"

LEMMA LeftStays == ASSUME LeftTyped, DeadStay, left' \subseteq left PROVE LeftTyped'
BY DEF LeftTyped, DeadStay

LEMMA LeftStep == ASSUME Base, [Next]_vars PROVE LeftTyped'
<1>. USE DEF Base, Service
<1>1. ASSUME UNCHANGED srv, left' \subseteq left PROVE LeftTyped'
  BY <1>1, LeftStays DEF DeadStay
<1>2. ASSUME NEW s \in Servers, ServerStep(s) PROVE LeftTyped'
  <2>1. UNCHANGED left
    BY <1>2 DEF ServerStep, TakeLock, Probe, WriteFile, Loop, Accept, AcceptNone,
       Join, Drop
  <2>2. OnlyServer(s)
    BY <1>2, TakeLockEffect, ProbeEffect, WriteFileEffect, LoopEffect,
       AcceptEffect, AcceptNoneEffect, JoinEffect, DropEffect
       DEF ServerStep, Wrote, Becomes, WriteFile
  <2>3. srv[s].pc # "killed"
    BY <1>2 DEF ServerStep, TakeLock, Probe, WriteFile, Loop, Accept, AcceptNone,
       Join, Drop
  <2>. QED  BY <2>1, <2>2, <2>3, LeftStays DEF OnlyServer, DeadStay
<1>3. ASSUME NEW s \in Servers, Kill(s) PROVE LeftTyped'
  <2>1. OnlyServer(s) /\ srv'[s] = [NoServer EXCEPT !.pc = "killed"]
    BY <1>3, EndsEffect DEF Kill
  <2>3. srv'[s].pc = "killed"
    BY <2>1 DEF NoServer
  <2>2. left' \subseteq left \cup {s}
    BY <1>3 DEF Kill
  <2>. QED  BY <2>1, <2>2, <2>3 DEF OnlyServer, LeftTyped
<1>4. ASSUME NEW s \in Servers, LeftEnds(s) PROVE LeftTyped'
  BY <1>1, <1>4 DEF LeftEnds
<1>5. ASSUME NEW c \in Conns, ThreadStep(c) \/ ChildEnds(c) PROVE LeftTyped'
  <2>1. UNCHANGED left
    BY <1>5 DEF ThreadStep, Parse, ParseOther, ParseShutdown, ParseCompute,
       GiveUp, Result, Respond, ChildEnds
  <2>2. CASE ParseCompute(c) \/ Respond(c)
    <3>. DEFINE s == conn[c].srv
    <3>1. s \in Servers
      BY <2>2 DEF ThreadsServed, ParseCompute, Respond, Handled
    <3>2. \A r \in Servers : srv'[r].pc = srv[r].pc
      BY <2>2, <3>1, ParseComputeEffect, RespondEffect DEF Becomes, OnlyServer
    <3>. QED  BY <2>1, <3>2, LeftStays DEF DeadStay
  <2>3. CASE UNCHANGED srv
    BY <1>1, <2>1, <2>3
  <2>. QED  BY <1>5, <2>2, <2>3 DEF ThreadStep, Parse, ParseOther, ParseShutdown,
     GiveUp, Result, ChildEnds
<1>6. ASSUME Term PROVE LeftTyped'
  <2>1. lau.pid \in Servers
    BY <1>6, AliveNumber DEF Term, LauncherTyped, Asked
  <2>2. DeadStay
    BY <1>6, <2>1, SignalledEffect DEF Term, Becomes, OnlyServer, DeadStay
  <2>. QED  BY <1>6, <2>2, LeftStays DEF Term
<1>7. ASSUME Launch PROVE LeftTyped'
  <2>1. DeadStay
    BY <1>7, LaunchEffect DEF OnlyServer, DeadStay
  <2>. QED  BY <1>7, <2>1, LeftStays DEF Launch
<1>8. CASE \/ Enable \/ Disable \/ StopBegin \/ SeeDead \/ StopFails \/ Sweep
           \/ Note \/ Poll \/ Credentials \/ GuestFiles \/ Tunnel \/ Check
           \/ LauncherDies \/ SweepDies \/ UNCHANGED vars \/ VmStarts \/ VmExits
  BY <1>1, <1>8 DEF Enable, Disable, StopBegin, SeeDead, StopFails, Sweep, Note,
     Poll, Credentials, GuestFiles, Tunnel, Check, LauncherDies, SweepDies,
     VmStarts, VmExits, vars, server
<1>. QED
  BY <1>2, <1>3, <1>4, <1>5, <1>6, <1>7, <1>8 DEF Next, LauncherStep, HostStep,
     ServerNext

(* Every step keeps the service well-formed.                               *)
LEMMA BaseStep == ASSUME Base, [Next]_vars PROVE Base'
<1>0. LeftTyped'
  BY LeftStep
<1>1. ASSUME Enable \/ Disable \/ LauncherStep \/ LauncherDies \/ SweepDies PROVE Base'
  <2>1. LauncherTyped' /\ Asked' /\ LeftTyped'
    BY <1>0, <1>1, LauncherStepTyped
  <2>2. CASE UNCHANGED server
    BY <2>1, <2>2, QuietBase DEF Base, server
  <2>3. CASE StopBegin \/ Term \/ Sweep \/ SweepDies \/ Launch \/ Note \/ Credentials
    BY <2>1, <2>3, StopBeginBase, TermBase, SweepBase, SweepDiesBase, LaunchBase,
       NoteBase, CredentialsBase DEF Base
  <2>. QED  BY <1>1, <2>2, <2>3 DEF LauncherStep, Enable, Disable, LauncherDies,
     SeeDead, StopFails, Poll, GuestFiles, Tunnel, Check
<1>2. ASSUME HostStep PROVE Base'
  <2>1. LauncherTyped' /\ Asked' /\ LeftTyped'
    BY <1>0, <1>2, BoundsNat DEF HostStep, Base, LauncherTyped, Asked
  <2>5. ASSUME NEW s \in Servers, LeftEnds(s) PROVE Service'
    BY <2>5, QuietBase DEF LeftEnds, Base
  <2>2. ASSUME NEW s \in Servers, ServerStep(s) \/ Kill(s) PROVE Service'
    BY <2>2, TakeLockBase, ProbeBase, WriteFileBase, LoopBase, AcceptBase,
       AcceptNoneBase, JoinBase, DropBase, KillBase DEF ServerStep
  <2>3. ASSUME NEW c \in Conns, ThreadStep(c) \/ ChildEnds(c) PROVE Service'
    BY <2>3, ParseOtherBase, ParseShutdownBase, ParseComputeBase, GiveUpBase,
       ResultBase, RespondBase, ChildEndsBase DEF ThreadStep, Parse
  <2>4. ASSUME VmStarts \/ VmExits PROVE Service'
    BY <2>4, VmStartsBase, VmExitsBase
  <2>. QED  BY <1>2, <2>1, <2>2, <2>3, <2>4, <2>5 DEF HostStep, ServerNext, Base
<1>3. ASSUME UNCHANGED vars PROVE Base'
  BY <1>0, <1>3, QuietBase DEF vars, server, Base, LauncherTyped, Asked
<1>. QED  BY <1>1, <1>2, <1>3 DEF Next

(* Types and limits follow.                                                *)
LEMMA BaseLimited == ASSUME Base PROVE TypeOK
<1>. USE DEF Base, Service
<1>1. Limited
  <2>. SUFFICES ASSUME NEW s \in Servers
                PROVE  /\ Cardinality(Threads(s)) <= Limit
                       /\ srv[s].busy \in Threads(s) \cup {None}
    BY DEF Limited
  <2>. QED  BY DEF Counted, Busy, Threads, Conns
<1>. QED  BY <1>1 DEF TypeOK

(* Every variable keeps its type, no server has more threads than its      *)
(* limit, and the busy lock is held by a thread of its server, however     *)
(* launcher and servers are killed.                                        *)
THEOREM TypeCorrect == Spec => []TypeOK
<1>1. Base /\ [Next]_vars => Base'
  BY BaseStep
<1>. QED  BY InitBase, <1>1, BaseLimited, PTL DEF Spec

-----------------------------------------------------------------------------
(* The succession of servers.                                              *)

(* Every step of the host, the servers and their threads.                  *)
LEMMA HostKeeps ==
    ASSUME Base, Own, Alone, HostStep
    PROVE  Keeps /\ Own' /\ UNCHANGED <<lau, guest>> /\ tunnel' \in {0, tunnel}
<1>5. ASSUME NEW s \in Servers, LeftEnds(s) PROVE Keeps /\ Own'
  BY <1>5, QuietKeeps DEF LeftEnds
<1>1. ASSUME NEW s \in Servers, ServerStep(s) \/ Kill(s) PROVE Keeps /\ Own'
  BY <1>1, TakeLockKeeps, ProbeKeeps, WriteFileKeeps, LoopKeeps, AcceptKeeps,
     AcceptNoneKeeps, JoinKeeps, DropKeeps, KillKeeps DEF ServerStep
<1>2. ASSUME NEW c \in Conns, ThreadStep(c) \/ ChildEnds(c) PROVE Keeps /\ Own'
  <2>. DEFINE s == conn[c].srv
  <2>1. CASE ParseCompute(c) \/ Respond(c)
    <3>1. s \in Servers
      BY <2>1 DEF Base, Service, ThreadsServed, ParseCompute, Respond, Handled
    <3>2. UNCHANGED files /\ \A r \in Servers : /\ srv'[r].pc = srv[r].pc
                                               /\ srv'[r].wrote = srv[r].wrote
      BY <2>1, <3>1, ParseComputeEffect, RespondEffect DEF Base, Service,
         Becomes, OnlyServer
    <3>. QED  BY <3>2, QuietKeeps
  <2>2. CASE UNCHANGED srv /\ UNCHANGED files
    BY <2>2, QuietKeeps
  <2>. QED
    BY <1>2, <2>1, <2>2 DEF ThreadStep, Parse, ParseOther, ParseShutdown,
       GiveUp, Result, ChildEnds
<1>3. ASSUME VmStarts \/ VmExits PROVE Keeps /\ Own'
  BY <1>3, QuietKeeps DEF VmStarts, VmExits
<1>4. UNCHANGED <<lau, guest>> /\ tunnel' \in {0, tunnel}
  BY DEF HostStep
<1>. QED  BY <1>1, <1>2, <1>3, <1>4, <1>5 DEF HostStep, ServerNext

(* Server and host keep the succession.                                    *)
LEMMA HostSuccession == ASSUME Base, Succession, HostStep PROVE Succession'
<1>. USE DEF Succession
<1>1. Keeps /\ Own' /\ UNCHANGED <<lau, guest>> /\ tunnel' \in {0, tunnel}
  BY HostKeeps
<1>2. FilesTyped /\ FilesTyped'
  BY BaseStep DEF Next, Base, Service
<1>3. /\ files'["launcher.pid"] = files["launcher.pid"]
      /\ files'["curl.conf"] = files["curl.conf"]
  BY <1>1, <1>2, WrittenFiles, Names DEF Keeps, FilesTyped
<1>4. \/ UNCHANGED files
      \/ \E s \in Servers : /\ Alive(s)
                            /\ \A f \in Files : files'[f] \in {files[f], 0, s}
  BY <1>1, <1>2, WrittenFiles DEF Keeps, FilesTyped
<1>5. Alone'
  <2>. SUFFICES ASSUME NEW s \in Servers, Alive(s)'
                PROVE  /\ \A r \in Servers : Alive(r)' => r = s
                       /\ \A f \in Files : files'[f] \in {0, s}
                       /\ lau'.pc \notin {"sweep", "spawn"}
                       /\ IF lau'.pc = "note" THEN lau'.pid = s
                          ELSE files'["launcher.pid"] = s
    BY DEF Alone
  <2>1. Alive(s) /\ \A r \in Servers : Alive(r) => r = s
    BY <1>1 DEF Keeps, Alone
  <2>2. \A r \in Servers : Alive(r)' => r = s
    BY <1>1, <2>1 DEF Keeps
  <2>3. \A f \in Files : files[f] \in {0, s}
    BY <2>1 DEF Alone
  <2>4. \A f \in Files : files'[f] \in {0, s}
    BY <1>4, <2>1, <2>3
  <2>. QED  BY <1>1, <1>3, <2>1, <2>2, <2>4 DEF Alone
<1>6. OneOwner'
  <2>1. CASE UNCHANGED files
    BY <2>1 DEF OneOwner
  <2>2. CASE \E s \in Servers : Alive(s) /\ \A f \in Files : files'[f] \in {files[f], 0, s}
    <3>1. PICK s \in Servers : Alive(s) /\ \A f \in Files : files'[f] \in {files[f], 0, s}
      BY <2>2
    <3>2. \A f \in Files : files'[f] \in {0, s}
      BY <3>1 DEF Alone
    <3>. QED  BY <3>2 DEF OneOwner
  <2>. QED  BY <1>4, <2>1, <2>2
<1>7. (\A s \in Servers : ~Alive(s)) => UNCHANGED files
  BY <1>4
<1>8. Enabling'
  <2>1. lau.pc = "spawn" => UNCHANGED files
    BY <1>7 DEF Alone
  <2>2. lau.pc = "note" => \A f \in Files : files'[f] \in {0, lau.pid}
    BY <1>4 DEF Alone, Enabling
  <2>. QED  BY <1>1, <1>3, <2>1, <2>2 DEF Enabling
<1>9. WhatItSays'
  <2>1. \A X : Live \subseteq X => Live' \subseteq X
    BY <1>1 DEF Keeps, Live
  <2>2. Live = {} => UNCHANGED files
    BY <1>7 DEF Live
  <2>3. lau'.result = "shared" =>
           \E s \in Servers : /\ files'["curl.conf"] = s /\ guest' = s
                              /\ tunnel' \in {0, s} /\ Live' \subseteq {s}
    BY <1>1, <1>3, <2>1 DEF WhatItSays
  <2>4. lau'.result = "off" => Live' = {} /\ tunnel' = 0 /\ \A f \in Files : files'[f] = 0
    BY <1>1, <2>1, <2>2 DEF WhatItSays
  <2>. QED  BY <2>3, <2>4 DEF WhatItSays
<1>. QED  BY <1>1, <1>5, <1>6, <1>8, <1>9

(* A launcher that sees no server is right.                                *)
LEMMA SeesAll ==
    ASSUME Base, Succession, lau.pc \notin {"note"}, ~SeenAlive
    PROVE  \A s \in Servers : ~Alive(s)
<1>. SUFFICES ASSUME NEW s \in Servers, Alive(s) PROVE FALSE
  OBVIOUS
<1>1. \A f \in Files : files[f] \in {0, s}
  BY DEF Succession, Alone
<1>2. files["launcher.pid"] = s /\ files["server.pid"] \in {0, s}
  BY <1>1, Names DEF Succession, Alone
<1>3. Named = s
  BY <1>2, ServerNumber DEF Named
<1>. QED  BY <1>3, ServerNumber DEF SeenAlive

(* The launcher keeps the succession, if it notes the server it spawned.   *)
LEMMA LauncherSuccession ==
    ASSUME Cut = FALSE, Base, Succession,
           Enable \/ Disable \/ LauncherStep \/ LauncherDies \/ SweepDies
    PROVE  Succession'
<1>. USE DEF Succession
<1>1. ASSUME UNCHANGED <<server, guest, tunnel>>, lau'.pc # "note",
             lau'.result = "none",
             lau'.pc \in {"spawn", "guest", "tunnel"} =>
                lau.pc = lau'.pc /\ lau'.pid = lau.pid,
             lau'.pc # "check", lau.pc # "note",
             lau'.pc = "sweep" => \A s \in Servers : ~Alive(s)
      PROVE  Succession'
  <2>1. Own' /\ OneOwner'
    BY <1>1 DEF server, Own, OneOwner
  <2>2. Alone'
    BY <1>1 DEF server, Alone, Alive
  <2>3. Enabling' /\ WhatItSays'
    BY <1>1 DEF server, Enabling, WhatItSays
  <2>. QED  BY <2>1, <2>2, <2>3
<1>2. CASE Enable \/ Disable \/ StopFails \/ LauncherDies
  <2>1. /\ UNCHANGED <<server, guest, tunnel>> /\ lau'.result = "none"
        /\ lau'.pc \in {"stop", "idle"} /\ lau.pc # "note"
    BY <1>2 DEF Enable, Disable, StopFails, LauncherDies, StopGivesUp, Fails,
       Ends, Idle
  <2>. QED  BY <1>1, <2>1
<1>3. CASE SeeDead
  BY <1>1, <1>3, SeesAll DEF SeeDead, Base, LauncherTyped, Enabling
<1>4. CASE Poll
  BY <1>1, <1>4 DEF Poll, At, Fails, Idle, Base, LauncherTyped, Enabling
<1>5. CASE StopBegin
  <2>1. \A s \in Servers : ~SeenAlive => ~Alive(s)
    BY <1>5, SeesAll DEF StopBegin
  <2>2. /\ UNCHANGED <<srv, files, guest, tunnel>> /\ lau'.pc \in {"ask", "sweep"}
        /\ lau'.result = "none" /\ lau.pc = "stop"
        /\ lau'.pc = "sweep" => ~SeenAlive
    BY <1>5 DEF StopBegin, Base, LauncherTyped, Enabling
  <2>3. (Own /\ OneOwner /\ Alone)'
    BY <2>1, <2>2 DEF Own, OneOwner, Alone, Alive
  <2>4. (Enabling /\ WhatItSays)'
    BY <2>2 DEF Enabling, WhatItSays
  <2>. QED  BY <2>3, <2>4
<1>6. CASE Term
  <2>1. lau.pid \in Servers
    BY <1>6, AliveNumber DEF Term, Base, LauncherTyped, Asked
  <2>2. /\ UNCHANGED <<files, guest, tunnel>> /\ lau'.pc \in {"term", "stop", "idle"}
        /\ lau'.result = "none" /\ lau.pc = "ask"
    BY <1>6 DEF Term, At, StopGivesUp, Fails, Ends, Idle, Base, LauncherTyped,
       Enabling
  <2>3. \A s \in Servers : /\ srv'[s].pc \in {srv[s].pc, "gone"}
                           /\ srv'[s].wrote = srv[s].wrote
    BY <1>6, <2>1, SignalledEffect DEF Term, Base, Service, Becomes,
       OnlyServer
  <2>4. (Own /\ OneOwner /\ Alone)'
    BY <2>2, <2>3 DEF Own, OneOwner, Alone, Alive, Holding, Serving
  <2>5. (Enabling /\ WhatItSays)'
    BY <2>2 DEF Enabling, WhatItSays
  <2>. QED  BY <2>4, <2>5
<1>7. CASE Sweep
  <2>1. /\ lau.pc = "sweep" /\ tunnel' = 0 /\ UNCHANGED srv
        /\ \A f \in Files : files'[f] = 0
        /\ lau'.pc \in {"spawn", "idle"} /\ (lau'.pc = "spawn" => lau'.result = "none")
        /\ lau'.result \in {"none", "off"}
    BY <1>7 DEF Sweep, At, Ends, Idle, Base, LauncherTyped, Enabling
  <2>2. \A s \in Servers : ~Alive(s) /\ ~Alive(s)'
    BY <2>1 DEF Alone, Alive
  <2>3. (Own /\ OneOwner /\ Alone)'
    BY <2>1 DEF Own, OneOwner, Alone, Alive, Holding, Serving
  <2>4. (Enabling /\ WhatItSays)'
    BY <2>1, <2>2 DEF Enabling, WhatItSays, Live
  <2>. QED  BY <2>3, <2>4
<1>13. CASE SweepDies
  <2>1. /\ lau.pc = "sweep" /\ UNCHANGED <<srv, guest>>
        /\ \A f \in Files : files'[f] \in {0, files[f]}
        /\ lau'.pc = "idle" /\ lau'.result = "none"
    BY <1>13 DEF SweepDies, Ends, Idle
  <2>2. \A s \in Servers : ~Alive(s) /\ ~Alive(s)' /\ srv'[s].pc \notin Holding
    BY <2>1 DEF Alone, Alive, Holding, Serving
  <2>3. (Own /\ OneOwner /\ Alone)'
    BY <2>1, <2>2 DEF Own, OneOwner, Alone
  <2>4. (Enabling /\ WhatItSays)'
    BY <2>1 DEF Enabling, WhatItSays
  <2>. QED  BY <2>3, <2>4
<1>8. CASE Launch
  <2>1. PICK s \in Servers :
           /\ OnlyServer(s) /\ srv'[s].pc = "boot" /\ srv'[s].wrote = 0
           /\ UNCHANGED <<files, guest, tunnel>>
           /\ lau.pc = "spawn" /\ lau' = [lau EXCEPT !.pc = "note", !.pid = s]
    BY <1>8, LaunchEffect DEF Base, Service
  <2>2. lau'.pc = "note" /\ lau'.pid = s /\ lau'.result = "none"
    BY <2>1 DEF Base, LauncherTyped, Enabling
  <2>3. \A r \in Servers : /\ ~Alive(r)
                           /\ Alive(r)' => r = s
                           /\ srv'[r].pc \in Holding =>
                                 srv[r].pc \in Holding /\ srv'[r] = srv[r]
    BY <2>1 DEF Alone, Alive, OnlyServer, Holding, Serving
  <2>4. \A f \in Files : files'[f] = 0
    BY <2>1 DEF Enabling
  <2>5. (Own /\ OneOwner /\ Alone)'
    BY <2>1, <2>2, <2>3, <2>4 DEF Own, OneOwner, Alone
  <2>6. (Enabling /\ WhatItSays)'
    BY <2>2, <2>4 DEF Enabling, WhatItSays
  <2>. QED  BY <2>5, <2>6
<1>9. CASE Note
  <2>1. /\ lau.pc = "note" /\ UNCHANGED <<srv, guest, tunnel>>
        /\ lau'.pc = "poll" /\ lau'.pid = lau.pid /\ lau'.result = "none"
        /\ lau.pid \in Servers
    BY <1>9 DEF Note, At, Base, LauncherTyped, Enabling
  <2>2. /\ files'["launcher.pid"] = lau.pid
        /\ \A f \in Files \ {"launcher.pid"} : files'[f] = files[f]
        /\ \A f \in Files : files'[f] \in {0, lau.pid}
    BY <1>9, Names DEF Note, Base, Service, FilesTyped, Enabling
  <2>3. (Own /\ OneOwner)'
    BY <2>1, <2>2, WrittenFiles, WroteAll DEF Own, OneOwner, Base, Service
  <2>4. Alone'
    BY <2>1, <2>2 DEF Alone, Alive
  <2>5. (Enabling /\ WhatItSays)'
    BY <2>1 DEF Enabling, WhatItSays
  <2>. QED  BY <2>3, <2>4, <2>5
<1>10. CASE Credentials
  <2>1. /\ lau.pc = "creds" /\ UNCHANGED <<srv, guest, tunnel>>
        /\ lau'.result = "none"
        /\ \/ /\ files["server.port"] # 0 /\ files["token"] # 0
              /\ files' = [files EXCEPT !["curl.conf"] = files["token"]]
              /\ lau'.pc = "guest" /\ lau'.pid = files["server.port"]
           \/ UNCHANGED files /\ lau'.pc = "stop"
    BY <1>10 DEF Credentials, Fails, Idle, Base, LauncherTyped, Enabling
  <2>2. /\ \A f \in Files \ {"curl.conf"} : files'[f] = files[f]
        /\ files'["curl.conf"] \in {files["curl.conf"], files["token"]}
        /\ lau'.pc = "guest" => files'["curl.conf"] = lau'.pid /\ lau'.pid # 0
    BY <2>1, Names DEF Base, Service, FilesTyped, OneOwner
  <2>3. (Own /\ OneOwner)'
    BY <2>1, <2>2, WroteAll, Names DEF Own, OneOwner, Base, Service
  <2>4. Alone'
    BY <2>1, <2>2, Names DEF Alone, Alive
  <2>5. (Enabling /\ WhatItSays)'
    BY <2>1, <2>2 DEF Enabling, WhatItSays
  <2>. QED  BY <2>3, <2>4, <2>5
<1>11. CASE GuestFiles \/ Tunnel
  <2>1. /\ UNCHANGED <<srv, files>> /\ lau'.result = "none"
        /\ lau.pc \in {"guest", "tunnel"}
        /\ \/ /\ lau.pc = "guest" /\ lau'.pc = "tunnel" /\ lau'.pid = lau.pid
              /\ guest' = files["curl.conf"]
           \/ /\ lau.pc = "tunnel" /\ lau'.pc = "check" /\ lau'.pid = lau.pid
              /\ tunnel' = lau.pid /\ guest' = guest
           \/ lau'.pc = "stop"
    BY <1>11 DEF GuestFiles, Tunnel, server, At, Fails, Idle, Base,
       LauncherTyped, Enabling
  <2>2. (Own /\ OneOwner /\ Alone)'
    BY <2>1 DEF Own, OneOwner, Alone, Alive
  <2>3. (Enabling /\ WhatItSays)'
    BY <2>1 DEF Enabling, WhatItSays
  <2>. QED  BY <2>2, <2>3
<1>12. CASE Check
  <2>1. CASE ~Shared
    <3>1. /\ UNCHANGED <<server, guest, tunnel>> /\ lau.pc = "check"
          /\ lau'.pc = "stop" /\ lau'.result = "none"
      BY <1>12, <2>1 DEF Check, Fails, Idle
    <3>. QED  BY <1>1, <3>1
  <2>2. CASE Shared
    <3>1. /\ UNCHANGED <<srv, files, guest, tunnel>> /\ lau.pc = "check"
          /\ lau'.pc = "idle" /\ lau'.result = "shared"
      BY <1>12, <2>2 DEF Check, server, Ends, Idle
    <3>2. /\ lau.pid \in Servers /\ files["curl.conf"] = lau.pid /\ guest = lau.pid
          /\ tunnel \in {0, lau.pid}
      BY <3>1, AliveNumber DEF Enabling, Base, LauncherTyped
    <3>3. Live \subseteq {lau.pid}
      BY <3>2, ServerNumber, Names DEF Live, Alone
    <3>4. (Own /\ OneOwner /\ Alone)'
      BY <3>1 DEF Own, OneOwner, Alone, Alive
    <3>5. (Enabling /\ WhatItSays)'
      BY <3>1, <3>2, <3>3 DEF Enabling, WhatItSays, Live, Alive
    <3>. QED  BY <3>4, <3>5
  <2>. QED  BY <2>1, <2>2
<1>. QED
  BY <1>2, <1>3, <1>4, <1>5, <1>6, <1>7, <1>8, <1>9, <1>10, <1>11, <1>12, <1>13
     DEF LauncherStep

(* Every step does.                                                        *)
LEMMA SuccessionStep == ASSUME Cut = FALSE, Base, Succession, [Next]_vars PROVE Succession'
<1>1. CASE UNCHANGED vars
  <2>1. (Own /\ OneOwner /\ Alone)'
    BY <1>1 DEF vars, server, Succession, Own, OneOwner, Alone, Alive
  <2>2. (Enabling /\ WhatItSays)'
    BY <1>1 DEF vars, server, Succession, Enabling, WhatItSays, Live, Alive
  <2>. QED  BY <2>1, <2>2 DEF Succession
<1>. QED  BY <1>1, HostSuccession, LauncherSuccession DEF Next

(* The inductive invariant.                                                *)
IInv == Base /\ Succession

(* The inductive invariant holds, unless the launcher is killed before it  *)
(* notes its server.                                                       *)
THEOREM InductiveInvariant == ASSUME Cut = FALSE PROVE Spec => []IInv
<1>1. Init => IInv
  BY InitBase, InitSuccession DEF IInv
<1>2. IInv /\ [Next]_vars => IInv'
  BY BaseStep, SuccessionStep DEF IInv
<1>. QED  BY <1>1, <1>2, PTL DEF Spec

(* server.lock stays while the server has a thread, and no file is left by *)
(* a server that ended by itself.                                          *)
THEOREM ServersAreOrderly == ASSUME Cut = FALSE PROVE Spec => []Orderly
<1>1. ASSUME IInv PROVE Orderly
  <2>. SUFFICES ASSUME NEW s \in Servers
                PROVE  /\ Threads(s) # {} => files["server.lock"] = s
                       /\ srv[s].pc = "gone" =>
                             \A i \in 1 .. Len(Written) : files[Written[i]] # s
    BY DEF Orderly
  <2>. USE <1>1 DEF IInv, Base, Service, Succession
  <2>1. ASSUME Threads(s) # {} PROVE files["server.lock"] = s
    <3>1. srv[s].pc \in Serving /\ srv[s].wrote = 5
      BY <2>1 DEF Threads, ThreadsServed, ConnsTyped, ConnRecord, Handled, Wrote
    <3>. QED  BY <3>1, FirstWritten DEF Own, Holding
  <2>2. srv[s].pc = "gone" => \A i \in 1 .. Len(Written) : files[Written[i]] # s
    BY Names DEF Wrote, Holding, Serving
  <2>. QED  BY <2>1, <2>2
<1>. QED  BY <1>1, InductiveInvariant, PTL

(* What enable and disable say is so, and stays so until the next command. *)
THEOREM CommandsTellTheTruth == ASSUME Cut = FALSE PROVE Spec => []WhatItSays
<1>1. IInv => WhatItSays
  BY DEF IInv, Succession
<1>. QED  BY <1>1, InductiveInvariant, PTL

(* No server lives while the launcher sweeps, and until it has started the *)
(* next one.                                                               *)
THEOREM TheSweptAreDead == ASSUME Cut = FALSE PROVE Spec => []SweepsTheDead
<1>1. IInv => SweepsTheDead
  BY DEF IInv, Succession, Alone, SweepsTheDead, Live
<1>. QED  BY <1>1, InductiveInvariant, PTL

-----------------------------------------------------------------------------
(* One computation at a time.                                              *)

(* What a client of the service sees, in the terms of OneAtATime.          *)
Running == {c \in Clients : conn[c].child = "runs"}
Computed == {c \in Clients : conn[c].child = "ok"}
Told == [c \in Clients |-> conn[c].status]

(* Only what is said to the clients matters to the promise.                *)
LEMMA NotAClient ==
    ASSUME \A c \in Clients : /\ conn'[c].child = conn[c].child
                              /\ conn'[c].status = conn[c].status
    PROVE  UNCHANGED <<Running, Computed, Told>>
BY DEF Running, Computed, Told

(* What a client is told and what runs for it belongs to its connection.   *)
LEMMA ClientFacts ==
    ASSUME IInv
    PROVE  /\ Clients \subseteq Conns /\ Control \notin Clients
           /\ \A c \in Clients : conn[c].pc # "queued"
           /\ \A c \in Conns : /\ conn[c].pc # "watch" => conn[c].child = "none"
                               /\ conn[c].pc # "respond" => conn[c].status = "none"
                               /\ conn[c].child \in {"none", "runs", "ok", "bad"}
           /\ \A c \in Conns : conn[c].pc \in Handled =>
                                 conn[c].srv \in Servers /\ Alive(conn[c].srv)
BY GpuAssumption DEF IInv, Base, Service, Requests, ThreadsServed, ConnsTyped,
   ConnRecord, Conns, Serving, Alive

(* A computation that runs holds the busy lock of the one server there is. *)
LEMMA OneRuns ==
    ASSUME IInv, NEW c \in Conns, NEW d \in Conns, conn[c].pc \in Handled,
           conn[d].child # "none"
    PROVE  conn[d].srv = conn[c].srv /\ srv[conn[c].srv].busy = d /\ d \in Clients
<1>1. conn[d].pc = "watch" /\ d \in Clients /\ srv[conn[d].srv].busy = d
  BY DEF IInv, Base, Service, Requests
<1>2. conn[d].srv = conn[c].srv
  BY <1>1, ClientFacts DEF IInv, Succession, Alone, Handled
<1>. QED  BY <1>1, <1>2

(* A step of one client changes what is promised to that client only.      *)
LEMMA TurnsOne ==
    ASSUME NEW c \in Clients, Clients \subseteq Conns, NEW p, NEW s, NEW k, NEW t,
           Turns(c, p, s, k, t)
    PROVE  /\ Running' = IF k = "runs" THEN Running \cup {c} ELSE Running \ {c}
           /\ Computed' = IF k = "ok" THEN Computed \cup {c} ELSE Computed \ {c}
           /\ Told' = [Told EXCEPT ![c] = t]
<1>1. \A d \in Clients \ {c} : conn'[d] = conn[d]
  BY DEF Turns, OnlyConn
<1>2. conn'[c].child = k /\ conn'[c].status = t
  BY DEF Turns
<1>. QED  BY <1>1, <1>2 DEF Running, Computed, Told

(* A step of the abstract service, or none.                                *)
Kept == UNCHANGED <<Running, left, Computed, Told>>
Promised == Promise!Next \/ Kept

(* The actions of the abstract service, in terms of this one.              *)
LEMMA PromiseUnfolds ==
    /\ Promise!Init <=>
          /\ Running = {} /\ left = {} /\ Computed = {}
          /\ Told = [r \in Clients |-> "none"]
    /\ Promise!Crash <=>
          /\ IF Running = {} THEN UNCHANGED left
             ELSE \E s \in Servers \ left : left' = left \cup {s}
          /\ Running' = {} /\ Computed' = {} /\ Told' = [r \in Clients |-> "none"]
    /\ Promise!Fade <=>
          (\E s \in left : left' = left \ {s}) /\ UNCHANGED <<Running, Computed, Told>>
    /\ \A r : Promise!Begin(r) <=>
          /\ Running = {} /\ Told[r] = "none" /\ r \notin Computed
          /\ Running' = {r} /\ UNCHANGED <<left, Computed, Told>>
    /\ \A r : Promise!End(r) <=>
          /\ Running = {r} /\ Running' = {}
          /\ Computed' = Computed \cup {r} \/ UNCHANGED Computed
          /\ UNCHANGED <<left, Told>>
    /\ \A r : Promise!GiveUp(r) <=>
          /\ Running = {r} /\ Running' = {}
          /\ Told' = [Told EXCEPT ![r] = "other"] /\ UNCHANGED <<left, Computed>>
    /\ \A r : Promise!Reply(r) <=>
          /\ r \notin Running /\ Told[r] = "none"
          /\ \/ r \in Computed /\ Told' = [Told EXCEPT ![r] = "result"]
             \/ Told' = [Told EXCEPT ![r] = "other"]
          /\ Computed' = Computed \ {r} /\ UNCHANGED <<Running, left>>
    /\ \A r : Promise!Leave(r) <=>
          /\ r \notin Running /\ Computed' = Computed \ {r}
          /\ Told' = [Told EXCEPT ![r] = "none"] /\ UNCHANGED <<Running, left>>
<1>. USE DEF Running, Computed, Told
<1>1. Promise!Init <=>
         /\ Running = {} /\ left = {} /\ Computed = {}
         /\ Told = [r \in Clients |-> "none"]
  BY DEF Promise!Init
<1>2. /\ Promise!Crash <=>
            /\ IF Running = {} THEN UNCHANGED left
               ELSE \E s \in Servers \ left : left' = left \cup {s}
            /\ Running' = {} /\ Computed' = {} /\ Told' = [r \in Clients |-> "none"]
      /\ Promise!Fade <=>
            (\E s \in left : left' = left \ {s}) /\ UNCHANGED <<Running, Computed, Told>>
  BY DEF Promise!Crash, Promise!Fade
<1>. QED
  BY <1>1, <1>2 DEF Promise!Begin, Promise!End, Promise!GiveUp, Promise!Reply,
     Promise!Leave

(* The server steps are invisible to the promise.                          *)
LEMMA ServerPromise ==
    ASSUME IInv, NEW s \in Servers, ServerStep(s) PROVE Kept
<1>. USE DEF IInv, Base, Service
<1>0. UNCHANGED left
  BY DEF ServerStep, TakeLock, Probe, WriteFile, Loop, Accept, AcceptNone, Join, Drop
<1>1. ASSUME NEW c \in Conns, Accept(s, c) PROVE Kept
  <2>1. /\ conn[c].pc \in {"away", "queued"}
        /\ \/ Turns(c, "away", 0, "none", "none")
           \/ Turns(c, "parse", s, conn[c].child, conn[c].status)
    BY <1>1, AcceptEffect
  <2>2. conn[c].child = "none" /\ conn[c].status = "none"
    BY <2>1, ClientFacts
  <2>. QED  BY <1>0, <2>1, <2>2, ClientFacts, NotAClient DEF Turns, OnlyConn, Kept
<1>2. ASSUME Drop(s) PROVE Kept
  BY <1>0, <1>2, DropEffect, ClientFacts, NotAClient DEF Turns, OnlyConn, Kept
<1>3. ASSUME UNCHANGED conn PROVE Kept
  BY <1>0, <1>3, NotAClient DEF Kept
<1>. QED
  BY <1>1, <1>2, <1>3 DEF ServerStep, TakeLock, Probe, WriteFile, Loop,
     AcceptNone, Join

(* SIGKILL is the crash of the service: the one server was the service.    *)
LEMMA KillPromise ==
    ASSUME IInv, NEW s \in Servers, Kill(s) PROVE Promise!Crash
<1>1. \A c \in Conns : conn[c].pc \in Handled => conn[c].srv = s
  BY ClientFacts DEF IInv, Succession, Alone, Kill
<1>2. \A c \in Conns : conn'[c].child = "none" /\ conn'[c].status = "none"
  <2>. TAKE c \in Conns
  <2>1. CASE c \in Threads(s)
    BY <2>1 DEF Kill, Away
  <2>2. CASE c \notin Threads(s)
    <3>1. conn[c].pc \notin Handled
      BY <1>1, <2>2 DEF Threads, Handled
    <3>2. conn'[c] = conn[c]
      BY <2>2 DEF Kill
    <3>. QED  BY <3>1, <3>2, ClientFacts DEF Handled
  <2>. QED  BY <2>1, <2>2
<1>3. Running # {} <=> \E c \in Threads(s) : conn[c].child = "runs"
  BY <1>1, ClientFacts DEF Running, Threads, Handled, IInv, Base, Service,
     Requests, ConnsTyped, ConnRecord
<1>4. s \notin left
  BY DEF Kill, Alive, IInv, Base, LeftTyped
<1>5. IF Running = {} THEN UNCHANGED left
      ELSE \E t \in Servers \ left : left' = left \cup {t}
  BY <1>3, <1>4 DEF Kill
<1>6. Running' = {} /\ Computed' = {} /\ Told' = [r \in Clients |-> "none"]
  BY <1>2, ClientFacts DEF Running, Computed, Told
<1>. QED  BY <1>5, <1>6, PromiseUnfolds

(* An answer is a reply.                                                   *)
LEMMA ReplyPromise ==
    ASSUME NEW c \in Clients, Clients \subseteq Conns, NEW s, NEW x,
           conn[c].child # "runs", conn[c].status = "none",
           x = "other" \/ (x = "result" /\ conn[c].child = "ok"), UNCHANGED left,
           Turns(c, "respond", s, "none", x)
    PROVE  Promise!Reply(c)
<1>1. /\ Running' = Running \ {c} /\ Computed' = Computed \ {c}
      /\ Told' = [Told EXCEPT ![c] = x]
  BY TurnsOne
<1>2. c \notin Running /\ Told[c] = "none" /\ (x = "result" => c \in Computed)
  BY DEF Running, Computed, Told
<1>3. Running' = Running
  BY <1>1, <1>2
<1>. QED  BY <1>1, <1>2, <1>3, PromiseUnfolds

(* A step of a thread is a step of the promise for its client.             *)
LEMMA ThreadPromise ==
    ASSUME IInv, NEW c \in Conns, ThreadStep(c) \/ ChildEnds(c) PROVE Promised
<1>. USE DEF IInv, Base, Service
<1>1. conn[c].pc \in Handled
  BY DEF ThreadStep, Parse, ParseOther, ParseShutdown, ParseCompute, GiveUp,
     Result, Respond, ChildEnds, Handled
<1>. DEFINE s == conn[c].srv
<1>6. UNCHANGED left
  BY DEF ThreadStep, Parse, ParseOther, ParseShutdown, ParseCompute, GiveUp,
     Result, Respond, ChildEnds
<1>2. s \in Servers
  BY <1>1, ClientFacts
<1>3. \E p, r, k, t : Turns(c, p, r, k, t)
  BY <1>2, AnswersEffect, ParseComputeEffect, RespondEffect, ChildEndsEffect
     DEF ThreadStep, Parse, ParseOther, ParseShutdown, GiveUp, Result
<1>4. CASE c \notin Clients
  BY <1>3, <1>4, <1>6, ClientFacts, NotAClient DEF Turns, OnlyConn, Kept, Promised
<1>5. CASE c \in Clients
  <2>. USE <1>5
  <2>1. /\ \A x : [Told EXCEPT ![c] = x][c] = x
        /\ Told[c] = conn[c].status /\ [Told EXCEPT ![c] = conn[c].status] = Told
        /\ c \in Running <=> conn[c].child = "runs"
        /\ c \in Computed <=> conn[c].child = "ok"
    BY DEF Running, Computed, Told
  <2>2. conn[c].child # "none" => Running \subseteq {c}
    BY <1>1, ClientFacts, OneRuns DEF Running
  <2>3. srv[s].busy = None => Running = {}
    BY <1>1, ClientFacts, OneRuns, GpuAssumption DEF Running
  <2>4. ASSUME ParseOther(c) PROVE Promise!Reply(c)
    <3>1. Turns(c, "respond", s, "none", "other") /\ conn[c].pc = "parse"
      BY <2>4, AnswersEffect DEF ParseOther
    <3>2. conn[c].child = "none" /\ conn[c].status = "none"
      BY <3>1, ClientFacts
    <3>. QED  BY <3>1, <3>2, <1>6, ReplyPromise, ClientFacts
  <2>5. ASSUME ParseCompute(c) PROVE Promise!Reply(c) \/ Promise!Begin(c)
    <3>1. /\ conn[c].pc = "parse"
          /\ \/ Turns(c, "respond", s, "none", "other")
             \/ srv[s].busy = None /\ Turns(c, "watch", s, "runs", conn[c].status)
      BY <1>2, <2>5, ParseComputeEffect
    <3>2. conn[c].child = "none" /\ conn[c].status = "none"
      BY <3>1, ClientFacts
    <3>3. CASE Turns(c, "respond", s, "none", "other")
      BY <3>2, <3>3, <1>6, ReplyPromise, ClientFacts
    <3>4. CASE srv[s].busy = None /\ Turns(c, "watch", s, "runs", conn[c].status)
      <4>2. Running = {} /\ c \notin Computed
        BY <2>1, <2>3, <3>2, <3>4
      <4>3. /\ Running' = Running \cup {c} /\ Computed' = Computed \ {c}
            /\ Told' = [Told EXCEPT ![c] = conn[c].status]
        BY <3>4, TurnsOne, ClientFacts
      <4>1. Running = {} /\ Running' = {c} /\ UNCHANGED <<Computed, Told>>
        BY <2>1, <4>2, <4>3
      <4>. QED  BY <2>1, <3>2, <4>1, <1>6, PromiseUnfolds
    <3>. QED  BY <3>1, <3>3, <3>4
  <2>6. ASSUME ChildEnds(c) PROVE Promise!End(c)
    <3>1. PICK how \in {"ok", "bad"} : Turns(c, "watch", s, how, conn[c].status)
      BY <2>6, ChildEndsEffect
    <3>2. conn[c].child = "runs"
      BY <2>6 DEF ChildEnds
    <3>3. Running = {c} /\ c \notin Computed
      BY <2>1, <2>2, <3>2
    <3>4. /\ Running' = Running \ {c}
          /\ Computed' = IF how = "ok" THEN Computed \cup {c} ELSE Computed \ {c}
          /\ Told' = Told
      BY <2>1, <3>1, TurnsOne, ClientFacts
    <3>5. Running' = {} /\ (Computed' = Computed \cup {c} \/ Computed' = Computed)
      BY <3>3, <3>4
    <3>. QED  BY <3>3, <3>4, <3>5, <1>6, PromiseUnfolds
  <2>7. ASSUME GiveUp(c) PROVE Promise!GiveUp(c)
    <3>1. Turns(c, "respond", s, "none", "other") /\ conn[c].child = "runs"
      BY <2>7, AnswersEffect DEF GiveUp
    <3>2. Running = {c} /\ c \notin Computed
      BY <2>1, <2>2, <3>1
    <3>3. /\ Running' = Running \ {c} /\ Computed' = Computed \ {c}
          /\ Told' = [Told EXCEPT ![c] = "other"]
      BY <3>1, TurnsOne, ClientFacts
    <3>4. Running' = {} /\ Computed' = Computed
      BY <3>2, <3>3
    <3>. QED  BY <3>2, <3>3, <3>4, <1>6, PromiseUnfolds
  <2>8. ASSUME Result(c) PROVE Promise!Reply(c)
    <3>1. conn[c].pc = "watch" /\ conn[c].child # "runs" /\ conn[c].status = "none"
      BY <2>8, ClientFacts DEF Result
    <3>2. \/ conn[c].child = "ok" /\ Turns(c, "respond", s, "none", "result")
          \/ Turns(c, "respond", s, "none", "other")
      BY <2>8, AnswersEffect DEF Result
    <3>. QED  BY <3>1, <3>2, <1>6, ReplyPromise, ClientFacts
  <2>9. ASSUME Respond(c) PROVE Promise!Leave(c)
    <3>1. Turns(c, "away", 0, "none", "none") /\ conn[c].pc = "respond"
      BY <1>2, <2>9, RespondEffect
    <3>2. conn[c].child = "none"
      BY <3>1, ClientFacts
    <3>3. c \notin Running
      BY <2>1, <3>2
    <3>4. /\ Running' = Running \ {c} /\ Computed' = Computed \ {c}
          /\ Told' = [Told EXCEPT ![c] = "none"]
      BY <3>1, TurnsOne, ClientFacts
    <3>5. Running' = Running
      BY <3>3, <3>4
    <3>. QED  BY <3>3, <3>4, <3>5, <1>6, PromiseUnfolds
  <2>10. ~ParseShutdown(c)
    BY ClientFacts DEF ParseShutdown
  <2>. QED
    BY <2>4, <2>5, <2>6, <2>7, <2>8, <2>9, <2>10 DEF ThreadStep, Parse,
       Promised, Promise!Next
<1>. QED  BY <1>4, <1>5

(* Every step is one of the promise, or none.                              *)
LEMMA PromiseStep == ASSUME IInv, [Next]_vars PROVE Promised
<1>1. ASSUME UNCHANGED <<conn, left>> PROVE Promised
  BY <1>1, NotAClient DEF Kept, Promised
<1>2. CASE StopBegin
  <2>1. UNCHANGED left
    BY <1>2 DEF StopBegin
  <2>. QED  BY <1>2, <2>1, StopBeginEffect, ClientFacts, NotAClient DEF IInv, Base,
     Service, Turns, OnlyConn, Kept, Promised
<1>3. CASE HostStep
  <2>1. ASSUME NEW s \in Servers, ServerStep(s) \/ Kill(s) PROVE Promised
    BY <2>1, ServerPromise, KillPromise DEF Promised, Promise!Next
  <2>4. ASSUME NEW s \in Servers, LeftEnds(s) PROVE Promised
    <3>1. Promise!Fade
      BY <2>4, NotAClient, PromiseUnfolds DEF LeftEnds
    <3>. QED  BY <3>1 DEF Promised, Promise!Next
  <2>2. ASSUME NEW c \in Conns, ThreadStep(c) \/ ChildEnds(c) PROVE Promised
    BY <2>2, ThreadPromise
  <2>3. ASSUME VmStarts \/ VmExits PROVE Promised
    BY <1>1, <2>3 DEF VmStarts, VmExits
  <2>. QED  BY <1>3, <2>1, <2>2, <2>3, <2>4 DEF HostStep, ServerNext
<1>. QED
  BY <1>1, <1>2, <1>3 DEF Next, LauncherStep, Enable, Disable, LauncherDies,
     SweepDies, SeeDead, Term, StopFails, Sweep, Launch, Note, Poll, Credentials,
     GuestFiles, Tunnel, Check, vars, server

(* The servers, over all the processes the launcher ever starts, implement *)
(* the service that computes one request at a time and tells a client the  *)
(* result of its own computation only.                                     *)
THEOREM ServesOneAtATimeHolds == ASSUME Cut = FALSE PROVE Spec => ServesOneAtATime
<1>1. Init => Promise!Init
  <2>. HAVE Init
  <2>1. \A c \in Conns : conn[c] = Away
    BY DEF Init, ServerInit
  <2>2. left = {}
    BY DEF Init, ServerInit
  <2>. QED  BY <2>1, <2>2, PromiseUnfolds DEF Running, Computed, Told, Away, Conns
<1>2. IInv /\ [Next]_vars => [Promise!Next]_(Promise!vars)
  BY PromiseStep DEF Promised, Kept, Promise!vars, Running, Computed, Told
<1>. QED  BY <1>1, <1>2, InductiveInvariant, PTL DEF Spec, ServesOneAtATime, Promise!Spec
=============================================================================
