----------------------------- MODULE GpuSharing -----------------------------
(***************************************************************************)
(* Sharing the GPU with Debian (src/lib/gpu.sh): the launcher starts the   *)
(* server of GpuServer, waits for its files, hands its token to the guest  *)
(* and opens a tunnel; to stop sharing it asks the server to end, signals  *)
(* it, and sweeps the state directory when it sees it dead.  The commands  *)
(* enable, disable and stop of the VM exclude each other by control.lock,  *)
(* so there is one launcher; it may be killed at any step.                 *)
(***************************************************************************)
EXTENDS GpuServer

CONSTANTS
    Cut      \* whether the launcher may be killed before it notes its server

ASSUME SharingAssumption == Cut \in BOOLEAN

VARIABLES
    lau,      \* the launcher: its step, what it stops for, what it knows
    guest,    \* whose token the guest has, or 0 for a worthless one
    tunnel    \* the server the tunnel leads to, or 0

vars == <<server, lau, guest, tunnel>>

Idle == [pc |-> "idle", for |-> "none", pid |-> 0, result |-> "none"]

Init ==
    /\ ServerInit
    /\ lau = Idle
    /\ guest = 0 /\ tunnel = 0

-----------------------------------------------------------------------------
(* What the launcher sees.                                                 *)

(* Mutant: a server that has not written its own pid is not looked for.    *)
NamedReady == files["server.pid"]

(* The process named by server.pid, otherwise by launcher.pid.             *)
Named == IF files["server.pid"] # 0 THEN files["server.pid"] ELSE files["launcher.pid"]
SeenAlive == Named # 0 /\ Alive(Named)

Shared == vm # 0 /\ files["server.ready"] # 0 /\ SeenAlive /\ tunnel # 0

At(pc) == lau' = [lau EXCEPT !.pc = pc]
Ends(result) == lau' = [Idle EXCEPT !.result = result]

(* enable that fails stops the service again.                              *)
Fails == lau' = [Idle EXCEPT !.pc = "stop", !.for = "failed"]
StopGivesUp == IF lau.for = "enable" THEN Fails ELSE Ends("none")

-----------------------------------------------------------------------------
(* The commands.                                                           *)

Enable ==
    /\ lau.pc = "idle" /\ vm # 0 /\ ~Shared
    /\ \E s \in Servers : srv[s].pc = "none"
    /\ lau' = [Idle EXCEPT !.pc = "stop", !.for = "enable"]
    /\ UNCHANGED <<server, guest, tunnel>>

Disable ==
    /\ lau.pc = "idle" /\ lau.result # "off"
    /\ lau' = [Idle EXCEPT !.pc = "stop", !.for = "disable"]
    /\ UNCHANGED <<server, guest, tunnel>>

(* gpu_stop_service.  The pid is read once, before the wait.  The request  *)
(* to end is sent if port and token are there; the wait for its reply is   *)
(* part of the wait for the end of the server.                             *)
StopBegin ==
    /\ lau.pc = "stop"
    /\ lau' = IF SeenAlive THEN [lau EXCEPT !.pc = "ask", !.pid = Named]
              ELSE [lau EXCEPT !.pc = "sweep"]
    /\ conn' = IF /\ SeenAlive
                  /\ files["server.port"] # 0
                  /\ files["curl.conf"] = files["server.port"]
                  /\ conn[Control].pc = "away"
               THEN [conn EXCEPT ![Control].pc = "queued"]
               ELSE conn
    /\ UNCHANGED <<vm, vms, srv, files, killed, left, guest, tunnel>>

SeeDead ==
    /\ lau.pc \in {"ask", "term"}
    /\ ~SeenAlive
    /\ lau' = [lau EXCEPT !.pc = "sweep", !.pid = 0]
    /\ UNCHANGED <<server, guest, tunnel>>

(* Three seconds have passed: SIGTERM, which may find the process gone.    *)
Term ==
    /\ lau.pc = "ask" /\ SeenAlive
    /\ IF Alive(lau.pid)
       THEN Signalled(lau.pid) /\ At("term")
       ELSE StopGivesUp /\ UNCHANGED srv
    /\ UNCHANGED <<vm, vms, conn, files, killed, left, guest, tunnel>>

(* Mutant: the files are removed however the wait ended.                   *)
StopGoesOn ==
    /\ lau.pc = "term" /\ SeenAlive
    /\ At("sweep")
    /\ UNCHANGED <<server, guest, tunnel>>

(* Three seconds more.                                                     *)
StopFails ==
    /\ lau.pc = "term" /\ SeenAlive
    /\ StopGivesUp
    /\ UNCHANGED <<server, guest, tunnel>>

(* Nobody is alive: the tunnel is closed and every file removed, by one rm *)
(* that goes through them in this order.  A token left in a guest that     *)
(* cannot be reached is accepted by nobody now.                            *)
Swept == <<"token", "curl.conf", "server.port", "server.pid", "launcher.pid",
           "server.ready", "server.lock">>

Sweep ==
    /\ lau.pc = "sweep"
    /\ tunnel' = 0 /\ guest' = 0
    /\ files' = [f \in Files |-> 0]
    /\ CASE lau.for = "enable" -> At("spawn")
         [] lau.for = "disable" -> Ends("off")
         [] OTHER -> Ends("none")
    /\ UNCHANGED <<vm, vms, srv, conn, killed, left>>

-----------------------------------------------------------------------------
(* gpu_enable_inner, after the former service is stopped.                  *)

Launch ==
    /\ lau.pc = "spawn"
    /\ \E s \in Servers :
          /\ srv[s].pc = "none"
          /\ \A r \in 1 .. s - 1 : srv[r].pc # "none"
          /\ srv' = [srv EXCEPT ![s] = [NoServer EXCEPT !.pc = "boot", !.watch = vms]]
          /\ lau' = [lau EXCEPT !.pc = "note", !.pid = s]
    /\ UNCHANGED <<vm, vms, conn, files, killed, left, guest, tunnel>>

Note ==
    /\ lau.pc = "note"
    /\ files' = [files EXCEPT !["launcher.pid"] = lau.pid]
    /\ At("poll")
    /\ UNCHANGED <<vm, vms, srv, conn, killed, left, guest, tunnel>>

(* The poll ends when the server is ready, gone, or late.                  *)
Poll ==
    /\ lau.pc = "poll"
    /\ \/ files["server.ready"] # 0 /\ IF SeenAlive THEN At("creds") ELSE Fails
       \/ files["server.ready"] = 0 /\ Fails
    /\ UNCHANGED <<server, guest, tunnel>>

(* Port and token are read, curl.conf is written.                          *)
Credentials ==
    /\ lau.pc = "creds"
    /\ IF files["server.port"] # 0 /\ files["token"] # 0
       THEN /\ files' = [files EXCEPT !["curl.conf"] = files["token"]]
            /\ lau' = [lau EXCEPT !.pc = "guest", !.pid = files["server.port"]]
       ELSE Fails /\ UNCHANGED files
    /\ UNCHANGED <<vm, vms, srv, conn, killed, left, guest, tunnel>>

(* The guest's files, or an SSH error.                                     *)
GuestFiles ==
    /\ lau.pc = "guest"
    /\ \/ vm # 0 /\ guest' = files["curl.conf"] /\ At("tunnel")
       \/ Fails /\ UNCHANGED guest
    /\ UNCHANGED <<server, tunnel>>

Tunnel ==
    /\ lau.pc = "tunnel"
    /\ \/ vm # 0 /\ tunnel' = lau.pid /\ At("check")
       \/ Fails /\ UNCHANGED tunnel
    /\ UNCHANGED <<server, guest>>

(* The guest reaches the server, and all of gpu_shared holds.              *)
Check ==
    /\ lau.pc = "check"
    /\ IF Shared THEN Ends("shared") ELSE Fails
    /\ UNCHANGED <<server, guest, tunnel>>

-----------------------------------------------------------------------------
(* The launcher is killed; the operator removes its control.lock.          *)
LauncherDies ==
    /\ lau.pc # "idle"
    /\ lau.pc = "note" => Cut
    /\ Ends("none")
    /\ UNCHANGED <<server, guest, tunnel>>

(* It is killed in the middle of the sweep.                                *)
SweepDies ==
    /\ lau.pc = "sweep"
    /\ Ends("none")
    /\ tunnel' = 0
    /\ \E n \in 1 .. Len(Swept) :
          files' = [f \in Files |-> IF \E i \in 1 .. n : Swept[i] = f
                                   THEN 0 ELSE files[f]]
    /\ UNCHANGED <<vm, vms, srv, conn, killed, left, guest>>

(* With QEMU goes the tunnel through it.                                   *)
HostStep ==
    /\ ServerNext
    /\ tunnel' = IF vm' = 0 THEN 0 ELSE tunnel
    /\ UNCHANGED <<lau, guest>>

LauncherStep ==
    StopBegin \/ SeeDead \/ Term \/ StopFails \/ Sweep \/ Launch \/ Note
    \/ Poll \/ Credentials \/ GuestFiles \/ Tunnel \/ Check

Next == Enable \/ Disable \/ LauncherStep \/ LauncherDies \/ SweepDies \/ HostStep

Spec == Init /\ [][Next]_vars

FairSpec == Spec /\ ServerFairness

-----------------------------------------------------------------------------
(* Properties.                                                             *)

ServerRecord ==
    [pc : {"none", "boot", "probe", "write", "loop", "accept", "join", "drop", "gone",
           "killed"},
     watch : 0 .. MaxVm, stop : BOOLEAN, wrote : 0 .. Len(Written),
     threads : SUBSET Conns, busy : Conns \cup {None}]

ServersTyped ==
    /\ vm \in {0, vms} /\ vms \in 0 .. MaxVm /\ killed \in 0 .. Kills
    /\ srv \in [Servers -> ServerRecord]

ConnRecord ==
    [pc : {"away", "queued", "parse", "watch", "respond"}, srv : 0 .. MaxServer,
     child : {"none", "runs", "ok", "bad"},
     status : {"none", "result", "other", "shutdown"}]

ConnsTyped == conn \in [Conns -> ConnRecord]

FilesTyped == files \in [Files -> 0 .. MaxServer]

LauncherTyped ==
    /\ lau \in [pc : {"idle", "stop", "ask", "term", "sweep", "spawn", "note",
                      "poll", "creds", "guest", "tunnel", "check"},
                for : {"none", "enable", "disable", "failed"}, pid : 0 .. MaxServer,
                result : {"none", "shared", "off"}]
    /\ guest \in 0 .. MaxServer /\ tunnel \in 0 .. MaxServer

(* No more threads than Limit, the busy lock held by a thread of its       *)
(* server.                                                                 *)
Limited ==
    \A s \in Servers : /\ Cardinality(Threads(s)) <= Limit
                       /\ srv[s].busy \in Threads(s) \cup {None}

LeftTyped == left \subseteq {s \in Servers : srv[s].pc = "killed"}

(* Types; and the limits of every server.                                  *)
TypeOK ==
    ServersTyped /\ ConnsTyped /\ FilesTyped /\ LauncherTyped /\ LeftTyped /\ Limited

(* The promise of the service, over every server the launcher ever starts: *)
(* one computation at a time for the clients, beside which only those of   *)
(* servers killed in the middle of one still go on.                        *)
Promise == INSTANCE OneAtATime WITH
    Requests <- Clients, Services <- Servers,
    running <- {c \in Clients : conn[c].child = "runs"},
    computed <- {c \in Clients : conn[c].child = "ok"},
    reply <- [c \in Clients |-> conn[c].status]

ServesOneAtATime == Promise!Spec

(* While the launcher sweeps the state directory, and until it has started *)
(* the next server, no server lives: one that it merely does not see would *)
(* lose its files, server.lock included, and serve on unseen.              *)
SweepsTheDead == lau.pc \in {"sweep", "spawn"} => Live = {}

(* A server that ends removes only files that it created                   *)
(* (gpu/README.md: "removes only state files created by this server").     *)
RemovesOwnOnly ==
    [][\A s \in Servers, f \in Files :
          srv[s].pc = "drop" /\ srv'[s] # srv[s] /\ files'[f] # files[f]
             => files[f] = s]_vars

(* server.lock stays while the server has a thread, and a server that ended *)
(* by itself leaves neither a thread nor a computation nor a file.         *)
Orderly ==
    \A s \in Servers :
       /\ Threads(s) # {} => files["server.lock"] = s
       /\ srv[s].pc = "gone" => \A i \in 1 .. Len(Written) : files[Written[i]] # s

(* When enable says that the GPU is shared, launcher, guest and tunnel have *)
(* the credentials of one server, and no other server lives; when disable  *)
(* says that it is not, no server lives and no file is left.               *)
WhatItSays ==
    /\ lau.result = "shared" =>
          \E s \in Servers : /\ files["curl.conf"] = s /\ guest = s
                             /\ tunnel \in {0, s} /\ Live \subseteq {s}
    /\ lau.result = "off" => Live = {} /\ tunnel = 0 /\ \A f \in Files : files[f] = 0

(* A server that is asked to end, signalled, or whose QEMU is gone, ends,  *)
(* whatever its threads were doing: none stays in that state for ever.     *)
Ending(s) == Alive(s) /\ (srv[s].stop \/ srv[s].watch # vm)

ShutdownEnds == []<>(\A s \in Servers : ~Ending(s))
=============================================================================
