------------------------------ MODULE Recovery ------------------------------
(***************************************************************************)
(* The state directory of the Windows launcher and the commands that move  *)
(* whole files in it: init, start, stop, restore, sync-kernel and resize   *)
(* (src/windows/main_windows.go, restore_windows.go, durable_windows.go).  *)
(*                                                                         *)
(* Every command runs under the kernel lock "control", so at most one is   *)
(* in progress; it advances one durable file operation per step, and it    *)
(* may be cut short between any two of them, by an error return, the death *)
(* of the launcher or a power loss (Abort).  What the next command finds   *)
(* is what the files say.  QEMU and the guest run beside the commands.     *)
(***************************************************************************)
EXTENDS Naturals, Sequences, FiniteSets

CONSTANTS
    Commands,    \* the commands the operator issues
    PendingCommands,  \* those he issues while a restore is pending
    MaxStamp,    \* bound: disk states the guest writes
    MaxKernel,   \* bound: kernel versions the guest installs
    MaxSnap,     \* bound: recovery points taken
    MaxRestore,  \* bound: restore commands accepted
    Retention,   \* recovery points kept (3 in the code)
    None         \* an absent file or journal

AllCommands == {"init", "start", "stop", "restore", "sync-kernel", "resize"}

ASSUME BoundsAssumption ==
    /\ Commands \subseteq AllCommands /\ PendingCommands \subseteq Commands
    /\ MaxStamp \in Nat /\ MaxKernel \in Nat \ {0}
    /\ MaxSnap \in Nat /\ MaxRestore \in Nat
    /\ Retention \in Nat \ {0}

(* Files of the state directory.  "kupd" is kernel-update.json, "knext"    *)
(* and "inext" are kernel.next and initramfs.next.                         *)
BackupFiles == {"disk", "kernel", "initramfs"}
Files == BackupFiles \cup {"kupd", "knext", "inext"}

(* The orders in which restore, init and the kernel update visit files.    *)

(* Mutant: a staged update survives the restore of an older disk.          *)
RestoreOrderUnstaged == <<"disk", "kernel", "initramfs">>

RestoreOrder == <<"disk", "kernel", "initramfs", "kupd", "knext", "inext">>

(* Mutant: the disk is committed first.                                    *)
InstallDiskFirst == <<"disk", "kernel", "initramfs">>

InstallOrder == <<"kernel", "initramfs", "disk">>
UpdateOrder  == <<"kernel", "initramfs">>
Staged(f) == IF f = "kernel" THEN "knext" ELSE "inext"

(* Contents.  A kernel or initramfs is its version; a disk is the stamp of *)
(* the last guest write, the newest kernel installed in it and its virtual *)
(* size; kernel-update.json is the pair of hashes of the staged files.     *)
Versions == 1 .. MaxKernel
Disks    == [stamp : 0 .. MaxStamp, k : Versions, size : {1, 2}]
Content(f) == CASE f = "disk" -> Disks
                [] f = "kupd" -> Versions \X Versions
                [] OTHER      -> Versions
SnapIds == 1 .. MaxSnap
PrevIds == 1 .. MaxRestore
Generation == [disk : Disks, kernel : Versions, initramfs : Versions]

ASSUME NoneAssumption ==
    /\ \A f \in Files : None \notin Content(f)
    /\ None \notin [snap : SnapIds, prev : PrevIds]
    /\ None \notin Generation
    /\ None \notin [kernel : Versions, initramfs : Versions, k : Versions]

Nothing == [f \in Files |-> None]
BaseImage == [disk |-> [stamp |-> 0, k |-> 1, size |-> 1],
              kernel |-> 1, initramfs |-> 1]

Fresh == [f \in Files |-> IF f \in BackupFiles THEN BaseImage[f] ELSE None]

VARIABLES
    live,     \* file of the state directory -> its content or None
    prev,     \* before-restore directory -> its files
    journal,  \* restore-pending.json: [snap, prev] or None
    snaps,    \* published recovery points, by id
    bad,      \* recovery points whose files no longer match their hashes
    vm,       \* QEMU: "off", "unrecorded" (no process.json yet), "recorded"
    op,       \* the command holding the control lock, or "none"
    pc,       \* its next step
    at,       \* its position in the file order it is walking
    nstamp, nsnap, nrestore,  \* counters behind fresh stamps and ids
    booted,   \* history: what the QEMU now running was started from, or None
    pairs,    \* history: kernel/initramfs pairs delivered as one unit
    owed,     \* history: disk states of the guest nobody superseded
    before    \* history: the live files when the pending restore was accepted

store   == <<live, prev, journal>>
points  == <<snaps, bad, nsnap>>
command == <<op, pc, at>>
history == <<booted, pairs, owed, before>>
vars == <<live, prev, journal, snaps, bad, vm, op, pc, at,
          nstamp, nsnap, nrestore, booted, pairs, owed, before>>

Init ==
    /\ live \in {Nothing, Fresh}
    /\ prev = [p \in PrevIds |-> Nothing]
    /\ journal = None
    /\ snaps = [s \in {} |-> None]
    /\ bad = {}
    /\ vm = "off"
    /\ op = "none" /\ pc = "idle" /\ at = 1
    /\ nstamp = 0 /\ nsnap = 0 /\ nrestore = 0
    /\ booted = None
    /\ pairs = {<<1, 1>>}
    /\ owed = {}
    /\ before = Nothing

-----------------------------------------------------------------------------
(* Helpers.                                                                *)

(* running(): process.json names a live process of the recorded identity.  *)
Running == vm = "recorded"

(* QEMU keeps its disk and initramfs open without delete sharing, so on    *)
(* Windows a rename from or over either of them fails.                     *)
Held(f) == vm # "off" /\ f \in {"disk", "initramfs"}

(* validateCheckpoint: the manifest is there and every hash matches.       *)
ValidPoint(s) == s \in DOMAIN snaps /\ s \notin bad

(* The operator issues a command; lock("control") refuses it at once while *)
(* another command holds it.                                               *)
Issued(c) ==
    /\ op = "none"
    /\ c \in IF journal = None THEN Commands ELSE PendingCommands
Acquire(c, step) ==
    /\ Issued(c)
    /\ op' = c /\ pc' = step /\ at' = 1

(* Mutant: the command ends but its program counter stays.                 *)
ReleaseInPlace == op' = "none" /\ pc' = pc /\ at' = 1

Release == op' = "none" /\ pc' = "idle" /\ at' = 1
Goto(step) == op' = op /\ pc' = step /\ at' = 1

(* Mutant: the last file of an order is forgotten.                         *)
AdvanceEarly(order, step, after) ==
    IF at + 1 < Len(order)
    THEN op' = op /\ pc' = step /\ at' = at + 1
    ELSE Goto(after)

(* Process the next file of an order, or go on to the step behind it.      *)
Advance(order, step, after) ==
    IF at < Len(order)
    THEN op' = op /\ pc' = step /\ at' = at + 1
    ELSE Goto(after)

(* What follows applyKernelUpdate in start and in stop.                    *)
AfterUpdate == IF op = "start" THEN Goto("boot") ELSE Release

-----------------------------------------------------------------------------
(* init: refused when a disk exists; files are staged and verified aside,  *)
(* then renamed into place, the disk last.                                 *)

InitBegin ==
    /\ live["disk"] = None
    /\ Acquire("init", "install")
    /\ UNCHANGED <<store, points, vm, nstamp, nrestore, history>>

InstallFile ==
    LET f == InstallOrder[at] IN
    /\ pc = "install"
    /\ ~Held(f)
    /\ live' = [live EXCEPT ![f] = BaseImage[f]]
    /\ IF at < Len(InstallOrder)
       THEN op' = op /\ pc' = pc /\ at' = at + 1
       ELSE Release
    /\ UNCHANGED <<prev, journal, points, vm, nstamp, nrestore, history>>

-----------------------------------------------------------------------------
(* restore ID: VM off, no journal, the point validates; commit the journal *)
(* and apply it.                                                           *)

(* Mutant: a restore is accepted while the VM runs.                        *)
RestoreWhileRunning(s) ==
    /\ journal = None
    /\ ValidPoint(s)
    /\ nrestore < MaxRestore
    /\ Acquire("restore", "validate")
    /\ journal' = [snap |-> s, prev |-> nrestore + 1]
    /\ nrestore' = nrestore + 1
    /\ before' = live
    /\ UNCHANGED <<live, prev, points, vm, nstamp, booted, pairs, owed>>

RestoreBegin(s) ==
    /\ ~Running
    /\ journal = None
    /\ ValidPoint(s)
    /\ nrestore < MaxRestore
    /\ Acquire("restore", "validate")
    /\ journal' = [snap |-> s, prev |-> nrestore + 1]
    /\ nrestore' = nrestore + 1
    /\ before' = live
    /\ UNCHANGED <<live, prev, points, vm, nstamp, booted, pairs, owed>>

(* applyRestore: without a journal there is nothing to do; with one, the   *)
(* point is validated again before any file moves.                         *)

(* Mutant: a before-restore directory already begun is an error.           *)
ValidateOnce ==
    /\ pc = "validate"
    /\ IF journal = None
       THEN Goto("verify")
       ELSE prev[journal.prev] = Nothing /\ Goto("save")
    /\ UNCHANGED <<store, points, vm, nstamp, nrestore, history>>

Validate ==
    /\ pc = "validate"
    /\ IF journal = None
       THEN Goto("verify")
       ELSE ValidPoint(journal.snap) /\ Goto("save")
    /\ UNCHANGED <<store, points, vm, nstamp, nrestore, history>>

(* Mutant: what was saved before an interruption is overwritten.           *)
SaveAgain ==
    LET f == RestoreOrder[at]
        p == journal.prev IN
    /\ pc = "save"
    /\ IF live[f] # None
       THEN /\ ~Held(f)
            /\ prev' = [prev EXCEPT ![p][f] = live[f]]
            /\ live' = [live EXCEPT ![f] = None]
       ELSE UNCHANGED <<prev, live>>
    /\ IF f \in BackupFiles
       THEN op' = op /\ pc' = "copy" /\ at' = at
       ELSE Advance(RestoreOrder, "save", "clear")
    /\ UNCHANGED <<journal, points, vm, nstamp, nrestore, history>>

(* Move the old file aside, once: only if the directory does not have it.  *)
Save ==
    LET f == RestoreOrder[at]
        p == journal.prev IN
    /\ pc = "save"
    /\ IF prev[p][f] = None /\ live[f] # None
       THEN /\ ~Held(f)
            /\ prev' = [prev EXCEPT ![p][f] = live[f]]
            /\ live' = [live EXCEPT ![f] = None]
       ELSE UNCHANGED <<prev, live>>
    /\ IF f \in BackupFiles
       THEN op' = op /\ pc' = "copy" /\ at' = at
       ELSE Advance(RestoreOrder, "save", "clear")
    /\ UNCHANGED <<journal, points, vm, nstamp, nrestore, history>>

(* Mutant: a file that is already in place is taken for a copy made before *)
(* an interruption.                                                        *)
CopyOnce ==
    LET f == RestoreOrder[at] IN
    /\ pc = "copy"
    /\ ~Held(f)
    /\ live' = IF live[f] = None
               THEN [live EXCEPT ![f] = snaps[journal.snap][f]] ELSE live
    /\ Advance(RestoreOrder, "save", "clear")
    /\ UNCHANGED <<prev, journal, points, vm, nstamp, nrestore, history>>

(* Copy the point's file beside the live one, sync it, rename it over.     *)
Copy ==
    LET f == RestoreOrder[at] IN
    /\ pc = "copy"
    /\ ~Held(f)
    /\ live' = [live EXCEPT ![f] = snaps[journal.snap][f]]
    /\ Advance(RestoreOrder, "save", "clear")
    /\ UNCHANGED <<prev, journal, points, vm, nstamp, nrestore, history>>

(* Remove the journal: the restore is complete.                            *)
ClearJournal ==
    /\ pc = "clear"
    /\ journal' = None
    /\ IF op = "start" THEN Goto("verify") ELSE Release
    /\ before' = Nothing
    /\ UNCHANGED <<live, prev, points, vm, nstamp, nrestore,
                   booted, pairs, owed>>

-----------------------------------------------------------------------------
(* applyKernelUpdate, called by start and stop with the VM off.            *)

(* Both staged files must match the recorded hashes.                       *)
VerifyUpdate ==
    /\ pc = "verify"
    /\ IF live["kupd"] = None
       THEN AfterUpdate
       ELSE live["kupd"] = <<live["knext"], live["inext"]>> /\ Goto("apply")
    /\ UNCHANGED <<store, points, vm, nstamp, nrestore, history>>

(* Replace one live file by a copy of the staged one.                      *)
ApplyFile ==
    LET f == UpdateOrder[at] IN
    /\ pc = "apply"
    /\ ~Held(f)
    /\ live' = [live EXCEPT ![f] = live[Staged(f)]]
    /\ Advance(UpdateOrder, "apply", "unstage")
    /\ UNCHANGED <<prev, journal, points, vm, nstamp, nrestore, history>>

Unstage ==
    /\ pc = "unstage"
    /\ live' = [live EXCEPT !["kupd"] = None]
    /\ Goto("clean")
    /\ UNCHANGED <<prev, journal, points, vm, nstamp, nrestore, history>>

(* The staged originals are removed last, and failures are ignored.        *)
CleanNext ==
    /\ pc = "clean"
    /\ \E gone \in SUBSET {"knext", "inext"} :
          live' = [f \in Files |-> IF f \in gone THEN None ELSE live[f]]
    /\ AfterUpdate
    /\ UNCHANGED <<prev, journal, points, vm, nstamp, nrestore, history>>

-----------------------------------------------------------------------------
(* start: with QEMU off, complete a pending restore, apply a staged kernel *)
(* update, check the files and the disk, launch, record the process.  A    *)
(* running VM only gets its workers, which move no file.                   *)

(* Mutant: start does not look for a pending restore.                      *)
StartUnrestored ==
    /\ ~Running
    /\ Acquire("start", "verify")
    /\ UNCHANGED <<store, points, vm, nstamp, nrestore, history>>

StartBegin ==
    /\ ~Running
    /\ Acquire("start", "validate")
    /\ UNCHANGED <<store, points, vm, nstamp, nrestore, history>>

(* The three files exist and qemu-img can open the disk, which it cannot   *)
(* while another QEMU holds it; then the process exists, unrecorded.       *)
Boot ==
    /\ pc = "boot"
    /\ \A f \in BackupFiles : live[f] # None
    /\ vm = "off"
    /\ vm' = "unrecorded"
    /\ booted' = [kernel |-> live["kernel"], initramfs |-> live["initramfs"],
                  k |-> live["disk"].k]
    /\ Goto("record")
    /\ UNCHANGED <<store, points, nstamp, nrestore, pairs, owed, before>>

(* process.json is written; a QEMU that already died is not running.       *)
Record ==
    /\ pc = "record"
    /\ vm' = IF vm = "off" THEN "off" ELSE "recorded"
    /\ Release
    /\ UNCHANGED <<store, points, nstamp, nrestore, history>>

(* It cannot be written: the process just launched is killed.              *)
RecordFails ==
    /\ pc = "record"
    /\ vm' = "off" /\ booted' = None
    /\ Release
    /\ UNCHANGED <<store, points, nstamp, nrestore, pairs, owed, before>>

-----------------------------------------------------------------------------
(* stop: asks the guest to power off and waits, or finds it off; then the  *)
(* staged kernel update is applied.  A pending restore is not looked at.   *)

StopBegin ==
    /\ Acquire("stop", IF Running THEN "off" ELSE "verify")
    /\ UNCHANGED <<store, points, vm, nstamp, nrestore, history>>

StopSeesOff ==
    /\ pc = "off"
    /\ ~Running
    /\ Goto("verify")
    /\ UNCHANGED <<store, points, vm, nstamp, nrestore, history>>

-----------------------------------------------------------------------------
(* sync-kernel: refused while an update is staged; fetches the guest's two *)
(* files one after the other over SSH, then commits their hashes.  Each    *)
(* staged file is truncated before the VM is contacted.                    *)

SyncBegin ==
    /\ live["kupd"] = None
    /\ Acquire("sync-kernel", "fetch")
    /\ live' = [live EXCEPT !["knext"] = None]
    /\ UNCHANGED <<prev, journal, points, vm, nstamp, nrestore, history>>

SyncFetch ==
    LET f == UpdateOrder[at] IN
    /\ pc = "fetch"
    /\ Running
    /\ live' = [live EXCEPT ![Staged(f)] = live["disk"].k,
                           !["inext"] = IF f = "kernel" THEN None ELSE live["disk"].k]
    /\ Advance(UpdateOrder, "fetch", "stage")
    /\ UNCHANGED <<prev, journal, points, vm, nstamp, nrestore, history>>

(* The fetch fails: the truncated file is removed.                         *)
SyncFetchFails ==
    /\ pc = "fetch"
    /\ live' = [live EXCEPT ![Staged(UpdateOrder[at])] = None]
    /\ Release
    /\ UNCHANGED <<prev, journal, points, vm, nstamp, nrestore, history>>

SyncStage ==
    LET pair == <<live["knext"], live["inext"]>> IN
    /\ pc = "stage"
    /\ live' = [live EXCEPT !["kupd"] = pair]
    /\ pairs' = pairs \cup {pair}
    /\ Release
    /\ UNCHANGED <<prev, journal, points, vm, nstamp, nrestore,
                   booted, owed, before>>

-----------------------------------------------------------------------------
(* resize: VM off, grow only, one qemu-img call on the live disk; whether  *)
(* a restore is pending is not looked at.                                  *)
Resize ==
    /\ Issued("resize")
    /\ vm = "off"      \* not running, and qemu-img can open the disk
    /\ live["disk"] # None /\ live["disk"].size = 1
    /\ live' = [live EXCEPT !["disk"] = [@ EXCEPT !.size = 2]]
    /\ UNCHANGED <<prev, journal, points, vm, command, nstamp, nrestore,
                   booted, pairs, owed, before>>

-----------------------------------------------------------------------------
(* A command ends before its last step: an error return, the death of the  *)
(* launcher, a power loss, the 120 s of stop.  Nothing is rolled back and  *)
(* the lock is free.                                                       *)
Abort ==
    /\ op # "none"
    /\ Release
    /\ UNCHANGED <<store, points, vm, nstamp, nrestore, history>>

-----------------------------------------------------------------------------
(* Around the commands.                                                    *)

(* QEMU ends: the guest powers off, QEMU fails or is killed.               *)
VmExit ==
    /\ vm # "off"
    /\ vm' = "off" /\ booted' = None
    /\ UNCHANGED <<store, points, command, nstamp, nrestore,
                   pairs, owed, before>>

(* The guest writes, perhaps installing the next kernel.  Its disk state   *)
(* supersedes the one it grew from; a restore that has been journalled but *)
(* has not moved this disk yet will preserve the newer one.                *)
GuestWrite(k) ==
    LET old == live["disk"].stamp IN
    /\ vm # "off"
    /\ nstamp < MaxStamp
    /\ k \in {live["disk"].k, live["disk"].k + 1} \cap Versions
    /\ nstamp' = nstamp + 1
    /\ live' = [live EXCEPT !["disk"] = [@ EXCEPT !.stamp = nstamp + 1, !.k = k]]
    /\ owed' = (owed \ {old}) \cup {nstamp + 1}
    /\ before' = IF journal = None THEN before
                 ELSE [before EXCEPT !["disk"] = live'["disk"]]
    /\ UNCHANGED <<prev, journal, points, vm, command, nrestore,
                   booted, pairs>>

(* backup, abstracted to its effect (module Backup has its steps): under   *)
(* the control lock and with the VM running, the disk and the guest's own  *)
(* kernel and initramfs become a new point, and the oldest beyond the      *)
(* retention goes.                                                         *)
TakeBackup ==
    LET k == live["disk"].k
        new == [disk |-> live["disk"], kernel |-> k, initramfs |-> k]
        kept == {s \in DOMAIN snaps : s + Retention > nsnap + 1}
    IN  /\ op = "none"
        /\ Running
        /\ nsnap < MaxSnap
        /\ nsnap' = nsnap + 1
        /\ snaps' = [s \in kept \cup {nsnap + 1} |->
                        IF s = nsnap + 1 THEN new ELSE snaps[s]]
        /\ bad' = bad \cap kept
        /\ pairs' = pairs \cup {<<k, k>>}
        /\ UNCHANGED <<store, vm, command, nstamp, nrestore,
                       booted, owed, before>>

(* A file of a point decays on the host's disk.  Not between a command's   *)
(* validation of the point and its copying: the code reads it twice.       *)
Decay(s) ==
    /\ op = "none"
    /\ s \in DOMAIN snaps
    /\ bad' = bad \cup {s}
    /\ UNCHANGED <<store, snaps, nsnap, vm, command, nstamp, nrestore, history>>

-----------------------------------------------------------------------------
ApplyRestore == Validate \/ Save \/ Copy \/ ClearJournal
ApplyKernelUpdate == VerifyUpdate \/ ApplyFile \/ Unstage \/ CleanNext
CommandStep ==
    \/ InstallFile
    \/ ApplyRestore
    \/ ApplyKernelUpdate
    \/ Boot \/ Record \/ RecordFails
    \/ StopSeesOff
    \/ SyncFetch \/ SyncFetchFails \/ SyncStage
CommandBegin ==
    \/ InitBegin \/ StartBegin \/ StopBegin \/ SyncBegin \/ Resize
    \/ \E s \in SnapIds : RestoreBegin(s)
Environment ==
    \/ VmExit
    \/ \E k \in Versions : GuestWrite(k)
    \/ TakeBackup
    \/ \E s \in SnapIds : Decay(s)

Next == CommandBegin \/ CommandStep \/ Abort \/ Environment

Spec == Init /\ [][Next]_vars

-----------------------------------------------------------------------------
(* Properties.                                                             *)

(* Every variable has its type: contents of the right kind in every file,  *)
(* directory and point, and a program counter of the command in progress.  *)
IsFileMap(m) ==
    /\ m = [f \in Files |-> m[f]]
    /\ \A f \in Files : m[f] \in Content(f) \cup {None}
StoreTyped ==
    /\ IsFileMap(live)
    /\ DOMAIN prev = PrevIds /\ \A p \in PrevIds : IsFileMap(prev[p])
    /\ journal \in [snap : SnapIds, prev : PrevIds] \cup {None}
PointsTyped ==
    /\ DOMAIN snaps \subseteq SnapIds
    /\ \A s \in DOMAIN snaps : snaps[s] \in Generation
    /\ bad \subseteq DOMAIN snaps
CommandTyped ==
    /\ op \in Commands \cup {"none"}
    /\ pc \in {"idle", "install", "validate", "save", "copy", "clear", "verify",
              "apply", "unstage", "clean", "boot", "record", "off", "fetch", "stage"}
    /\ (op = "none") <=> (pc = "idle")
    /\ at \in 1 .. Len(RestoreOrder)
CountersTyped ==
    /\ vm \in {"off", "unrecorded", "recorded"}
    /\ nstamp \in 0 .. MaxStamp /\ nsnap \in 0 .. MaxSnap
    /\ nrestore \in 0 .. MaxRestore
HistoryTyped ==
    /\ booted \in [kernel : Versions, initramfs : Versions, k : Versions] \cup {None}
    /\ pairs \subseteq Versions \X Versions
    /\ owed \subseteq 0 .. MaxStamp
    /\ IsFileMap(before)
TypeOK ==
    StoreTyped /\ PointsTyped /\ CommandTyped /\ CountersTyped /\ HistoryTyped

(* Whatever was interrupted before, QEMU is only ever started from a       *)
(* kernel and initramfs that were delivered together (by the image, one    *)
(* point or one staged update), and from a kernel that the disk it boots   *)
(* has installed: a half-applied restore or update is never booted, and an *)
(* update staged for a newer disk is not applied to a restored older one.  *)
BootConsistent ==
    booted # None =>
        /\ <<booted.kernel, booted.initramfs>> \in pairs
        /\ booted.kernel <= booted.k

(* No VM the launcher knows of runs while a restore is pending: neither    *)
(* restore under a running VM nor a boot before the restore is complete.   *)
NoPendingWhileRunning == Running => journal = None

(* The point a pending restore copies from is never removed by retention.  *)
PendingSourceKept == journal # None => journal.snap \in DOMAIN snaps

(* A disk state the guest left behind is never overwritten by anything but *)
(* the guest: it is the live disk or lies in a before-restore directory,   *)
(* however often a restore or an init is interrupted and repeated.         *)
Preserved(stamp) ==
    \/ live["disk"] # None /\ live["disk"].stamp = stamp
    \/ \E p \in PrevIds : prev[p]["disk"] # None /\ prev[p]["disk"].stamp = stamp
DiskNeverLost == \A stamp \in owed : Preserved(stamp)

(* kernel-update.json leaves the state directory only once both files it   *)
(* names are in place, or together with the old generation into a          *)
(* before-restore directory.                                               *)
StagedUntilApplied ==
    [][ (live["kupd"] # None /\ live'["kupd"] = None) =>
          \/ live["kupd"] = <<live'["kernel"], live'["initramfs"]>>
          \/ \E p \in PrevIds : prev'[p]["kupd"] = live["kupd"] ]_vars

(* When a restore is about to be declared complete, its before-restore     *)
(* directory holds the generation that was due to boot when the restore    *)
(* was accepted: the disk and either the kernel and initramfs staged for   *)
(* it or, with nothing staged, the ones in place (docs/RECOVERY.md:        *)
(* "conserva los anteriores").                                             *)
DueToBoot(m) ==
    LET staged == m["kupd"] # None IN
    [disk      |-> m["disk"],
     kernel    |-> IF staged THEN m["knext"] ELSE m["kernel"],
     initramfs |-> IF staged THEN m["inext"] ELSE m["initramfs"]]
PreviousComplete ==
    pc = "clear" => DueToBoot(prev[journal.prev]) = DueToBoot(before)

(* A restore that is about to be declared complete leaves exactly the      *)
(* point's disk, kernel and initramfs, and no staged update, whatever      *)
(* init, start, stop, sync-kernel, resize and an unrecorded QEMU did to    *)
(* the files while it was pending and cut short.                           *)
RestoreExact ==
    pc = "clear" =>
        /\ live["kupd"] = None
        /\ \A f \in BackupFiles : live[f] = snaps[journal.snap][f]

(* Refinement: what the next boot uses, whatever the files look like now.  *)
Installed ==
    IF journal # None THEN snaps[journal.snap]
    ELSE IF live["disk"] = None THEN None
    ELSE LET pair == IF live["kupd"] # None THEN live["kupd"]
                     ELSE <<live["kernel"], live["initramfs"]>>
         IN [disk |-> live["disk"], kernel |-> pair[1], initramfs |-> pair[2]]

Abstract == INSTANCE Generations WITH installed <- Installed, points <- snaps

(* The commands, cut short anywhere, implement one installed generation    *)
(* that is replaced in one step.                                           *)
ImplementsGenerations == Abstract!Spec

-----------------------------------------------------------------------------
(* Liveness.  A command that is not cut short takes its next step; the     *)
(* operator answers a pending restore with start again and again, as       *)
(* restore itself tells him to ("ejecuta start para completarla").         *)
Fairness == WF_vars(CommandStep) /\ SF_vars(StartBegin)
FairSpec == Spec /\ Fairness

(* The end of a command that no step of its own explains.                  *)
Interrupted == Abort /\ ~CommandStep

(* If interruptions end, a pending restore completes, unless its point has *)
(* decayed or a QEMU the launcher has no record of holds the disk.         *)
PendingCompletes ==
    <>[][~Interrupted]_vars =>
        (journal # None ~> \/ journal = None
                           \/ journal.snap \in bad
                           \/ vm # "off")
=============================================================================
