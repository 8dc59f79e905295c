------------------------------- MODULE Backup -------------------------------
(***************************************************************************)
(* Recovery points of a running VM: backup(), the QEMU copy job it drives  *)
(* over QMP, the publication of the point and the retention                *)
(* (src/windows/backup_windows.go, qmp_windows.go).                        *)
(*                                                                         *)
(* backup() runs in the automatic worker or in a command, always under the *)
(* lock "control", one QMP or SSH request or file operation per step.  It  *)
(* may return an error, running its deferred calls, or die, running none;  *)
(* the guest writes and upgrades its kernel meanwhile, the job advances by *)
(* itself and the VM may end at any time.                                  *)
(***************************************************************************)
EXTENDS Naturals, FiniteSets, Sequences

CONSTANTS
    Retention,   \* points kept (backupRetention = 3)
    MaxId,       \* bound: attempts that reach a stage directory
    MaxWrites,   \* bound: guest writes
    MaxKernel,   \* bound: versions of the kernel, and of the initramfs
    MaxSession   \* bound: VM sessions

ASSUME BackupAssumption ==
    /\ Retention \in Nat \ {0}
    /\ MaxId \in Nat /\ MaxWrites \in Nat
    /\ MaxKernel \in Nat \ {0} /\ MaxSession \in Nat

Ids == 1 .. MaxId        \* timestamps, which are also directory names
Versions == 1 .. MaxKernel
PointFiles == {"disk", "kernel", "initramfs", "manifest"}

(* What a point or an unfinished copy holds: the versions of its kernel    *)
(* and initramfs, the disk state with the kernel (k) and the initramfs (i) *)
(* installed in it, whether QEMU finished writing it, and the QEMU session *)
(* and write counter the manifest records.                                 *)
Copies == [kernel : 0 .. MaxKernel, initramfs : 0 .. MaxKernel,
           stamp : 0 .. MaxWrites, k : 0 .. MaxKernel, i : 0 .. MaxKernel,
           whole : BOOLEAN, session : 0 .. MaxSession, writes : 0 .. MaxWrites]
Blank == [kernel |-> 0, initramfs |-> 0, stamp |-> 0, k |-> 0, i |-> 0,
          whole |-> FALSE, session |-> 0, writes |-> 0]

VARIABLES
    \* the VM
    vmOn, session,   \* whether it runs, and its creation time
    stamp,           \* disk state: number of the last guest write
    kernel,          \* kernel installed in the guest, and its initramfs,
    initramfs,       \* which is also regenerated by itself
    writes,          \* QEMU's write counter, from 0 in every session
    job,             \* the job voxy-backup: "none", "running", "cancelling",
                     \* "ok" or "failed" (the last two are "concluded")
    node,            \* id the block node voxy-backup-target writes to, or 0
    \* the directory backups
    partials,        \* ids of .partial-* directories
    files,           \* published id -> files present in its directory
    copies,          \* published id -> what was copied
    \* the attempt in progress
    pc, auto,        \* its next step; whether it is automatic
    id, cur,         \* id of its stage directory, and what is in it
    rest,            \* points published before, as it listed them
    \* history
    order            \* ids in the order they were published

vm      == <<vmOn, session, stamp, kernel, initramfs, writes>>
qemu    == <<job, node>>
backups == <<partials, files, copies, order>>
attempt == <<auto, id, cur, rest>>
vars == <<vmOn, session, stamp, kernel, initramfs, writes, job, node, partials,
          files, copies, pc, auto, id, cur, rest, order>>

Idle == pc = "idle" /\ auto = FALSE /\ id = 0 /\ cur = Blank /\ rest = {}

Init ==
    /\ vmOn = FALSE /\ session = 0 /\ stamp = 0 /\ writes = 0
    /\ kernel = 1 /\ initramfs = 1
    /\ job = "none" /\ node = 0
    /\ partials = {} /\ files = [p \in {} |-> {}] /\ copies = [p \in {} |-> Blank]
    /\ order = <<>>
    /\ Idle

-----------------------------------------------------------------------------
(* Helpers.                                                                *)

(* checkpoints(): directories with a readable manifest, ordered by id.     *)
Listed == {p \in DOMAIN files : "manifest" \in files[p]}
Newest(S) == CHOOSE p \in S : \A q \in S : q <= p
Oldest(S) == CHOOSE p \in S : \A q \in S : p <= q

Concluded == job \in {"ok", "failed"}

(* The attempt is over; unlock.                                            *)
Done ==
    pc' = "idle" /\ auto' = FALSE /\ id' = 0 /\ cur' = Blank /\ rest' = {}

(* A QMP or SSH request is answered only by a running VM.                  *)
At(step, then) == pc = step /\ vmOn /\ pc' = then

-----------------------------------------------------------------------------
(* backup(automatic): needs the lock and a running VM.                     *)

Begin(automatic) ==
    /\ pc = "idle" /\ vmOn
    /\ pc' = "decide" /\ auto' = automatic /\ rest' = Listed
    /\ UNCHANGED <<vm, qemu, backups, id, cur>>

(* Mutant: the counter of another QEMU session is compared.                *)
NothingNewAnySession ==
    auto /\ rest # {} /\ copies[Newest(rest)].writes = writes

(* The newest point was taken in this QEMU session at this write count.    *)
(* The counter is read once; nobody else changes the points meanwhile, so  *)
(* the decision is that of the instant of the reading.                     *)
NothingNew ==
    LET last == copies[Newest(rest)] IN
    auto /\ rest # {} /\ last.session = session /\ last.writes = writes

Skip ==
    /\ pc = "decide" /\ vmOn /\ NothingNew
    /\ Done
    /\ UNCHANGED <<vm, qemu, backups>>

Proceed ==
    /\ At("decide", "reap") /\ ~NothingNew
    /\ UNCHANGED <<vm, qemu, backups, attempt>>

(* Mutant: a concluded job is left where it is.                            *)
ReapNothing ==
    /\ At("reap", "jobs")
    /\ UNCHANGED <<vm, qemu, backups, attempt>>

(* A concluded job left by an attempt that died is dismissed.              *)
Reap ==
    /\ At("reap", "jobs")
    /\ job' = IF Concluded THEN "none" ELSE job
    /\ UNCHANGED <<vm, node, backups, attempt>>

(* Mutant: pending jobs are not looked for.                                *)
NoJobsAssumed ==
    /\ At("jobs", "clean")
    /\ UNCHANGED <<vm, qemu, backups, attempt>>

(* With any job left the attempt ends: QEMU may be writing its target.     *)
NoJobs ==
    /\ At("jobs", "clean")
    /\ job = "none"
    /\ UNCHANGED <<vm, qemu, backups, attempt>>

JobPending ==
    /\ pc = "jobs" /\ vmOn
    /\ job # "none"
    /\ Done
    /\ UNCHANGED <<vm, qemu, backups>>

(* Detach a leftover target, remove unfinished copies, check free space.   *)
Clean ==
    /\ At("clean", "stage")
    /\ node' = 0
    /\ partials' = {}
    /\ UNCHANGED <<vm, job, files, copies, order, attempt>>

(* The id is the time.  Assumed: the host's clock never steps back, so ids *)
(* grow and are never reused.                                              *)
Used == partials \cup DOMAIN files \cup {order[n] : n \in 1 .. Len(order)}
Stage(i) ==
    /\ At("stage", "kernel")
    /\ \A p \in Used : p < i
    /\ id' = i
    /\ partials' = partials \cup {i}
    /\ UNCHANGED <<vm, qemu, files, copies, order, auto, cur, rest>>

(* Boot files are fetched from the guest, first the kernel.                *)
FetchKernel ==
    /\ At("kernel", "initramfs")
    /\ cur' = [cur EXCEPT !.kernel = kernel]
    /\ UNCHANGED <<vm, qemu, backups, auto, id, rest>>

FetchInitramfs ==
    /\ At("initramfs", "count")
    /\ cur' = [cur EXCEPT !.initramfs = initramfs]
    /\ UNCHANGED <<vm, qemu, backups, auto, id, rest>>

(* After sync in the guest, the write counter the manifest will carry.     *)
Count ==
    /\ At("count", "target")
    /\ cur' = [cur EXCEPT !.session = session, !.writes = writes]
    /\ UNCHANGED <<vm, qemu, backups, auto, id, rest>>

(* Create the target image and add it as a block node.                     *)
AddTarget ==
    /\ At("target", "job")
    /\ node = 0
    /\ node' = id
    /\ UNCHANGED <<vm, job, backups, attempt>>

(* blockdev-backup sync=full: the copy is of the disk as it is now.        *)
StartJob ==
    /\ At("job", "poll")
    /\ job = "none"
    /\ job' = "running"
    /\ cur' = [cur EXCEPT !.stamp = stamp, !.k = kernel, !.i = initramfs]
    /\ UNCHANGED <<vm, node, backups, auto, id, rest>>

(* The job concluded without error: dismiss it.                            *)
PollOk ==
    /\ At("poll", "detach")
    /\ job = "ok"
    /\ job' = "none"
    /\ UNCHANGED <<vm, node, backups, attempt>>

(* It concluded with an error: dismiss it, detach the target, return.      *)
PollFailed ==
    /\ pc = "poll" /\ vmOn
    /\ job = "failed"
    /\ job' = "none" /\ node' = 0
    /\ Done
    /\ UNCHANGED <<vm, backups>>

Detach ==
    /\ At("detach", "check")
    /\ node' = 0
    /\ UNCHANGED <<vm, job, backups, attempt>>

(* The guest's kernel must still be the one fetched, and its initramfs.    *)
CheckKernel ==
    /\ At("check", "checkinitramfs")
    /\ cur.kernel = kernel
    /\ UNCHANGED <<vm, qemu, backups, attempt>>

(* Mutant: only the kernel is compared with the one fetched.               *)
CheckInitramfsNever ==
    /\ At("checkinitramfs", "publish")
    /\ UNCHANGED <<vm, qemu, backups, attempt>>

CheckInitramfs ==
    /\ At("checkinitramfs", "publish")
    /\ cur.initramfs = initramfs
    /\ UNCHANGED <<vm, qemu, backups, attempt>>

KernelChanged ==
    /\ vmOn
    /\ \/ pc = "check" /\ cur.kernel # kernel
       \/ pc = "checkinitramfs" /\ cur.initramfs # initramfs
    /\ Done
    /\ UNCHANGED <<vm, qemu, backups>>

(* Mutant: the point is published by a copy that leaves the stage behind.  *)
PublishByCopy ==
    /\ pc = "publish"
    /\ files' = [p \in DOMAIN files \cup {id} |->
                   IF p = id THEN PointFiles ELSE files[p]]
    /\ copies' = [p \in DOMAIN copies \cup {id} |->
                   IF p = id THEN cur ELSE copies[p]]
    /\ order' = Append(order, id)
    /\ pc' = "prune"
    /\ UNCHANGED <<vm, qemu, partials, attempt>>

(* Image check, sync, hashes and manifest inside the stage directory, then *)
(* one rename publishes the point.                                         *)
Publish ==
    /\ pc = "publish"
    /\ partials' = partials \ {id}
    /\ files' = [p \in DOMAIN files \cup {id} |->
                   IF p = id THEN PointFiles ELSE files[p]]
    /\ copies' = [p \in DOMAIN copies \cup {id} |->
                   IF p = id THEN cur ELSE copies[p]]
    /\ order' = Append(order, id)
    /\ pc' = "prune"
    /\ UNCHANGED <<vm, qemu, attempt>>

(* Retention: while more than Retention points are known, remove the       *)
(* directory of the first, file by file.  The new point stands last.       *)

(* Mutant: one point fewer is kept.                                        *)
PrunableEarly == Cardinality(rest) + 1 >= Retention

Prunable == Cardinality(rest) + 1 > Retention
PruneFile(f) ==
    LET p == Oldest(rest) IN
    /\ pc = "prune" /\ Prunable
    /\ f \in files[p]
    /\ files' = [files EXCEPT ![p] = @ \ {f}]
    /\ UNCHANGED <<vm, qemu, partials, copies, order, pc, attempt>>

PruneDirectory ==
    LET p == Oldest(rest) IN
    /\ pc = "prune" /\ Prunable
    /\ files[p] = {}
    /\ files' = [q \in DOMAIN files \ {p} |-> files[q]]
    /\ copies' = [q \in DOMAIN copies \ {p} |-> copies[q]]
    /\ rest' = rest \ {p}
    /\ UNCHANGED <<vm, qemu, partials, order, pc, auto, id, cur>>

Finish ==
    /\ pc = "prune" /\ ~Prunable
    /\ Done
    /\ UNCHANGED <<vm, qemu, backups>>

-----------------------------------------------------------------------------
(* Ends before the last step.                                              *)

(* An error is returned: the deferred calls cancel a job that has not      *)
(* finished and detach the target, which fails while the job still runs.   *)
Attached == pc \in {"job", "poll", "detach"}
Fail ==
    /\ pc # "idle"
    /\ job' = IF pc = "poll" /\ job = "running" THEN "cancelling" ELSE job
    /\ node' = IF Attached /\ job' \in {"none", "ok", "failed"} THEN 0 ELSE node
    /\ Done
    /\ UNCHANGED <<vm, backups>>

(* The process dies; the kernel releases its lock.                         *)
Die ==
    /\ pc # "idle"
    /\ Done
    /\ UNCHANGED <<vm, qemu, backups>>

-----------------------------------------------------------------------------
(* The VM.                                                                 *)

(* The job ends: the target is whole, or the job failed or was cancelled.  *)
JobCompletes ==
    /\ job = "running"
    /\ job' = "ok"
    /\ cur' = IF pc # "idle" /\ node = id THEN [cur EXCEPT !.whole = TRUE] ELSE cur
    /\ UNCHANGED <<vm, node, backups, pc, auto, id, rest>>

JobFails ==
    /\ job \in {"running", "cancelling"}
    /\ job' = "failed"
    /\ UNCHANGED <<vm, node, backups, pc, attempt>>

(* A guest write, perhaps installing the next kernel or regenerating the   *)
(* initramfs: an upgrade does both, one after the other.                   *)
GuestWrite(k, i) ==
    /\ vmOn /\ stamp < MaxWrites
    /\ k \in {kernel, kernel + 1} \cap Versions
    /\ i \in {initramfs, initramfs + 1} \cap Versions
    /\ stamp' = stamp + 1 /\ writes' = writes + 1
    /\ kernel' = k /\ initramfs' = i
    /\ UNCHANGED <<vmOn, session, qemu, backups, pc, attempt>>

VmExit ==
    /\ vmOn /\ vmOn' = FALSE
    /\ job' = "none" /\ node' = 0
    /\ UNCHANGED <<session, stamp, kernel, initramfs, writes, backups, pc, attempt>>

(* start takes the lock control too.                                       *)
VmStart ==
    /\ ~vmOn /\ pc = "idle" /\ session < MaxSession
    /\ vmOn' = TRUE /\ session' = session + 1 /\ writes' = 0
    /\ UNCHANGED <<stamp, kernel, initramfs, qemu, backups, pc, attempt>>

-----------------------------------------------------------------------------
AttemptStep ==
    \/ Skip \/ Proceed \/ Reap \/ NoJobs \/ JobPending \/ Clean
    \/ \E i \in Ids : Stage(i)
    \/ FetchKernel \/ FetchInitramfs \/ Count \/ AddTarget \/ StartJob
    \/ PollOk \/ PollFailed \/ Detach \/ CheckKernel \/ CheckInitramfs \/ KernelChanged
    \/ Publish \/ PruneDirectory \/ Finish
    \/ \E f \in PointFiles : PruneFile(f)
Next ==
    \/ \E automatic \in BOOLEAN : Begin(automatic)
    \/ AttemptStep \/ Fail \/ Die
    \/ JobCompletes \/ JobFails \/ VmExit \/ VmStart
    \/ \E k, i \in Versions : GuestWrite(k, i)

Spec == Init /\ [][Next]_vars

-----------------------------------------------------------------------------
(* Properties.                                                             *)

(* Every variable has its type; published ids and stage ids are disjoint.  *)
VmTyped ==
    /\ vmOn \in BOOLEAN
    /\ session \in 0 .. MaxSession
    /\ kernel \in Versions /\ initramfs \in Versions
    /\ stamp \in 0 .. MaxWrites /\ writes \in 0 .. MaxWrites
QemuTyped ==
    /\ job \in {"none", "running", "cancelling", "ok", "failed"}
    /\ node \in Ids \cup {0}
PointsTyped ==
    /\ partials \subseteq Ids /\ DOMAIN files \subseteq Ids
    /\ \A p \in DOMAIN files : files[p] \subseteq PointFiles
    /\ DOMAIN copies = DOMAIN files
    /\ \A p \in DOMAIN copies : copies[p] \in Copies
    /\ partials \cap DOMAIN files = {}
AttemptTyped ==
    /\ auto \in BOOLEAN /\ id \in Ids \cup {0} /\ rest \subseteq Ids
    /\ pc \in {"idle", "decide", "reap", "jobs", "clean", "stage", "kernel",
              "initramfs", "count", "target", "job", "poll", "detach", "check",
              "checkinitramfs", "publish", "prune"}
    /\ cur \in Copies
TypeOK == VmTyped /\ QemuTyped /\ PointsTyped /\ AttemptTyped

(* Every published point holds a disk QEMU finished copying and the kernel *)
(* and initramfs that were installed in the guest at the instant of that   *)
(* copy, although they were fetched before it, one by one, while the guest *)
(* may have been upgrading one, the other or both.                         *)
PointSound ==
    \A p \in DOMAIN copies :
        /\ copies[p].whole
        /\ copies[p].kernel = copies[p].k /\ copies[p].initramfs = copies[p].i

(* An automatic attempt is skipped only if the newest point holds exactly  *)
(* the guest's current disk: the counter it compares was read before the   *)
(* copy began and means nothing in another QEMU session.                   *)
SkipSound ==
    [][ Skip => copies[Newest(rest)].stamp = stamp ]_vars

(* An unfinished copy is never removed while QEMU writes to it, also when  *)
(* the attempt that started the job died ("incomplete copies cannot be in  *)
(* use", backup_windows.go).                                               *)
PartialInUseKept ==
    [][ \A p \in partials \ partials' :
          ~(node = p /\ job \in {"running", "cancelling"}) ]_vars

(* The last points published, as many as the retention, are all complete,  *)
(* whatever attempt failed or died, also inside the retention              *)
(* (docs/RECOVERY.md: "Se conservan los tres ultimos puntos completos").   *)
LastKept ==
    \A n \in 1 .. Len(order) :
        n + Retention > Len(order) =>
            order[n] \in DOMAIN files /\ files[order[n]] = PointFiles

-----------------------------------------------------------------------------
(* Liveness.  Steps are not delayed forever, QEMU ends a job it runs, and  *)
(* a copy is asked for again and again, by hand or by the worker.          *)
Fairness ==
    /\ WF_vars(AttemptStep) /\ WF_vars(JobCompletes \/ JobFails)
    /\ SF_vars(Begin(FALSE))
FairSpec == Spec /\ Fairness

(* The end of an attempt that no step of backup() explains, or of the VM.  *)
Interrupted == VmExit \/ ((Die \/ Fail) /\ ~AttemptStep)

(* What an attempt that failed or died left in QEMU does not refuse every  *)
(* later attempt: once attempts no longer die or fail half-way and the VM  *)
(* stays, the job left behind is dismissed.                                *)
LeftoversReaped ==
    <>[][~Interrupted]_vars =>
        (vmOn /\ pc = "idle" /\ job # "none" ~> job = "none")
=============================================================================
