--------------------------- MODULE Backup_proofs ---------------------------
(***************************************************************************)
(* Theorems about Backup, for every value of its constants: the types, the *)
(* soundness of what is published and of what is skipped, and that neither *)
(* the retention nor the cleaning of partials takes what is still needed.  *)
(*                                                                         *)
(* PointSound is not inductive: it needs to know what each step of the     *)
(* attempt has already established (Job, Fetched).  SkipSound relates a    *)
(* published point to the running session (Marks), and LastKept the order  *)
(* of ids to the order of publication (Ordered).                           *)
(***************************************************************************)
EXTENDS Backup, FiniteSetTheorems, WellFoundedInduction, TLAPS

-----------------------------------------------------------------------------
(* The parts of the inductive invariant.                                   *)

(* Steps of an attempt at which QEMU has no backup job, those from which   *)
(* the copied disk is whole or about to be, and those of an attempt that   *)
(* stages.                                                                 *)
NoJobSteps == {"clean", "stage", "kernel", "initramfs", "count", "target", "job",
               "detach", "check", "checkinitramfs", "publish", "prune"}
Copied == {"poll", "detach", "check", "checkinitramfs", "publish"}
Staged == {"kernel", "initramfs", "count", "target", "job"} \cup Copied

(* A job lives only inside a running QEMU, none exists where the worker    *)
(* thinks there is none, and a copy counts as whole only after its job     *)
(* concluded: the worker polls its own job, on the node named after its    *)
(* own point.                                                              *)
Job ==
    /\ job # "none" => vmOn
    /\ pc \in NoJobSteps => job = "none"
    /\ pc \in {"job", "poll"} /\ vmOn => node = id
    /\ pc = "poll" => job # "cancelling"
    /\ pc = "poll" /\ job = "ok" => cur.whole
    /\ pc \in Copied \ {"poll"} => cur.whole

(* The guest's files are fetched before the disk is frozen, and each of    *)
(* them only moves forward: fetched <= frozen <= installed, so that the    *)
(* later check that fetched = installed fixes what was frozen.             *)
Fetched ==
    /\ pc \in {"initramfs", "count", "target", "job"} => cur.kernel <= kernel
    /\ pc \in {"count", "target", "job"} => cur.initramfs <= initramfs
    /\ pc \in Copied => /\ cur.kernel <= cur.k /\ cur.k <= kernel
                        /\ cur.initramfs <= cur.i /\ cur.i <= initramfs
    /\ pc \in {"checkinitramfs", "publish"} => cur.kernel = cur.k
    /\ pc = "publish" => cur.initramfs = cur.i

(* A copy taken in this session is of a disk state no later than the       *)
(* present one, and since then the counter has grown by at least the disk  *)
(* states written: it was read before the copy was frozen.                 *)
AsOf(c) ==
    /\ c.session <= session
    /\ c.session = session => c.stamp <= stamp /\ c.writes + stamp <= c.stamp + writes

(* The write counter of a point is read before its disk is frozen, never   *)
(* after: this is why an unchanged counter means an unchanged disk.        *)
Marks ==
    /\ writes <= stamp
    /\ \A p \in DOMAIN copies : AsOf(copies[p])
    /\ pc \in {"target", "job"} =>
          cur.session <= session /\ (cur.session = session => cur.writes <= writes)
    /\ pc \in Copied => AsOf(cur)

(* The ids of the first n points published.                                *)
Earlier(n) == {order[m] : m \in 1 .. n}
(* Points are published under growing ids, so that the order of ids in     *)
(* which prune deletes is the order of publication, and the point just     *)
(* published is not among those prune still lists.                         *)
Ordered ==
    /\ order \in Seq(Ids)
    /\ \A m, n \in 1 .. Len(order) : m < n => order[m] < order[n]
    /\ DOMAIN files \subseteq Earlier(Len(order))
    /\ rest \subseteq DOMAIN files
    /\ pc \in Staged => id \in Ids /\ \A n \in 1 .. Len(order) : order[n] < id
    /\ pc = "prune" => Len(order) > 0 /\ rest \subseteq Earlier(Len(order) - 1)

-----------------------------------------------------------------------------
(* The steps of Next, in groups that disturb the same variables.           *)
Ends == Skip \/ JobPending \/ PollFailed \/ KernelChanged \/ Finish \/ Fail \/ Die
Opens ==
    \/ \E automatic \in BOOLEAN : Begin(automatic)
    \/ Proceed \/ Reap \/ NoJobs \/ Clean
    \/ \E i \in Ids : Stage(i)
Fetches == FetchKernel \/ FetchInitramfs \/ Count
CopiesDisk == AddTarget \/ StartJob \/ PollOk \/ Detach \/ CheckKernel \/ CheckInitramfs
Publishes == Publish \/ (\E f \in PointFiles : PruneFile(f)) \/ PruneDirectory
Machine ==
    \/ JobCompletes \/ JobFails \/ VmExit \/ VmStart
    \/ \E k, i \in Versions : GuestWrite(k, i)

(* Every step belongs to one of the groups.                                *)
LEMMA Steps ==
    [Next]_vars =>
        Ends \/ Opens \/ Fetches \/ CopiesDisk \/ Publishes \/ Machine
             \/ UNCHANGED vars
BY DEF Next, AttemptStep, Ends, Opens, Fetches, CopiesDisk, Publishes, Machine

(* What the assumption on the bounds says of the types.                    *)
LEMMA Bounds ==
    /\ MaxKernel \in Nat /\ MaxWrites \in Nat /\ MaxSession \in Nat /\ Blank \in Copies
    /\ \A k \in Versions : k \in 0 .. MaxKernel
<1>1. /\ 0 \in 0 .. MaxKernel /\ 0 \in 0 .. MaxWrites /\ 0 \in 0 .. MaxSession
  BY BackupAssumption DEF BackupAssumption
<1>2. Blank \in Copies
  BY <1>1 DEF Blank, Copies
<1> QED
  BY <1>2, BackupAssumption DEF BackupAssumption, Versions

(* The record of the copy in progress keeps its type: each step sets some  *)
(* of its fields to values of theirs.                                      *)
LEMMA CurType == ASSUME TypeOK, [Next]_vars PROVE cur' \in Copies
<1>1. cur \in Copies /\ kernel \in 0 .. MaxKernel /\ initramfs \in 0 .. MaxKernel
      /\ stamp \in 0 .. MaxWrites
      /\ session \in 0 .. MaxSession /\ writes \in 0 .. MaxWrites
  BY Bounds DEF TypeOK, AttemptTyped, VmTyped
<1>2. CASE cur' = cur \/ cur' = Blank
  BY <1>1, <1>2, Bounds
<1>3. CASE cur' = [cur EXCEPT !.kernel = kernel] \/ cur' = [cur EXCEPT !.initramfs = initramfs]
           \/ cur' = [cur EXCEPT !.whole = TRUE]
  BY <1>1, <1>3 DEF Copies
<1>4. CASE cur' = [cur EXCEPT !.session = session, !.writes = writes]
  BY <1>1, <1>4 DEF Copies
<1>5. CASE cur' = [cur EXCEPT !.stamp = stamp, !.k = kernel, !.i = initramfs]
  BY <1>1, <1>5 DEF Copies
<1> QED
  BY <1>2, <1>3, <1>4, <1>5, Steps DEF Ends, Skip, JobPending, PollFailed,
     KernelChanged, Finish, Fail, Die, Done, Opens, Begin, Proceed, Reap,
     NoJobs, Clean, Stage, Publishes, Publish, PruneFile, PruneDirectory,
     attempt, vars, Fetches, FetchKernel, FetchInitramfs, Count, CopiesDisk,
     AddTarget, StartJob, PollOk, Detach, CheckKernel, CheckInitramfs,
     Machine, JobCompletes, JobFails, VmExit, VmStart, GuestWrite

(* The counters are naturals, for the arithmetic of the steps below.       *)
LEMMA Numbers ==
    ASSUME TypeOK
    PROVE  /\ kernel \in Nat /\ initramfs \in Nat /\ stamp \in Nat /\ writes \in Nat /\ session \in Nat
           /\ cur.kernel \in Nat /\ cur.initramfs \in Nat /\ cur.k \in Nat /\ cur.i \in Nat
           /\ cur.stamp \in Nat /\ cur.writes \in Nat /\ cur.session \in Nat
           /\ \A p \in DOMAIN copies : /\ copies[p].stamp \in Nat /\ copies[p].writes \in Nat
                                        /\ copies[p].session \in Nat
BY Bounds DEF TypeOK, VmTyped, AttemptTyped, PointsTyped, Copies

(* What the steps that fill the copy's record leave in its fields.         *)
LEMMA Fields ==
    ASSUME TypeOK
    PROVE  /\ FetchKernel => cur'.kernel = kernel
           /\ FetchInitramfs => cur'.kernel = cur.kernel /\ cur'.initramfs = initramfs
           /\ Count => /\ cur'.kernel = cur.kernel /\ cur'.initramfs = cur.initramfs
                       /\ cur'.session = session /\ cur'.writes = writes
           /\ StartJob => /\ cur'.kernel = cur.kernel /\ cur'.initramfs = cur.initramfs
                          /\ cur'.session = cur.session /\ cur'.writes = cur.writes
                          /\ cur'.stamp = stamp /\ cur'.k = kernel /\ cur'.i = initramfs
           /\ JobCompletes => /\ cur'.kernel = cur.kernel /\ cur'.initramfs = cur.initramfs
                              /\ cur'.session = cur.session /\ cur'.writes = cur.writes
                              /\ cur'.stamp = cur.stamp /\ cur'.k = cur.k /\ cur'.i = cur.i
BY DEF TypeOK, AttemptTyped, Copies, FetchKernel, FetchInitramfs, Count,
   StartJob, JobCompletes

(* Every step preserves the types of the guest and its session.            *)
LEMMA VmTypedStep == ASSUME TypeOK, Marks, [Next]_vars PROVE VmTyped'
<1>1. CASE Ends
  BY <1>1 DEF Ends, Skip, JobPending, PollFailed, KernelChanged, Finish, Fail,
     Die, vm, TypeOK, VmTyped
<1>2. CASE Opens
  BY <1>2 DEF Opens, Begin, Proceed, Reap, NoJobs, Clean, Stage, vm, TypeOK,
     VmTyped
<1>3. CASE Fetches
  BY <1>3 DEF Fetches, FetchKernel, FetchInitramfs, Count, vm, TypeOK, VmTyped
<1>4. CASE CopiesDisk
  BY <1>4 DEF CopiesDisk, AddTarget, StartJob, PollOk, Detach, CheckKernel,
     CheckInitramfs, vm, TypeOK, VmTyped
<1>5. CASE Publishes
  BY <1>5 DEF Publishes, Publish, PruneFile, PruneDirectory, vm, TypeOK,
     VmTyped
<1>6. CASE Machine
  <2>1. CASE VmStart
    BY <2>1, Bounds DEF VmStart, TypeOK, VmTyped
  <2>2. ASSUME NEW k \in Versions, NEW i \in Versions, GuestWrite(k, i) PROVE VmTyped'
    BY <2>2, Bounds DEF GuestWrite, TypeOK, VmTyped, Marks
  <2>3. CASE JobCompletes \/ JobFails \/ VmExit
    BY <2>3 DEF JobCompletes, JobFails, VmExit, vm, TypeOK, VmTyped
  <2> QED
    BY <1>6, <2>1, <2>2, <2>3 DEF Machine
<1>7. CASE UNCHANGED vars
  BY <1>7 DEF vars, TypeOK, VmTyped
<1> QED
  BY <1>1, <1>2, <1>3, <1>4, <1>5, <1>6, <1>7, Steps

(* Every step preserves the types of QEMU's job and node.                  *)
LEMMA QemuTypedStep == ASSUME TypeOK, [Next]_vars PROVE QemuTyped'
<1>1. CASE Ends
  BY <1>1 DEF Ends, Skip, JobPending, PollFailed, KernelChanged, Finish, Fail,
     Die, qemu, TypeOK, QemuTyped
<1>2. CASE Opens
  BY <1>2 DEF Opens, Begin, Proceed, Reap, NoJobs, Clean, Stage, qemu, TypeOK,
     QemuTyped
<1>3. CASE Fetches
  BY <1>3 DEF Fetches, FetchKernel, FetchInitramfs, Count, qemu, TypeOK,
     QemuTyped
<1>4. CASE CopiesDisk
  BY <1>4 DEF CopiesDisk, AddTarget, StartJob, PollOk, Detach, CheckKernel,
     CheckInitramfs, qemu, TypeOK, QemuTyped, AttemptTyped
<1>5. CASE Publishes
  BY <1>5 DEF Publishes, Publish, PruneFile, PruneDirectory, qemu, TypeOK,
     QemuTyped
<1>6. CASE Machine
  BY <1>6 DEF Machine, JobCompletes, JobFails, VmExit, VmStart, GuestWrite,
     qemu, TypeOK, QemuTyped
<1>7. CASE UNCHANGED vars
  BY <1>7 DEF vars, TypeOK, QemuTyped, AttemptTyped
<1> QED
  BY <1>1, <1>2, <1>3, <1>4, <1>5, <1>6, <1>7, Steps

(* Every step preserves the types of the backups directory.                *)
LEMMA PointsTypedStep == ASSUME TypeOK, Ordered, [Next]_vars PROVE PointsTyped'
<1>1. CASE Ends
  BY <1>1 DEF Ends, Skip, JobPending, PollFailed, KernelChanged, Finish, Fail,
     Die, backups, TypeOK, PointsTyped
<1>2. CASE Opens
  <2>1. ASSUME NEW i \in Ids, Stage(i) PROVE PointsTyped'
    <3>1. i \notin DOMAIN files
      <4>1. i \in DOMAIN files => i < i
        BY <2>1 DEF Stage, Used
      <4>2. ~(i < i)
        BY DEF Ids
      <4>. QED  BY <4>1, <4>2
    <3>. QED  BY <2>1, <3>1 DEF Stage, TypeOK, PointsTyped
  <2>2. ASSUME NEW automatic \in BOOLEAN, Begin(automatic) PROVE PointsTyped'
    BY <2>2 DEF Begin, backups, TypeOK, PointsTyped
  <2>3. CASE Proceed \/ Reap \/ NoJobs \/ Clean
    BY <2>3 DEF Proceed, Reap, NoJobs, Clean, backups, attempt, TypeOK, PointsTyped
  <2>. QED  BY <1>2, <2>1, <2>2, <2>3 DEF Opens
<1>3. CASE Fetches
  BY <1>3 DEF Fetches, FetchKernel, FetchInitramfs, Count, backups, TypeOK,
     PointsTyped
<1>4. CASE CopiesDisk
  BY <1>4 DEF CopiesDisk, AddTarget, StartJob, PollOk, Detach, CheckKernel,
     CheckInitramfs, backups, TypeOK, PointsTyped
<1>5. CASE Publishes
  BY <1>5 DEF Publishes, Publish, PruneFile, PruneDirectory, TypeOK,
     PointsTyped, AttemptTyped, Ordered, Staged, Copied
<1>6. CASE Machine
  BY <1>6 DEF Machine, JobCompletes, JobFails, VmExit, VmStart, GuestWrite,
     backups, TypeOK, PointsTyped
<1>7. CASE UNCHANGED vars
  BY <1>7 DEF vars, TypeOK, PointsTyped, AttemptTyped
<1> QED
  BY <1>1, <1>2, <1>3, <1>4, <1>5, <1>6, <1>7, Steps

(* Every step preserves the types of the attempt in progress.              *)
LEMMA AttemptTypedStep == ASSUME TypeOK, [Next]_vars PROVE AttemptTyped'
<1>1. CASE Ends
  BY <1>1, CurType DEF Ends, Skip, JobPending, PollFailed, KernelChanged,
     Finish, Fail, Die, Done, AttemptTyped
<1>2. CASE Opens
  BY <1>2 DEF Opens, Begin, Proceed, Reap, NoJobs, Clean, Stage, At, attempt,
     TypeOK, AttemptTyped, PointsTyped, Listed
<1>3. CASE Fetches
  BY <1>3, CurType DEF Fetches, FetchKernel, FetchInitramfs, Count, At,
     TypeOK, AttemptTyped
<1>4. CASE CopiesDisk
  BY <1>4, CurType DEF CopiesDisk, AddTarget, StartJob, PollOk, Detach,
     CheckKernel, CheckInitramfs, At, attempt, TypeOK, AttemptTyped
<1>5. CASE Publishes
  BY <1>5 DEF Publishes, Publish, PruneFile, PruneDirectory, attempt, TypeOK,
     AttemptTyped
<1>6. CASE Machine
  BY <1>6, CurType DEF Machine, JobCompletes, JobFails, VmExit, VmStart,
     GuestWrite, attempt, TypeOK, AttemptTyped
<1>7. CASE UNCHANGED vars
  BY <1>7 DEF vars, TypeOK, AttemptTyped, PointsTyped
<1> QED
  BY <1>1, <1>2, <1>3, <1>4, <1>5, <1>6, <1>7, Steps

(* Every step preserves Job.                                               *)
LEMMA JobStep == ASSUME TypeOK, Job, [Next]_vars PROVE Job'
<1>1. CASE Ends
  BY <1>1 DEF Ends, Skip, JobPending, PollFailed, KernelChanged, Finish, Fail,
     Die, Done, vm, qemu, Job, NoJobSteps, Copied
<1>2. CASE Opens
  BY <1>2 DEF Opens, Begin, Proceed, Reap, NoJobs, Clean, Stage, At, vm, qemu,
     Job, NoJobSteps, Copied
<1>3. CASE Fetches
  BY <1>3 DEF Fetches, FetchKernel, FetchInitramfs, Count, At, qemu, Job,
     NoJobSteps, Copied
<1>4. CASE CopiesDisk
  BY <1>4 DEF CopiesDisk, AddTarget, StartJob, PollOk, Detach, CheckKernel,
     CheckInitramfs, At, vm, qemu, attempt, Job, NoJobSteps, Copied
<1>5. CASE Publishes
  BY <1>5 DEF Publishes, Publish, PruneFile, PruneDirectory, qemu, Job,
     NoJobSteps, Copied
<1>6. CASE Machine
  BY <1>6 DEF Machine, JobCompletes, JobFails, VmExit, VmStart, GuestWrite,
     vm, qemu, attempt, TypeOK, AttemptTyped, Job, Copies
<1>7. CASE UNCHANGED vars
  BY <1>7 DEF vars, Job
<1> QED
  BY <1>1, <1>2, <1>3, <1>4, <1>5, <1>6, <1>7, Steps

(* Every step preserves Fetched.                                           *)
LEMMA FetchedStep == ASSUME TypeOK, Fetched, [Next]_vars PROVE Fetched'
<1>1. CASE Ends
  BY <1>1 DEF Ends, Skip, JobPending, PollFailed, KernelChanged, Finish, Fail,
     Die, Done, Fetched, Copied
<1>2. CASE Opens
  BY <1>2 DEF Opens, Begin, Proceed, Reap, NoJobs, Clean, Stage, At, Fetched,
     Copied
<1>3. CASE Fetches
  BY <1>3, Numbers, Fields DEF Fetches, FetchKernel, FetchInitramfs, Count,
     At, vm, Fetched, Copied
<1>4. CASE CopiesDisk
  BY <1>4, Numbers, Fields DEF CopiesDisk, AddTarget, StartJob, PollOk,
     Detach, CheckKernel, CheckInitramfs, At, vm, attempt, Fetched, Copied
<1>5. CASE Publishes
  BY <1>5 DEF Publishes, Publish, PruneFile, PruneDirectory, Fetched, Copied
<1>6. CASE Machine
  BY <1>6, Numbers, Fields DEF Machine, JobCompletes, JobFails, VmExit,
     VmStart, GuestWrite, vm, attempt, Fetched
<1>7. CASE UNCHANGED vars
  BY <1>7 DEF vars, Fetched, Copied
<1> QED
  BY <1>1, <1>2, <1>3, <1>4, <1>5, <1>6, <1>7, Steps

(* Every step preserves Marks: a guest write raises the counter it is      *)
(* compared with, a new session sets both apart.                           *)
LEMMA MarksStep == ASSUME TypeOK, Marks, [Next]_vars PROVE Marks'
<1>1. CASE Ends
  BY <1>1 DEF Ends, Skip, JobPending, PollFailed, KernelChanged, Finish, Fail,
     Die, Done, vm, backups, Marks, AsOf, Copied
<1>2. CASE Opens
  BY <1>2 DEF Opens, Begin, Proceed, Reap, NoJobs, Clean, Stage, At, vm,
     backups, Marks, AsOf, Copied
<1>3. CASE Fetches
  BY <1>3, Numbers, Fields DEF Fetches, FetchKernel, FetchInitramfs, Count,
     At, vm, backups, Marks, AsOf, Copied
<1>4. CASE CopiesDisk
  BY <1>4, Numbers, Fields DEF CopiesDisk, AddTarget, StartJob, PollOk,
     Detach, CheckKernel, CheckInitramfs, At, vm, backups, attempt, Marks,
     AsOf, Copied
<1>5. CASE Publishes
  <2>1. ASSUME NEW p \in DOMAIN copies'
        PROVE  (copies'[p] = cur /\ pc = "publish") \/ (p \in DOMAIN copies /\ copies'[p] = copies[p])
    BY <1>5, <2>1 DEF Publishes, Publish, PruneFile, PruneDirectory
  <2>2. UNCHANGED <<session, stamp, writes, cur>> /\ pc' = "prune"
    BY <1>5 DEF Publishes, Publish, PruneFile, PruneDirectory, vm, attempt
  <2> QED
    BY <2>1, <2>2 DEF Marks, AsOf, Copied
<1>6. CASE Machine
  BY <1>6, Numbers, Fields DEF Machine, JobCompletes, JobFails, VmExit,
     VmStart, GuestWrite, vm, backups, attempt, Marks, AsOf
<1>7. CASE UNCHANGED vars
  BY <1>7 DEF vars, Marks, AsOf, Copied
<1> QED
  BY <1>1, <1>2, <1>3, <1>4, <1>5, <1>6, <1>7, Steps

(* Every step preserves PointSound: what Publish adds was whole and of one *)
(* kernel, by Job and Fetched.                                             *)
LEMMA PointStep ==
    ASSUME TypeOK, Job, Fetched, PointSound, [Next]_vars
    PROVE  PointSound'
<1>1. CASE Ends
  BY <1>1 DEF Ends, Skip, JobPending, PollFailed, KernelChanged, Finish, Fail,
     Die, backups, PointSound
<1>2. CASE Opens
  BY <1>2 DEF Opens, Begin, Proceed, Reap, NoJobs, Clean, Stage, backups,
     PointSound
<1>3. CASE Fetches
  BY <1>3 DEF Fetches, FetchKernel, FetchInitramfs, Count, backups, PointSound
<1>4. CASE CopiesDisk
  BY <1>4 DEF CopiesDisk, AddTarget, StartJob, PollOk, Detach, CheckKernel,
     CheckInitramfs, backups, PointSound
<1>5. CASE Publishes
  <2>1. CASE Publish
    <3>1. cur.whole /\ cur.kernel = cur.k /\ cur.initramfs = cur.i
      BY <2>1, Numbers DEF Publish, Job, Fetched, Copied
    <3> QED
      BY <2>1, <3>1 DEF Publish, PointSound
  <2>2. CASE PruneDirectory \/ \E f \in PointFiles : PruneFile(f)
    BY <2>2 DEF PruneDirectory, PruneFile, PointSound
  <2> QED
    BY <1>5, <2>1, <2>2 DEF Publishes
<1>6. CASE Machine
  BY <1>6 DEF Machine, JobCompletes, JobFails, VmExit, VmStart, GuestWrite,
     backups, PointSound
<1>7. CASE UNCHANGED vars
  BY <1>7 DEF vars, TypeOK, PointsTyped, PointSound
<1> QED
  BY <1>1, <1>2, <1>3, <1>4, <1>5, <1>6, <1>7, Steps

-----------------------------------------------------------------------------
(* The ids of the points.                                                   *)

(* A bounded nonempty set of naturals has a greatest element: the least of *)
(* the distances to the bound, since < is well founded.                    *)
LEMMA Upper ==
    ASSUME NEW S \in SUBSET Nat, NEW n \in Nat, S # {}, \A x \in S : x <= n
    PROVE  \E x \in S : \A y \in S : y <= x
<1> DEFINE T == {n - x : x \in S}
<1>1. T \subseteq Nat /\ T # {}
  <2>1. \A x \in S : n - x \in Nat
    OBVIOUS
  <2> QED
    BY <2>1
<1>2. PICK t \in T : \A u \in T : ~(<<u, t>> \in OpToRel(<, Nat))
  BY <1>1, NatLessThanWellFounded, WFMin
<1>3. \A u \in T : ~(u < t)
  BY <1>1, <1>2 DEF OpToRel
<1>4. PICK x \in S : t = n - x
  OBVIOUS
<1>5. ASSUME NEW y \in S PROVE y <= x
  <2>1. ~(n - y < n - x)
    BY <1>3, <1>4, <1>5
  <2>2. x \in Nat /\ y \in Nat
    OBVIOUS
  <2> QED
    BY <2>1, <2>2
<1> QED
  BY <1>5

(* Newest returns the greatest id of a nonempty set.                       *)
LEMMA NewestOf ==
    ASSUME NEW S \in SUBSET Ids, S # {}
    PROVE  Newest(S) \in S /\ \A q \in S : q <= Newest(S)
<1>1. S \in SUBSET Nat /\ MaxId \in Nat /\ \A x \in S : x <= MaxId
  BY BackupAssumption DEF BackupAssumption, Ids
<1>2. \E p \in S : \A q \in S : q <= p
  BY <1>1, Upper
<1> QED
  BY <1>2 DEF Newest

(* Oldest returns the least id of a nonempty set.                          *)
LEMMA OldestOf ==
    ASSUME NEW S \in SUBSET Ids, S # {}
    PROVE  Oldest(S) \in S /\ \A q \in S : Oldest(S) <= q
<1>1. S \subseteq Nat
  BY DEF Ids
<1>2. PICK p \in S : \A q \in S : ~(<<q, p>> \in OpToRel(<, Nat))
  BY <1>1, NatLessThanWellFounded, WFMin
<1>3. \A q \in S : ~(q < p)
  BY <1>1, <1>2 DEF OpToRel
<1>4. \A q \in S : p <= q
  BY <1>1, <1>3
<1> QED
  BY <1>4 DEF Oldest

(* Every step preserves Ordered: a new id exceeds every id used, and       *)
(* Publish appends the one staged.                                         *)
LEMMA OrderedStep == ASSUME TypeOK, Ordered, [Next]_vars PROVE Ordered'
<1>1. CASE Ends
  BY <1>1 DEF Ends, Skip, JobPending, PollFailed, KernelChanged, Finish, Fail,
     Die, Done, backups, Ordered, Earlier, Staged, Copied
<1>2. CASE Opens
  BY <1>2 DEF Opens, Begin, Proceed, Reap, NoJobs, Clean, Stage, At, backups,
     attempt, Ordered, Earlier, Staged, Copied, Listed, Used
<1>3. CASE Fetches
  BY <1>3 DEF Fetches, FetchKernel, FetchInitramfs, Count, At, backups,
     Ordered, Earlier, Staged
<1>4. CASE CopiesDisk
  BY <1>4 DEF CopiesDisk, AddTarget, StartJob, PollOk, Detach, CheckKernel,
     CheckInitramfs, At, backups, attempt, Ordered, Earlier, Staged, Copied
<1>5. CASE Publishes
  <2>1. CASE Publish
    <3>1. id \in Ids /\ order' = Append(order, id) /\ rest' = rest /\ pc' = "prune"
      BY <2>1 DEF Publish, attempt, Ordered, Staged, Copied
    <3>2. /\ order' \in Seq(Ids) /\ Len(order') = Len(order) + 1 /\ order'[Len(order) + 1] = id
          /\ \A n \in 1 .. Len(order) : order'[n] = order[n]
      BY <3>1 DEF Ordered
    <3>3. \A m, n \in 1 .. Len(order') : m < n => order'[m] < order'[n]
      <4>1. \A n \in 1 .. Len(order) : order[n] < id
        BY <2>1 DEF Publish, Ordered, Staged, Copied
      <4>2. ASSUME NEW m \in 1 .. Len(order'), NEW n \in 1 .. Len(order'), m < n
            PROVE  order'[m] < order'[n]
        <5>1. Len(order) \in Nat
          BY DEF Ordered
        <5>2. m \in 1 .. Len(order) /\ (n \in 1 .. Len(order) \/ n = Len(order) + 1)
          BY <3>2, <4>2, <5>1
        <5>3. \A i, j \in 1 .. Len(order) : i < j => order[i] < order[j]
          BY DEF Ordered
        <5> QED
          BY <3>2, <4>1, <4>2, <5>2, <5>3
      <4> QED
        BY <4>2
    <3>4. DOMAIN files' = DOMAIN files \cup {id}
      BY <2>1 DEF Publish
    <3>5. Earlier(Len(order))' = Earlier(Len(order)) \cup {id}
      BY <3>2 DEF Earlier
    <3>6. rest \subseteq {order'[m] : m \in 1 .. Len(order') - 1}
      BY <3>2 DEF Ordered, Earlier
    <3> QED
      BY <3>1, <3>3, <3>4 DEF Ordered, Earlier, Staged, Copied
  <2>2. CASE \E f \in PointFiles : PruneFile(f)
    BY <2>2 DEF PruneFile, attempt, Ordered, Earlier
  <2>3. CASE PruneDirectory
    BY <2>3 DEF PruneDirectory, Ordered, Earlier, Staged, Copied
  <2> QED
    BY <1>5, <2>1, <2>2, <2>3 DEF Publishes
<1>6. CASE Machine
  BY <1>6 DEF Machine, JobCompletes, JobFails, VmExit, VmStart, GuestWrite,
     backups, attempt, Ordered, Earlier
<1>7. CASE UNCHANGED vars
  BY <1>7 DEF vars, Ordered, Earlier, Staged, Copied
<1> QED
  BY <1>1, <1>2, <1>3, <1>4, <1>5, <1>6, <1>7, Steps

(* Prune never takes one of the last Retention points published: were the  *)
(* oldest of the rest such a point, all of the rest would lie among the    *)
(* fewer than Retention points published between it and the newest, yet    *)
(* prune runs only while the rest has Retention points or more.            *)
LEMMA PruneSpares ==
    ASSUME TypeOK, Ordered, pc = "prune", Prunable,
           NEW n \in 1 .. Len(order), n + Retention > Len(order)
    PROVE  order[n] # Oldest(rest)
<1> SUFFICES ASSUME order[n] = Oldest(rest) PROVE FALSE
  OBVIOUS
<1> DEFINE last == Len(order) - 1
           Later == {order[m] : m \in n .. last}
           f == [m \in n .. last |-> order[m]]
<1>1. Len(order) \in Nat /\ Retention \in Nat \ {0} /\ rest \subseteq Ids
  BY BackupAssumption DEF BackupAssumption, Ordered, TypeOK, AttemptTyped
<1>2. IsFiniteSet(n .. last) /\ Cardinality(n .. last) = IF n > last THEN 0 ELSE last - n + 1
  <2>1. n \in Int /\ last \in Int
    BY <1>1
  <2> QED
    BY <2>1, FS_Interval
<1>3. f \in Surjection(n .. last, Later)
  BY DEF Surjection
<1>4. IsFiniteSet(Later) /\ Cardinality(Later) <= Cardinality(n .. last)
  BY <1>2, <1>3, FS_Surjection
<1>5. rest \subseteq Later
  <2>1. \A x \in rest : \E m \in 1 .. last : x = order[m]
    BY DEF Ordered, Earlier
  <2>2. ASSUME NEW x \in rest PROVE x \in Later
    <3>1. PICK m \in 1 .. last : x = order[m]
      BY <2>1
    <3>2. Oldest(rest) <= x /\ Oldest(rest) \in Ids /\ x \in Ids
      BY <1>1, OldestOf
    <3>3. ~(m < n)
      <4>1. m < n => order[m] < order[n]
        BY <1>1, <3>1 DEF Ordered
      <4> QED
        BY <3>1, <3>2, <4>1 DEF Ids
    <3> QED
      BY <1>1, <3>1, <3>3
  <2> QED
    BY <2>2
<1>6. Cardinality(rest) <= Cardinality(Later) /\ IsFiniteSet(rest)
  BY <1>4, <1>5, FS_Subset
<1>7. Cardinality(rest) \in Nat /\ Cardinality(Later) \in Nat
  BY <1>4, <1>6, FS_CardinalityType
<1>8. Cardinality(rest) + 1 > Retention
  BY DEF Prunable
<1>9. n <= last \/ n = Len(order)
  BY <1>1
<1> HIDE DEF Later, f
<1> QED
  BY <1>1, <1>2, <1>4, <1>6, <1>7, <1>8, <1>9

(* Every step preserves LastKept: Publish moves the window by one and      *)
(* Prune stays behind it.                                                  *)
LEMMA KeptStep == ASSUME TypeOK, Ordered, LastKept, [Next]_vars PROVE LastKept'
<1>1. CASE Ends
  BY <1>1 DEF Ends, Skip, JobPending, PollFailed, KernelChanged, Finish, Fail,
     Die, backups, LastKept
<1>2. CASE Opens
  BY <1>2 DEF Opens, Begin, Proceed, Reap, NoJobs, Clean, Stage, backups,
     LastKept
<1>3. CASE Fetches
  BY <1>3 DEF Fetches, FetchKernel, FetchInitramfs, Count, backups, LastKept
<1>4. CASE CopiesDisk
  BY <1>4 DEF CopiesDisk, AddTarget, StartJob, PollOk, Detach, CheckKernel,
     CheckInitramfs, backups, LastKept
<1>5. CASE Publishes
  <2>1. CASE Publish
    <3>1. order' = Append(order, id) /\ order \in Seq(Ids) /\ Len(order) \in Nat /\ Retention \in Nat
      BY <2>1, BackupAssumption DEF Publish, Ordered, BackupAssumption
    <3>2. /\ Len(order') = Len(order) + 1 /\ order'[Len(order) + 1] = id
          /\ \A n \in 1 .. Len(order) : order'[n] = order[n]
      BY <3>1
    <3>3. id \in DOMAIN files' /\ files'[id] = PointFiles
          /\ \A p \in DOMAIN files : p \in DOMAIN files' /\ (files[p] = PointFiles => files'[p] = PointFiles)
      BY <2>1 DEF Publish
    <3>4. ASSUME NEW n \in 1 .. Len(order'), n + Retention > Len(order')
          PROVE  order'[n] \in DOMAIN files' /\ files'[order'[n]] = PointFiles
      <4>1. n = Len(order) + 1 \/ (n \in 1 .. Len(order) /\ n + Retention > Len(order))
        BY <3>1, <3>2, <3>4
      <4> QED
        BY <3>2, <3>3, <4>1 DEF LastKept
    <3> QED
      BY <3>4 DEF LastKept
  <2>2. CASE PruneDirectory \/ \E f \in PointFiles : PruneFile(f)
    <3>1. /\ order' = order
          /\ \A p \in DOMAIN files : p # Oldest(rest) => p \in DOMAIN files' /\ files'[p] = files[p]
      BY <2>2 DEF PruneDirectory, PruneFile
    <3>2. pc = "prune" /\ Prunable
      BY <2>2 DEF PruneDirectory, PruneFile
    <3> QED
      BY <3>1, <3>2, PruneSpares DEF LastKept
  <2> QED
    BY <1>5, <2>1, <2>2 DEF Publishes
<1>6. CASE Machine
  BY <1>6 DEF Machine, JobCompletes, JobFails, VmExit, VmStart, GuestWrite,
     backups, LastKept
<1>7. CASE UNCHANGED vars
  BY <1>7 DEF vars, LastKept
<1> QED
  BY <1>1, <1>2, <1>3, <1>4, <1>5, <1>6, <1>7, Steps

-----------------------------------------------------------------------------
(* The inductive invariant.                                                *)
IInv == TypeOK /\ Job /\ Fetched /\ Marks /\ Ordered /\ PointSound /\ LastKept

(* It holds in every initial state.                                        *)
LEMMA InitIInv == Init => IInv
<1> SUFFICES ASSUME Init PROVE IInv
  OBVIOUS
<1>1. TypeOK
  <2>1. VmTyped
    <3>1. vmOn \in BOOLEAN /\ kernel = 1 /\ initramfs = 1 /\ session = 0 /\ stamp = 0 /\ writes = 0
      BY DEF Init
    <3>2. 1 \in 1 .. MaxKernel /\ 0 \in 0 .. MaxSession /\ 0 \in 0 .. MaxWrites
      BY BackupAssumption DEF BackupAssumption
    <3> QED
      BY <3>1, <3>2 DEF VmTyped, Versions
  <2>2. QemuTyped /\ PointsTyped
    BY DEF Init, QemuTyped, PointsTyped
  <2>3. AttemptTyped
    BY Bounds DEF Init, Idle, AttemptTyped
  <2> QED
    BY <2>1, <2>2, <2>3 DEF TypeOK
<1>2. Job /\ Fetched /\ Marks /\ PointSound
  BY DEF Init, Idle, Job, Fetched, Marks, PointSound, Copied
<1>3. Ordered /\ LastKept
  BY DEF Init, Idle, Ordered, Staged, Copied, LastKept
<1> QED
  BY <1>1, <1>2, <1>3 DEF IInv

(* It holds in every reachable state, since every step preserves each      *)
(* part.                                                                   *)
THEOREM InductiveInvariant == Spec => []IInv
<1>1. ASSUME IInv, [Next]_vars PROVE IInv'
  BY <1>1, VmTypedStep, QemuTypedStep, PointsTypedStep, AttemptTypedStep,
     JobStep, FetchedStep, MarksStep, OrderedStep, PointStep, KeptStep DEF
     IInv, TypeOK
<1> QED
  BY <1>1, InitIInv, PTL DEF Spec

(* Every variable of the backup worker keeps its type.                     *)
THEOREM TypeCorrect == Spec => []TypeOK
BY InductiveInvariant, PTL DEF IInv

(* backup publishes only points whose disk copy is whole and whose kernel  *)
(* and initramfs are those of the copied disk, whatever the guest upgrades *)
(* while it runs and wherever an attempt is cut short.                     *)
THEOREM PointsAreSound == Spec => []PointSound
BY InductiveInvariant, PTL DEF IInv

(* Retention never takes one of the last Retention points published, nor a *)
(* file of one, wherever prune is cut short and however often it runs.     *)
THEOREM NewestPointsAreKept == Spec => []LastKept
BY InductiveInvariant, PTL DEF IInv

(* An automatic backup is skipped only when the guest wrote nothing since  *)
(* the newest point was frozen.                                            *)
THEOREM SkipsAreSound == Spec => SkipSound
<1>1. ASSUME IInv, Skip PROVE copies[Newest(rest)].stamp = stamp
  <2>1. rest # {} /\ copies[Newest(rest)].session = session /\ copies[Newest(rest)].writes = writes
    BY <1>1 DEF Skip, NothingNew
  <2>2. Newest(rest) \in DOMAIN copies
    BY <1>1, <2>1, NewestOf DEF IInv, TypeOK, PointsTyped, Ordered
  <2> QED
    BY <1>1, <2>1, <2>2, Numbers DEF IInv, Marks, AsOf
<1>2. IInv /\ [Next]_vars => (Skip => copies[Newest(rest)].stamp = stamp)
  BY <1>1
<1> QED
  BY <1>2, InductiveInvariant, PTL DEF Spec, SkipSound

(* A .partial directory is never removed while QEMU still writes a job     *)
(* into it.                                                                *)
THEOREM PartialsInUseAreKept == Spec => PartialInUseKept
<1>1. ASSUME IInv, [Next]_vars, NEW p \in partials \ partials' PROVE ~(node = p /\ job \in {"running", "cancelling"})
  <2>1. Clean \/ Publish
    BY <1>1, Steps DEF Ends, Skip, JobPending, PollFailed, KernelChanged,
       Finish, Fail, Die, backups, Opens, Begin, Proceed, Reap, NoJobs, Stage,
       Publishes, PruneFile, PruneDirectory, vars, Fetches, FetchKernel,
       FetchInitramfs, Count, CopiesDisk, AddTarget, StartJob, PollOk, Detach,
       CheckKernel, CheckInitramfs, Machine, JobCompletes, JobFails, VmExit,
       VmStart, GuestWrite
  <2> QED
    BY <1>1, <2>1 DEF IInv, Job, NoJobSteps, Clean, At, Publish
<1>2. IInv /\ [Next]_vars => \A p \in partials \ partials' : ~(node = p /\ job \in {"running", "cancelling"})
  BY <1>1
<1> QED
  BY <1>2, InductiveInvariant, PTL DEF Spec, PartialInUseKept
=============================================================================
