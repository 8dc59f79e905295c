-------------------------- MODULE Recovery_proofs --------------------------
(***************************************************************************)
(* Theorems about Recovery, for every value of its constants: every file   *)
(* keeps its kind, a half-applied restore or update is never booted, no VM *)
(* runs while a restore is pending, the point a restore copies from is     *)
(* kept, and no disk state the guest left behind is overwritten.           *)
(*                                                                         *)
(* None of them is inductive.  A command may be cut short between any two  *)
(* steps, so the invariant is in two parts: Data holds of the files alone, *)
(* whatever command was interrupted before, and Progress says what the     *)
(* command in progress has established so far.                             *)
(***************************************************************************)
EXTENDS Recovery, TLAPS

(* The point a pending restore copies from.                                *)
Source == snaps[journal.snap]

(* before-restore directories not yet handed out are empty.                *)
Unused == \A p \in PrevIds : p > nrestore => prev[p] = Nothing

(* A pending restore: its point is published, its directory handed out,    *)
(* and no recorded VM runs. A staged update moved aside is gone from the   *)
(* live files; a disk moved aside leaves QEMU off and, in its place,       *)
(* nothing, a copy of the point's or the base image of an init in between. *)
Pending ==
    journal # None =>
        /\ journal.snap \in DOMAIN snaps
        /\ journal.prev <= nrestore
        /\ ~Running
        /\ prev[journal.prev]["kupd"] # None => live["kupd"] = None
        /\ prev[journal.prev]["disk"] # None =>
              /\ vm = "off"
              /\ live["disk"] # None => live["disk"].stamp \in {0, Source.disk.stamp}

(* A published point has the kernel and initramfs its disk has installed;  *)
(* they count as delivered together, as the base image's do.               *)
Coherent ==
    /\ <<1, 1>> \in pairs
    /\ \A s \in DOMAIN snaps :
          /\ s <= nsnap
          /\ snaps[s].kernel = snaps[s].disk.k /\ snaps[s].initramfs = snaps[s].disk.k
          /\ <<snaps[s].disk.k, snaps[s].disk.k>> \in pairs

(* QEMU runs on a live disk, and what it booted is known while it runs.    *)
Qemu ==
    /\ vm # "off" => live["disk"] # None
    /\ vm = "off" <=> booted = None

(* The kernel and initramfs due with the live disk: the staged ones, if    *)
(* recorded.                                                               *)
Pair == IF live["kupd"] # None THEN live["kupd"] ELSE <<live["kernel"], live["initramfs"]>>

(* With no restore pending, the pair due was delivered together and is no  *)
(* newer than the kernel the disk has installed; without a disk nothing is *)
(* staged.                                                                 *)
Due ==
    journal = None =>
        IF live["disk"] = None THEN live["kupd"] = None
        ELSE /\ Pair \in pairs
             /\ Pair[1] <= live["disk"].k /\ Pair[2] <= live["disk"].k

(* DiskNeverLost, and the base image's stamp is not one of the guest.      *)
Owed == 0 \notin owed /\ DiskNeverLost

(* What holds between commands as well as inside them.                     *)
Data == Unused /\ Pending /\ Coherent /\ Qemu /\ Due /\ Owed /\ BootConsistent

(* The step of a command belongs to it, and to its side of the journal:    *)
(* what stages, boots or (in start) applies an update has none before it,  *)
(* and restore always has one.                                             *)
Owner ==
    /\ pc = "install" => op = "init"
    /\ pc \in {"validate", "save", "copy", "clear"} => op \in {"restore", "start"}
    /\ pc \in {"verify", "apply", "unstage", "clean"} => op \in {"start", "stop"}
    /\ pc \in {"boot", "record"} => op = "start"
    /\ pc = "off" => op = "stop"
    /\ pc \in {"fetch", "stage"} => op = "sync-kernel"
    /\ pc \in {"stage", "boot", "record"} => journal = None
    /\ op = "start" /\ pc \in {"verify", "apply", "unstage", "clean"} => journal = None
    /\ op = "restore" /\ pc = "validate" => journal # None

(* The walk of applyRestore has completed the file at position n.          *)
Past(n) == pc = "clear" \/ (pc \in {"save", "copy"} /\ at > n)

(* Inside applyRestore the files the walk has passed equal the point's,    *)
(* and the disk is only copied over once the old one is aside.             *)
Restoring ==
    /\ pc \in {"save", "copy", "clear"} => journal # None
    /\ pc = "copy" => at <= 3
    /\ pc = "copy" /\ at = 1 /\ live["disk"] # None => prev[journal.prev]["disk"] # None
    /\ Past(1) => vm = "off" /\ live["disk"] = Source.disk
    /\ Past(2) => live["kernel"] = Source.kernel
    /\ Past(3) => live["initramfs"] = Source.initramfs
    /\ Past(4) => live["kupd"] = None

(* Inside applyKernelUpdate the staged files are those recorded, and the   *)
(* files already put in place equal them.                                  *)
Updating ==
    /\ pc \in {"apply", "unstage"} =>
          live["kupd"] # None /\ live["kupd"] = <<live["knext"], live["inext"]>>
    /\ pc = "apply" => at <= 2
    /\ pc = "unstage" \/ (pc = "apply" /\ at > 1) => live["kernel"] = live["knext"]
    /\ pc = "unstage" => live["initramfs"] = live["inext"]
    /\ pc \in {"clean", "boot"} => live["kupd"] = None

(* Inside init there is no disk, and the files renamed are the base        *)
(* image's.                                                                *)
Installing ==
    pc = "install" =>
        /\ at <= 3
        /\ live["disk"] = None
        /\ at > 1 => live["kernel"] = 1
        /\ at > 2 => live["initramfs"] = 1

(* Inside sync-kernel nothing is recorded, and the files fetched are no    *)
(* newer than the kernel the disk has installed and no older than those in *)
(* place.                                                                  *)
Syncing ==
    /\ pc = "fetch" => at <= 2
    /\ pc \in {"fetch", "stage"} => live["kupd"] = None
    /\ pc = "stage" \/ (pc = "fetch" /\ at > 1) =>
          /\ live["disk"] # None /\ live["knext"] \in 1 .. live["disk"].k
          /\ live["kernel"] <= live["knext"]
    /\ pc = "stage" =>
          live["inext"] \in 1 .. live["disk"].k /\ live["initramfs"] <= live["inext"]

(* What each command has established at its next step.                     *)
Progress == Owner /\ Restoring /\ Updating /\ Installing /\ Syncing

(* The inductive invariant.                                                *)
IInv == TypeOK /\ Data /\ Progress

-----------------------------------------------------------------------------
(* The orders in which the files are visited, position by position.        *)
LEMMA Orders ==
    /\ Len(RestoreOrder) = 6 /\ Len(InstallOrder) = 3 /\ Len(UpdateOrder) = 2
    /\ RestoreOrder[1] = "disk" /\ RestoreOrder[2] = "kernel" /\ RestoreOrder[3] = "initramfs"
    /\ RestoreOrder[4] = "kupd" /\ RestoreOrder[5] = "knext" /\ RestoreOrder[6] = "inext"
    /\ InstallOrder[1] = "kernel" /\ InstallOrder[2] = "initramfs" /\ InstallOrder[3] = "disk"
    /\ UpdateOrder[1] = "kernel" /\ UpdateOrder[2] = "initramfs"
BY DEF RestoreOrder, InstallOrder, UpdateOrder

(* Writing a content of its kind into one file keeps a directory typed.    *)
LEMMA PutType ==
    ASSUME NEW m, IsFileMap(m), NEW f \in Files, NEW v \in Content(f) \cup {None}
    PROVE  IsFileMap([m EXCEPT ![f] = v])
BY DEF IsFileMap

(* The invariant holds initially, with or without an installed image.      *)
LEMMA InitIInv == Init => IInv
<1> SUFFICES ASSUME Init PROVE IInv
  OBVIOUS
<1>1. IsFileMap(Nothing)
  BY DEF IsFileMap, Nothing
<1>2. IsFileMap(Fresh)
  <2>1. /\ BaseImage["disk"] \in Content("disk") /\ BaseImage["kernel"] \in Content("kernel")
        /\ BaseImage["initramfs"] \in Content("initramfs")
    BY BoundsAssumption DEF BoundsAssumption, BaseImage, Content, Disks,
       Versions
  <2> QED
    BY <2>1 DEF IsFileMap, Fresh, BackupFiles
<1>3. TypeOK
  <2>1. /\ IsFileMap(live) /\ IsFileMap(before)
        /\ DOMAIN prev = PrevIds /\ \A p \in PrevIds : IsFileMap(prev[p])
    BY <1>1, <1>2 DEF Init
  <2>2. DOMAIN snaps = {}
    BY DEF Init
  <2>3. <<1, 1>> \in Versions \X Versions
    BY BoundsAssumption DEF BoundsAssumption, Versions
  <2>4. StoreTyped
    BY <2>1 DEF Init, StoreTyped
  <2>5. PointsTyped
    BY <2>2 DEF Init, PointsTyped
  <2>6. CommandTyped
    BY Orders DEF Init, CommandTyped
  <2>7. CountersTyped
    BY BoundsAssumption DEF Init, CountersTyped, BoundsAssumption
  <2>8. HistoryTyped
    BY <2>1, <2>3 DEF Init, HistoryTyped
  <2> QED
    BY <2>4, <2>5, <2>6, <2>7, <2>8 DEF TypeOK
<1>4. Data
  BY NoneAssumption DEF Init, Data, Unused, Pending, Coherent, Qemu, Due, Pair,
     Owed, DiskNeverLost, BootConsistent, Nothing, Fresh, BackupFiles, Files,
     BaseImage
<1>5. Progress
  BY DEF Init, Progress, Owner, Restoring, Past, Updating, Installing, Syncing
<1> QED
  BY <1>3, <1>4, <1>5 DEF IInv

(* Each part of the invariant depends on some of the variables only: a     *)
(* step that leaves those alone preserves it.                              *)
LEMMA Frame ==
    ASSUME IInv
    PROVE  /\ UNCHANGED store => StoreTyped'
           /\ UNCHANGED points => PointsTyped'
           /\ UNCHANGED <<vm, nstamp, nsnap, nrestore>> => CountersTyped'
           /\ UNCHANGED history => HistoryTyped'
           /\ UNCHANGED <<prev, nrestore>> => Unused'
           /\ UNCHANGED <<journal, snaps, nrestore, vm, prev, live["disk"], live["kupd"]>> => Pending'
           /\ UNCHANGED <<snaps, nsnap, pairs>> => Coherent'
           /\ UNCHANGED <<vm, booted, live["disk"]>> => Qemu'
           /\ UNCHANGED <<journal, pairs, live>> => Due'
           /\ UNCHANGED <<owed, prev, live["disk"]>> => Owed'
           /\ UNCHANGED <<booted, pairs>> => BootConsistent'
           /\ UNCHANGED command => CommandTyped'
           /\ UNCHANGED <<op, pc, journal>> => Owner'
           /\ UNCHANGED <<pc, at, journal, snaps, vm, prev, live>> => Restoring'
           /\ UNCHANGED <<pc, at, live>> => Updating' /\ Installing' /\ Syncing'
<1>1. UNCHANGED store => StoreTyped'
  BY DEF IInv, TypeOK, StoreTyped, IsFileMap, store
<1>2. UNCHANGED points => PointsTyped'
  BY DEF IInv, TypeOK, PointsTyped, points
<1>3. UNCHANGED <<vm, nstamp, nsnap, nrestore>> => CountersTyped'
  BY DEF IInv, TypeOK, CountersTyped
<1>4. UNCHANGED history => HistoryTyped'
  BY DEF IInv, TypeOK, HistoryTyped, IsFileMap, history
<1>5. UNCHANGED command => CommandTyped'
  BY DEF IInv, TypeOK, CommandTyped, command
<1>6. UNCHANGED <<prev, nrestore>> => Unused'
  BY DEF IInv, Data, Unused
<1>7. UNCHANGED <<journal, snaps, nrestore, vm, prev, live["disk"], live["kupd"]>> => Pending'
  BY DEF IInv, Data, Pending, Source, Running
<1>8. UNCHANGED <<snaps, nsnap, pairs>> => Coherent'
  BY DEF IInv, Data, Coherent
<1>9. UNCHANGED <<vm, booted, live["disk"]>> => Qemu'
  BY DEF IInv, Data, Qemu
<1>10. UNCHANGED <<journal, pairs, live>> => Due'
  BY DEF IInv, Data, Due, Pair
<1>11. UNCHANGED <<owed, prev, live["disk"]>> => Owed'
  BY DEF IInv, Data, Owed, DiskNeverLost, Preserved
<1>12. UNCHANGED <<booted, pairs>> => BootConsistent'
  BY DEF IInv, Data, BootConsistent
<1>13. UNCHANGED <<op, pc, journal>> => Owner'
  BY DEF IInv, Progress, Owner
<1>14. UNCHANGED <<pc, at, journal, snaps, vm, prev, live>> => Restoring'
  BY DEF IInv, Progress, Restoring, Past, Source
<1>15. UNCHANGED <<pc, at, live>> => Updating' /\ Installing' /\ Syncing'
  BY DEF IInv, Progress, Updating, Installing, Syncing
<1> QED
  BY <1>1, <1>2, <1>3, <1>4, <1>5, <1>6, <1>7, <1>8, <1>9, <1>10, <1>11, <1>12,
     <1>13, <1>14, <1>15

-----------------------------------------------------------------------------
(* The steps that move no file: they begin a command, look, or end it      *)
(* early.                                                                  *)
Quiet ==
    \/ InitBegin \/ StartBegin \/ StopBegin
    \/ Validate \/ VerifyUpdate \/ StopSeesOff
    \/ Abort

(* They preserve the invariant: Data is untouched, and the step they lead  *)
(* to asks for what they have just checked.                                *)
LEMMA QuietStep == ASSUME IInv, Quiet PROVE IInv'
<1>1. UNCHANGED <<store, points, vm, nstamp, nrestore, history>>
  BY DEF Quiet, InitBegin, StartBegin, StopBegin, Validate, VerifyUpdate,
     StopSeesOff, Abort
<1>2. CommandTyped'
  BY Orders, BoundsAssumption DEF IInv, TypeOK, CommandTyped, BoundsAssumption,
     Quiet, InitBegin, StartBegin, StopBegin, Validate, VerifyUpdate,
     StopSeesOff, Abort, Acquire, Issued, Goto, Release, AfterUpdate
<1>3. Progress'
  BY <1>1 DEF IInv, Data, Pending, Due, Qemu, TypeOK, CommandTyped, StoreTyped,
     Progress, Owner, Restoring, Past, Source, Updating, Installing, Syncing,
     store, points, history, Quiet, InitBegin, StartBegin, StopBegin, Validate,
     VerifyUpdate, StopSeesOff, Abort, Acquire, Issued, Goto, Release,
     AfterUpdate
<1>4. /\ StoreTyped' /\ PointsTyped' /\ CountersTyped' /\ HistoryTyped'
      /\ Unused' /\ Pending' /\ Coherent' /\ Qemu' /\ Due' /\ Owed' /\ BootConsistent'
  BY <1>1, Frame DEF store, points, history
<1> QED
  BY <1>2, <1>3, <1>4 DEF IInv, TypeOK, Data

(* init renames the base image's files into place: each is of its kind.    *)
LEMMA InstallStoreTyped == ASSUME IInv, InstallFile PROVE StoreTyped'
<1>1. InstallOrder[at] \in Files /\ BaseImage[InstallOrder[at]] \in Content(InstallOrder[at])
  <2>1. BaseImage["disk"] \in Disks /\ BaseImage["kernel"] \in Versions /\ BaseImage["initramfs"] \in Versions
    BY BoundsAssumption DEF BoundsAssumption, BaseImage, Disks, Versions
  <2>2. at \in {1, 2, 3}
    BY DEF IInv, TypeOK, CommandTyped, Progress, Installing, InstallFile
  <2>3. InstallOrder[at] \in BackupFiles
    BY <2>2, Orders DEF BackupFiles
  <2> QED
    BY <2>1, <2>3 DEF Content, Files, BackupFiles
<1> QED
  BY <1>1, PutType DEF IInv, TypeOK, StoreTyped, InstallFile

(* When init has renamed the disk, the last file, the kernel and initramfs *)
(* beside it are the base image's, and nothing is staged: kernel-          *)
(* update.json cannot be there without a disk.                             *)
LEMMA InstallDue == ASSUME IInv, InstallFile PROVE Due'
<1>1. live["disk"] = None /\ at \in {1, 2, 3} /\ (at > 1 => live["kernel"] = 1) /\ (at > 2 => live["initramfs"] = 1)
  BY DEF IInv, TypeOK, CommandTyped, Progress, Installing, InstallFile
<1>2. CASE at = 3
  <2>1. live'["disk"] = BaseImage.disk /\ live'["kupd"] = live["kupd"]
        /\ live'["kernel"] = 1 /\ live'["initramfs"] = 1
    BY <1>1, <1>2, Orders DEF IInv, TypeOK, StoreTyped, IsFileMap, Files,
       BackupFiles, InstallFile, BaseImage
  <2>2. journal' = journal /\ pairs' = pairs
    BY DEF InstallFile, history
  <2>3. <<1, 1>> \in pairs
    BY DEF IInv, Data, Coherent
  <2> QED
    BY <1>1, <2>1, <2>2, <2>3 DEF IInv, Data, Due, Pair, BaseImage
<1>3. CASE at # 3
  <2>1. live'["disk"] = None /\ live'["kupd"] = live["kupd"]
    BY <1>1, <1>3, Orders DEF IInv, TypeOK, StoreTyped, IsFileMap, Files,
       BackupFiles, InstallFile
  <2> QED
    BY <1>1, <2>1 DEF IInv, Data, Due, InstallFile
<1> QED
  BY <1>2, <1>3

(* init: while it runs there is no disk, and the files already renamed are *)
(* the base image's.                                                       *)
LEMMA InstallStep == ASSUME IInv, InstallFile PROVE IInv'
<1>1. /\ PointsTyped' /\ CountersTyped' /\ HistoryTyped' /\ Unused'
      /\ Coherent' /\ BootConsistent'
  BY Frame DEF InstallFile, points, history
<1>2. StoreTyped'
  BY InstallStoreTyped
<1>3. CommandTyped'
  BY Orders DEF IInv, InstallFile, TypeOK, CommandTyped, Release
<1>4. Pending'
  BY Orders DEF IInv, InstallFile, Data, Pending, Running, BaseImage, points,
     TypeOK, CommandTyped, Progress, Installing
<1>5. Qemu'
  BY DEF IInv, InstallFile, Data, Qemu, history, Held
<1>6. Due'
  BY InstallDue
<1>7. Owed'
  BY DEF IInv, InstallFile, Data, Owed, DiskNeverLost, Preserved, history,
     Progress, Installing
<1>8. Installing'
  BY Orders DEF IInv, InstallFile, Progress, Installing, BaseImage, Release,
     TypeOK, StoreTyped, CommandTyped, IsFileMap, Files, BackupFiles
<1>9. Owner' /\ Restoring' /\ Updating' /\ Syncing'
  BY DEF IInv, InstallFile, Progress, Owner, Release, Restoring, Past,
     Updating, Syncing
<1> QED
  BY <1>1, <1>2, <1>3, <1>4, <1>5, <1>6, <1>7, <1>8, <1>9 DEF IInv, TypeOK,
     Data, Progress

(* The files noted when a restore is accepted are typed as the live ones   *)
(* are.                                                                    *)
LEMMA RestoreHistory ==
    ASSUME IInv, NEW s \in SnapIds, RestoreBegin(s)
    PROVE  HistoryTyped'
BY DEF IInv, TypeOK, StoreTyped, HistoryTyped, RestoreBegin, IsFileMap

(* A restore is accepted with a new before-restore directory, still empty, *)
(* and with the VM off or not yet recorded.                                *)
LEMMA RestorePending ==
    ASSUME IInv, NEW s \in SnapIds, RestoreBegin(s)
    PROVE  Pending'
<1>1. prev[nrestore + 1] = Nothing /\ nrestore + 1 \in PrevIds
  BY BoundsAssumption DEF IInv, TypeOK, CountersTyped, Data, Unused,
     RestoreBegin, PrevIds, BoundsAssumption
<1> QED
  BY <1>1 DEF RestoreBegin, Pending, Nothing, Files, BackupFiles, Running,
     ValidPoint, points

(* restore, accepted: the source of the journal is a published point and   *)
(* its before-restore directory is new.                                    *)
LEMMA RestoreStep ==
    ASSUME IInv, NEW s \in SnapIds, RestoreBegin(s)
    PROVE  IInv'
<1>1. PointsTyped' /\ Coherent' /\ Qemu' /\ Owed' /\ BootConsistent'
  BY Frame DEF RestoreBegin, points
<1>2. StoreTyped'
  BY BoundsAssumption DEF IInv, RestoreBegin, TypeOK, StoreTyped,
     CountersTyped, PrevIds
<1>3. CommandTyped'
  BY DEF IInv, RestoreBegin, TypeOK, CommandTyped, Acquire, Issued
<1>4. CountersTyped'
  BY BoundsAssumption DEF IInv, RestoreBegin, TypeOK, CountersTyped, points
<1>5. HistoryTyped'
  BY RestoreHistory
<1>6. Unused'
  BY DEF IInv, RestoreBegin, TypeOK, CountersTyped, Data, Unused, PrevIds
<1>7. Pending'
  BY RestorePending
<1>8. Due'
  BY DEF IInv, RestoreBegin, Data, Due, Pair
<1>9. Owner'
  BY BoundsAssumption, NoneAssumption DEF IInv, RestoreBegin, TypeOK,
     CountersTyped, Owner, PrevIds, Acquire
<1>10. Restoring' /\ Updating' /\ Installing' /\ Syncing'
  BY DEF IInv, RestoreBegin, Restoring, Past, Acquire, Updating, Installing,
     Syncing
<1> QED
  BY <1>1, <1>2, <1>3, <1>4, <1>5, <1>6, <1>7, <1>8, <1>9, <1>10 DEF IInv,
     TypeOK, Data, Progress

(* What is saved goes to the directory of the journal, one already         *)
(* counted.                                                                *)
LEMMA SaveUnused == ASSUME IInv, Save PROVE Unused'
<1>1. journal # None /\ journal.prev <= nrestore /\ nrestore' = nrestore
  BY DEF IInv, Data, Pending, Progress, Restoring, Save
<1>2. ASSUME NEW p \in PrevIds, p > nrestore PROVE prev'[p] = prev[p]
  <2>1. p # journal.prev
    BY <1>1, <1>2, BoundsAssumption DEF IInv, TypeOK, StoreTyped,
       CountersTyped, PrevIds, BoundsAssumption
  <2> QED
    BY <2>1 DEF IInv, TypeOK, StoreTyped, Save
<1> QED
  BY <1>1, <1>2 DEF IInv, Data, Unused

(* A file moved aside is in the before-restore directory, and the walk     *)
(* goes on; a disk is moved only with QEMU off.                            *)
LEMMA SaveStep == ASSUME IInv, Save PROVE IInv'
<1>1. /\ PointsTyped' /\ CountersTyped' /\ HistoryTyped' /\ Coherent'
      /\ BootConsistent'
  BY Frame DEF Save, points, history
<1>2. StoreTyped'
  BY DEF IInv, Save, TypeOK, StoreTyped, IsFileMap
<1>3. CommandTyped'
  BY DEF IInv, Save, TypeOK, CommandTyped, Goto, Advance
<1>4. Unused'
  BY SaveUnused
<1>5. Pending'
  BY DEF IInv, Save, Data, Pending, Source, Running, points, Held, TypeOK,
     StoreTyped, IsFileMap, Files, BackupFiles
<1>6. Qemu'
  BY DEF IInv, Save, Data, Qemu, history, Held, TypeOK, StoreTyped, IsFileMap,
     Files, BackupFiles
<1>7. Due'
  BY DEF IInv, Save, Due, Progress, Restoring
<1>8. Owed'
  BY Orders DEF IInv, Save, Data, Owed, DiskNeverLost, Preserved, history,
     TypeOK, StoreTyped, IsFileMap, Files, BackupFiles, Progress, Restoring
<1>9. Restoring'
  BY Orders DEF IInv, Save, Progress, Restoring, Past, Source, points, Goto,
     Advance, TypeOK, StoreTyped, CommandTyped, IsFileMap, Files, BackupFiles,
     Data, Pending
<1>10. Owner' /\ Updating' /\ Installing' /\ Syncing'
  BY DEF IInv, Save, Progress, Owner, Goto, Advance, Updating, Installing,
     Syncing
<1> QED
  BY <1>1, <1>2, <1>3, <1>4, <1>5, <1>6, <1>7, <1>8, <1>9, <1>10 DEF IInv,
     TypeOK, Data, Progress

(* What restore copies over a live file is the point's file of that kind.  *)
LEMMA CopyStoreTyped == ASSUME IInv, Copy PROVE StoreTyped'
<1>1. Source \in Generation /\ at \in {1, 2, 3}
  BY DEF IInv, Progress, Restoring, Data, Pending, TypeOK, CommandTyped,
     PointsTyped, Source, Copy
<1>2. RestoreOrder[at] \in Files /\ Source[RestoreOrder[at]] \in Content(RestoreOrder[at])
  BY <1>1, Orders DEF Files, BackupFiles, Content, Generation
<1> QED
  BY <1>2, PutType DEF IInv, TypeOK, StoreTyped, Copy, Source

(* The disk restore overwrites is not one the guest left behind: by then   *)
(* the old one lies in the before-restore directory, and a live one can    *)
(* only be the base image or an earlier copy of the point's.               *)
LEMMA CopyOwed == ASSUME IInv, Copy PROVE Owed'
<1>1. Source \in Generation /\ Source.disk # None /\ prev' = prev /\ owed' = owed
  <2>1. Source \in Generation
    BY DEF IInv, Progress, Restoring, Data, Pending, TypeOK, PointsTyped,
       Source, Copy
  <2> QED
    BY <2>1, NoneAssumption DEF Generation, Content, Files, BackupFiles, Copy,
       history
<1>2. CASE at = 1
  <2>1. live'["disk"] = Source.disk
    BY <1>2, Orders DEF IInv, TypeOK, StoreTyped, IsFileMap, Files,
       BackupFiles, Copy, Source
  <2>2. live["disk"] # None => live["disk"].stamp \in {0, Source.disk.stamp}
    BY <1>2 DEF IInv, Progress, Restoring, Data, Pending, Copy
  <2>3. ASSUME NEW stamp \in owed PROVE Preserved(stamp)'
    BY <1>1, <2>1, <2>2, <2>3 DEF IInv, Data, Owed, DiskNeverLost, Preserved
  <2> QED
    BY <1>1, <2>3 DEF IInv, Data, Owed, DiskNeverLost
<1>3. CASE at # 1
  <2>1. live'["disk"] = live["disk"]
    BY <1>3, Orders DEF IInv, TypeOK, StoreTyped, CommandTyped, IsFileMap,
       Files, BackupFiles, Progress, Restoring, Copy
  <2> QED
    BY <1>1, <2>1, Frame
<1> QED
  BY <1>2, <1>3

(* A file copied from the point: what the walk has passed equals the       *)
(* source.                                                                 *)
LEMMA CopyStep == ASSUME IInv, Copy PROVE IInv'
<1>1. /\ PointsTyped' /\ CountersTyped' /\ HistoryTyped' /\ Unused'
      /\ Coherent' /\ BootConsistent'
  BY Frame DEF Copy, points, history
<1>2. StoreTyped'
  BY CopyStoreTyped
<1>3. CommandTyped'
  BY DEF IInv, Copy, TypeOK, CommandTyped, Goto, Advance
<1>4. Pending'
  BY Orders DEF IInv, Copy, Data, Pending, Source, Running, points, TypeOK,
     CommandTyped, Progress, Restoring
<1>5. Qemu'
  BY DEF IInv, Copy, Data, Qemu, history, Held
<1>6. Due'
  BY DEF IInv, Copy, Due, Progress, Restoring
<1>7. Owed'
  BY CopyOwed
<1>8. Restoring'
  BY Orders DEF IInv, Copy, Progress, Restoring, Past, Source, points,
     Advance, Held, TypeOK, StoreTyped, CommandTyped, IsFileMap, Files,
     BackupFiles
<1>9. Owner' /\ Updating' /\ Installing' /\ Syncing'
  BY DEF IInv, Copy, Progress, Owner, Goto, Advance, Updating, Installing,
     Syncing
<1> QED
  BY <1>1, <1>2, <1>3, <1>4, <1>5, <1>6, <1>7, <1>8, <1>9 DEF IInv, TypeOK,
     Data, Progress

(* When the journal is removed the live files are those of the point,      *)
(* whose kernel is the one its disk has installed.                         *)
LEMMA ClearDue == ASSUME IInv, ClearJournal PROVE Due'
<1>1. /\ journal # None /\ live["disk"] = Source.disk /\ live["kernel"] = Source.kernel
      /\ live["initramfs"] = Source.initramfs /\ live["kupd"] = None
  BY DEF IInv, Progress, Restoring, Past, ClearJournal
<1>2. Source \in Generation /\ Source.kernel = Source.disk.k /\ Source.initramfs = Source.disk.k
      /\ <<Source.disk.k, Source.disk.k>> \in pairs
  BY <1>1 DEF IInv, Data, Pending, Coherent, TypeOK, PointsTyped, Source
<1>3. Source.disk.k \in Nat
  BY <1>2, BoundsAssumption DEF BoundsAssumption, Generation, Disks, Versions
<1>4. Pair = <<Source.disk.k, Source.disk.k>>
  BY <1>1, <1>2 DEF Pair
<1>5. Pair' = Pair /\ pairs' = pairs /\ live' = live
  BY DEF ClearJournal, Pair
<1>6. Source.disk # None
  BY <1>2, NoneAssumption DEF Generation, Files, BackupFiles, Content
<1> QED
  BY <1>1, <1>2, <1>3, <1>4, <1>5, <1>6 DEF Due

(* The journal removed: the installed generation is now in the live files. *)
LEMMA ClearStep == ASSUME IInv, ClearJournal PROVE IInv'
<1>1. /\ PointsTyped' /\ CountersTyped' /\ Unused' /\ Coherent' /\ Qemu'
      /\ Owed' /\ BootConsistent'
  BY Frame DEF ClearJournal, points
<1>2. StoreTyped'
  BY DEF IInv, ClearJournal, TypeOK, StoreTyped
<1>3. CommandTyped'
  BY DEF IInv, ClearJournal, TypeOK, CommandTyped, Goto, Release
<1>4. HistoryTyped'
  BY DEF IInv, ClearJournal, TypeOK, HistoryTyped, IsFileMap, Nothing
<1>5. Pending'
  BY DEF IInv, ClearJournal, Pending
<1>6. Due'
  BY ClearDue
<1>7. Owner' /\ Restoring' /\ Updating' /\ Installing' /\ Syncing'
  BY DEF IInv, ClearJournal, Owner, Goto, Release, Restoring, Past, Updating,
     Installing, Syncing
<1> QED
  BY <1>1, <1>2, <1>3, <1>4, <1>5, <1>6, <1>7 DEF IInv, TypeOK, Data, Progress

(* The staged kernel and initramfs are put in place under names of their   *)
(* kind.                                                                   *)
LEMMA ApplyStoreTyped == ASSUME IInv, ApplyFile PROVE StoreTyped'
<1>1. at \in {1, 2}
  BY DEF IInv, TypeOK, CommandTyped, Progress, Updating, ApplyFile
<1>2. UpdateOrder[at] \in Files /\ live[Staged(UpdateOrder[at])] \in Content(UpdateOrder[at]) \cup {None}
  BY <1>1, Orders DEF IInv, TypeOK, StoreTyped, IsFileMap, Files, BackupFiles,
     Content, Staged
<1> QED
  BY <1>2, PutType DEF IInv, TypeOK, StoreTyped, ApplyFile

(* A staged file put in place: kernel-update.json still names what will    *)
(* boot.                                                                   *)
LEMMA ApplyStep == ASSUME IInv, ApplyFile PROVE IInv'
<1>1. /\ PointsTyped' /\ CountersTyped' /\ HistoryTyped' /\ Unused'
      /\ Coherent' /\ BootConsistent'
  BY Frame DEF ApplyFile, points, history
<1>2. StoreTyped'
  BY ApplyStoreTyped
<1>3. CommandTyped'
  BY Orders DEF IInv, ApplyFile, TypeOK, CommandTyped, Goto, Advance
<1>4. Pending'
  BY Orders DEF IInv, ApplyFile, Data, Pending, Source, Running, points,
     TypeOK, CommandTyped, Progress, Updating
<1>5. Qemu'
  BY DEF IInv, ApplyFile, Data, Qemu, history, Held
<1>6. Due'
  BY Orders DEF IInv, ApplyFile, Data, Due, Pair, history, TypeOK,
     CommandTyped, Progress, Updating
<1>7. Owed'
  BY Orders DEF IInv, ApplyFile, Data, Owed, DiskNeverLost, Preserved,
     history, TypeOK, CommandTyped, Progress, Updating
<1>8. Updating'
  BY Orders DEF IInv, ApplyFile, Progress, Updating, Goto, Advance, Staged,
     TypeOK, StoreTyped, CommandTyped, IsFileMap, Files, BackupFiles
<1>9. Owner' /\ Restoring' /\ Installing' /\ Syncing'
  BY DEF IInv, ApplyFile, Progress, Owner, Goto, Advance, Restoring, Past,
     Installing, Syncing
<1> QED
  BY <1>1, <1>2, <1>3, <1>4, <1>5, <1>6, <1>7, <1>8, <1>9 DEF IInv, TypeOK,
     Data, Progress

(* kernel-update.json removed: both files it names are in place.           *)
LEMMA UnstageStep == ASSUME IInv, Unstage PROVE IInv'
<1>1. /\ PointsTyped' /\ CountersTyped' /\ HistoryTyped' /\ Unused'
      /\ Coherent' /\ BootConsistent'
  BY Frame DEF Unstage, points, history
<1>2. StoreTyped'
  BY DEF IInv, Unstage, TypeOK, StoreTyped, IsFileMap
<1>3. CommandTyped'
  BY DEF IInv, Unstage, TypeOK, CommandTyped, Goto
<1>4. Pending'
  BY DEF IInv, Unstage, Data, Pending, Source, Running, points
<1>5. Qemu'
  BY DEF IInv, Unstage, Data, Qemu, history
<1>6. Due'
  BY DEF IInv, Unstage, Data, Due, Pair, history, Progress, Updating
<1>7. Owed'
  BY DEF IInv, Unstage, Data, Owed, DiskNeverLost, Preserved, history
<1>8. Updating'
  BY DEF IInv, Unstage, Updating, Goto, TypeOK, StoreTyped, IsFileMap, Files
<1>9. Owner' /\ Restoring' /\ Installing' /\ Syncing'
  BY DEF IInv, Unstage, Progress, Owner, Goto, Restoring, Past, Installing,
     Syncing
<1> QED
  BY <1>1, <1>2, <1>3, <1>4, <1>5, <1>6, <1>7, <1>8, <1>9 DEF IInv, TypeOK,
     Data, Progress

(* Removing the staged originals touches neither the live files nor        *)
(* kernel-update.json.                                                     *)
LEMMA CleanFiles ==
    ASSUME IInv, CleanNext
    PROVE  /\ StoreTyped'
           /\ \A f \in BackupFiles \cup {"kupd"} : live'[f] = live[f]
<1>1. PICK gone \in SUBSET {"knext", "inext"} :
         live' = [f \in Files |-> IF f \in gone THEN None ELSE live[f]]
  BY DEF CleanNext
<1>2. IsFileMap(live')
  BY <1>1 DEF IInv, TypeOK, StoreTyped, IsFileMap
<1>3. \A f \in BackupFiles \cup {"kupd"} : live'[f] = live[f]
  BY <1>1 DEF Files, BackupFiles
<1> QED
  BY <1>2, <1>3 DEF IInv, TypeOK, StoreTyped, CleanNext

(* The staged originals removed: nothing depends on them any more.         *)
LEMMA CleanStep == ASSUME IInv, CleanNext PROVE IInv'
<1>1. /\ PointsTyped' /\ CountersTyped' /\ HistoryTyped' /\ Unused'
      /\ Coherent' /\ BootConsistent'
  BY Frame DEF CleanNext, points, history
<1>2. StoreTyped'
  BY CleanFiles
<1>3. CommandTyped'
  BY DEF IInv, CleanNext, TypeOK, CommandTyped, Goto, Release, AfterUpdate
<1>4. Pending'
  BY DEF IInv, CleanNext, Data, Pending, Source, Running, points, Files,
     BackupFiles
<1>5. Qemu'
  BY DEF IInv, CleanNext, Data, Qemu, history, Files, BackupFiles
<1>6. Due'
  BY DEF IInv, CleanNext, Data, Due, Pair, history, Files, BackupFiles
<1>7. Owed'
  BY DEF IInv, CleanNext, Data, Owed, DiskNeverLost, Preserved, history,
     Files, BackupFiles
<1>8. Updating'
  BY DEF IInv, CleanNext, Progress, Updating, Goto, Release, AfterUpdate,
     Files
<1>9. Owner' /\ Restoring' /\ Installing' /\ Syncing'
  BY DEF IInv, CleanNext, Progress, Owner, Goto, Release, AfterUpdate,
     Restoring, Past, Installing, Syncing
<1> QED
  BY <1>1, <1>2, <1>3, <1>4, <1>5, <1>6, <1>7, <1>8, <1>9 DEF IInv, TypeOK,
     Data, Progress

(* The launch: no journal and nothing staged, so the live pair is the one  *)
(* due.                                                                    *)
LEMMA BootStep == ASSUME IInv, Boot PROVE IInv'
<1>1. /\ StoreTyped' /\ PointsTyped' /\ Unused' /\ Coherent' /\ Due'
      /\ Owed'
  BY Frame DEF Boot, store, points
<1>2. CommandTyped'
  BY DEF IInv, Boot, TypeOK, CommandTyped, Goto
<1>3. CountersTyped'
  BY DEF IInv, Boot, TypeOK, CountersTyped, points
<1>4. HistoryTyped'
  BY DEF IInv, Boot, TypeOK, HistoryTyped, IsFileMap, StoreTyped, Files,
     BackupFiles, Content, Disks
<1>5. Pending'
  BY DEF IInv, Boot, Pending, store, Progress, Owner
<1>6. Qemu'
  BY NoneAssumption DEF IInv, Boot, Qemu, store, TypeOK, StoreTyped,
     IsFileMap, Files, BackupFiles, Content, Disks
<1>7. BootConsistent'
  BY DEF IInv, Boot, Data, BootConsistent, BackupFiles, Progress, Owner,
     Updating, Due, Pair
<1>8. Owner' /\ Restoring' /\ Updating' /\ Installing' /\ Syncing'
  BY DEF IInv, Boot, Progress, Owner, store, Goto, Restoring, Past, Updating,
     Installing, Syncing
<1> QED
  BY <1>1, <1>2, <1>3, <1>4, <1>5, <1>6, <1>7, <1>8 DEF IInv, TypeOK, Data,
     Progress

(* The running QEMU is recorded: a VM the launcher knows of has no         *)
(* journal.                                                                *)
LEMMA RecordStep == ASSUME IInv, Record PROVE IInv'
<1>1. /\ StoreTyped' /\ PointsTyped' /\ HistoryTyped' /\ Unused'
      /\ Coherent' /\ Due' /\ Owed' /\ BootConsistent'
  BY Frame DEF Record, store, points, history
<1>2. CommandTyped'
  BY DEF IInv, Record, TypeOK, CommandTyped, Release
<1>3. CountersTyped'
  BY DEF IInv, Record, TypeOK, CountersTyped, points
<1>4. Pending'
  BY DEF IInv, Record, Pending, store, Progress, Owner
<1>5. Qemu'
  BY DEF IInv, Record, Data, Qemu, store, history
<1>6. Owner' /\ Restoring' /\ Updating' /\ Installing' /\ Syncing'
  BY DEF IInv, Record, Owner, Release, Restoring, Past, Updating, Installing,
     Syncing
<1> QED
  BY <1>1, <1>2, <1>3, <1>4, <1>5, <1>6 DEF IInv, TypeOK, Data, Progress

(* The launch is undone: QEMU is off and nothing is booted.                *)
LEMMA RecordFailsStep == ASSUME IInv, RecordFails PROVE IInv'
<1>1. /\ StoreTyped' /\ PointsTyped' /\ Unused' /\ Coherent' /\ Due'
      /\ Owed'
  BY Frame DEF RecordFails, store, points
<1>2. CommandTyped'
  BY DEF IInv, RecordFails, TypeOK, CommandTyped, Release
<1>3. CountersTyped'
  BY DEF IInv, RecordFails, TypeOK, CountersTyped, points
<1>4. HistoryTyped'
  BY DEF IInv, RecordFails, TypeOK, HistoryTyped
<1>5. Pending'
  BY DEF IInv, RecordFails, Data, Pending, Source, Running, store, points
<1>6. Qemu'
  BY DEF IInv, RecordFails, Qemu
<1>7. BootConsistent'
  BY DEF IInv, RecordFails, BootConsistent
<1>8. Owner' /\ Restoring' /\ Updating' /\ Installing' /\ Syncing'
  BY DEF IInv, RecordFails, Owner, Release, Restoring, Past, Updating,
     Installing, Syncing
<1> QED
  BY <1>1, <1>2, <1>3, <1>4, <1>5, <1>6, <1>7, <1>8 DEF IInv, TypeOK, Data,
     Progress

(* QEMU ends on its own.                                                   *)
LEMMA ExitStep == ASSUME IInv, VmExit PROVE IInv'
<1>1. /\ StoreTyped' /\ PointsTyped' /\ CommandTyped' /\ Unused'
      /\ Coherent' /\ Due' /\ Owed' /\ Owner' /\ Updating' /\ Installing'
      /\ Syncing'
  BY Frame DEF VmExit, store, points, command
<1>2. CountersTyped'
  BY DEF IInv, VmExit, TypeOK, CountersTyped, points
<1>3. HistoryTyped'
  BY DEF IInv, VmExit, TypeOK, HistoryTyped
<1>4. Pending'
  BY DEF IInv, VmExit, Data, Pending, Running, store, points
<1>5. Qemu'
  BY DEF IInv, VmExit, Qemu
<1>6. BootConsistent'
  BY DEF IInv, VmExit, BootConsistent
<1>7. Restoring'
  BY DEF IInv, VmExit, Progress, Restoring, Past, Source, store, points,
     command
<1> QED
  BY <1>1, <1>2, <1>3, <1>4, <1>5, <1>6, <1>7 DEF IInv, TypeOK, Data, Progress

(* sync-kernel begins only with nothing staged, and truncates a staged     *)
(* file.                                                                   *)
LEMMA SyncBeginStep == ASSUME IInv, SyncBegin PROVE IInv'
<1>1. /\ PointsTyped' /\ CountersTyped' /\ HistoryTyped' /\ Unused'
      /\ Coherent' /\ BootConsistent'
  BY Frame DEF SyncBegin, points, history
<1>2. StoreTyped'
  BY DEF IInv, SyncBegin, TypeOK, StoreTyped, IsFileMap
<1>3. CommandTyped'
  BY BoundsAssumption DEF IInv, SyncBegin, TypeOK, CommandTyped, Acquire,
     Issued
<1>4. Pending'
  BY DEF IInv, SyncBegin, Data, Pending, Source, Running, points
<1>5. Qemu'
  BY DEF IInv, SyncBegin, Data, Qemu, history
<1>6. Due'
  BY DEF IInv, SyncBegin, Data, Due, Pair, history
<1>7. Owed'
  BY DEF IInv, SyncBegin, Data, Owed, DiskNeverLost, Preserved, history
<1>8. Owner' /\ Restoring' /\ Updating' /\ Installing' /\ Syncing'
  BY DEF IInv, SyncBegin, Owner, Acquire, Restoring, Past, Updating,
     Installing, Syncing
<1> QED
  BY <1>1, <1>2, <1>3, <1>4, <1>5, <1>6, <1>7, <1>8 DEF IInv, TypeOK, Data,
     Progress

(* What sync-kernel fetches is a kernel version of the running guest.      *)
LEMMA FetchStoreTyped == ASSUME IInv, SyncFetch PROVE StoreTyped'
<1>1. live["disk"] # None /\ live["disk"].k \in Versions
  BY DEF IInv, Data, Qemu, Running, SyncFetch, TypeOK, StoreTyped, IsFileMap,
     Files, BackupFiles, Content, Disks
<1>2. at \in {1, 2}
  BY DEF IInv, TypeOK, CommandTyped, Progress, Syncing, SyncFetch
<1>3. IsFileMap(live')
  <2> DEFINE m == [live EXCEPT ![Staged(UpdateOrder[at])] = live["disk"].k]
             v == IF UpdateOrder[at] = "kernel" THEN None ELSE live["disk"].k
  <2>1. IsFileMap(m)
    BY <1>1, <1>2, Orders, PutType DEF IInv, TypeOK, StoreTyped, Staged, Files,
       BackupFiles, Content
  <2>2. "inext" \in Files /\ v \in Content("inext") \cup {None}
    BY <1>1 DEF Files, BackupFiles, Content
  <2>3. live' = [m EXCEPT !["inext"] = v]
    BY DEF SyncFetch
  <2> HIDE DEF m, v
  <2> QED
    BY <2>1, <2>2, <2>3, PutType
<1> QED
  BY <1>3 DEF IInv, TypeOK, StoreTyped, SyncFetch

(* A file fetched: a version no newer than the disk's, and later the disk  *)
(* only moves forward.                                                     *)
LEMMA FetchStep == ASSUME IInv, SyncFetch PROVE IInv'
<1>1. /\ PointsTyped' /\ CountersTyped' /\ HistoryTyped' /\ Unused'
      /\ Coherent' /\ BootConsistent'
  BY Frame DEF SyncFetch, points, history
<1>2. StoreTyped'
  BY FetchStoreTyped
<1>3. CommandTyped'
  BY Orders DEF IInv, SyncFetch, TypeOK, CommandTyped, Goto, Advance
<1>4. Pending'
  BY DEF IInv, SyncFetch, Data, Pending
<1>5. Qemu'
  BY DEF IInv, SyncFetch, Data, Qemu, history, Staged, TypeOK, StoreTyped,
     IsFileMap, Files, BackupFiles
<1>6. Due'
  BY DEF IInv, SyncFetch, Data, Due, Pair, history, Staged, TypeOK,
     StoreTyped, IsFileMap, Files, BackupFiles
<1>7. Owed'
  BY DEF IInv, SyncFetch, Data, Owed, DiskNeverLost, Preserved, history,
     Staged, TypeOK, StoreTyped, IsFileMap, Files, BackupFiles
<1>8. Owner'
  BY DEF IInv, SyncFetch, Progress, Owner, Goto, Advance, Data, Pending
<1>9. Syncing'
  <2>1. /\ live["disk"] # None /\ live["disk"].k \in Nat \ {0} /\ live["kupd"] = None
        /\ live["kernel"] <= live["disk"].k /\ live["initramfs"] <= live["disk"].k
    <3>1. journal = None /\ live["disk"] # None /\ live["kupd"] = None
      BY DEF IInv, SyncFetch, Progress, Syncing, Data, Pending, Qemu, Running
    <3>2. live["disk"] \in Disks
      BY <3>1 DEF IInv, TypeOK, StoreTyped, IsFileMap, Files, BackupFiles,
         Content
    <3>3. Pair = <<live["kernel"], live["initramfs"]>>
      BY <3>1 DEF Pair
    <3> QED
      BY <3>1, <3>2, <3>3 DEF IInv, Data, Due, Disks, Versions
  <2>2. at \in {1, 2}
    BY DEF IInv, TypeOK, CommandTyped, Progress, Syncing, SyncFetch
  <2>3. /\ live'["kernel"] = live["kernel"] /\ live'["initramfs"] = live["initramfs"]
        /\ live'["disk"] = live["disk"] /\ live'["kupd"] = live["kupd"]
    BY <2>2, Orders DEF IInv, SyncFetch, Staged, TypeOK, StoreTyped, IsFileMap,
       Files, BackupFiles
  <2>4. CASE at = 1
    <3>1. pc' = "fetch" /\ at' = 2 /\ live'["knext"] = live["disk"].k
      BY <2>4, Orders DEF IInv, SyncFetch, Advance, Staged, TypeOK, StoreTyped,
         IsFileMap, Files, BackupFiles
    <3> QED
      BY <2>1, <2>3, <3>1 DEF Syncing
  <2>5. CASE at = 2
    <3>1. /\ pc' = "stage" /\ live'["inext"] = live["disk"].k
          /\ live'["knext"] = live["knext"]
      BY <2>5, Orders DEF IInv, SyncFetch, Advance, Goto, Staged, TypeOK,
         StoreTyped, IsFileMap, Files, BackupFiles
    <3>2. live["knext"] \in 1 .. live["disk"].k /\ live["kernel"] <= live["knext"]
      BY <2>5 DEF IInv, Progress, Syncing, SyncFetch
    <3> QED
      BY <2>1, <2>3, <3>1, <3>2 DEF Syncing
  <2> QED
    BY <2>2, <2>4, <2>5
<1>10. Restoring' /\ Updating' /\ Installing'
  BY DEF IInv, SyncFetch, Restoring, Past, Goto, Advance, Updating, Installing
<1> QED
  BY <1>1, <1>2, <1>3, <1>4, <1>5, <1>6, <1>7, <1>8, <1>9, <1>10 DEF IInv,
     TypeOK, Data, Progress

(* A fetch that fails removes the file it truncated.                       *)
LEMMA FetchFailsStep == ASSUME IInv, SyncFetchFails PROVE IInv'
<1>1. /\ PointsTyped' /\ CountersTyped' /\ HistoryTyped' /\ Unused'
      /\ Coherent' /\ BootConsistent'
  BY Frame DEF SyncFetchFails, points, history
<1>2. StoreTyped'
  BY DEF IInv, SyncFetchFails, TypeOK, StoreTyped, IsFileMap
<1>3. CommandTyped'
  BY DEF IInv, SyncFetchFails, TypeOK, CommandTyped, Release
<1>4. Pending'
  BY DEF IInv, SyncFetchFails, Data, Pending, Source, Running, points
<1>5. Qemu'
  BY DEF IInv, SyncFetchFails, Data, Qemu, history, Staged
<1>6. Due'
  BY DEF IInv, SyncFetchFails, Data, Due, Pair, history, Staged
<1>7. Owed'
  BY DEF IInv, SyncFetchFails, Data, Owed, DiskNeverLost, Preserved, history,
     Staged
<1>8. Owner' /\ Restoring' /\ Updating' /\ Installing' /\ Syncing'
  BY DEF IInv, SyncFetchFails, Owner, Release, Restoring, Past, Updating,
     Installing, Syncing
<1> QED
  BY <1>1, <1>2, <1>3, <1>4, <1>5, <1>6, <1>7, <1>8 DEF IInv, TypeOK, Data,
     Progress

(* Both staged files exist when their hashes are recorded.                 *)
LEMMA StageStoreTyped == ASSUME IInv, SyncStage PROVE StoreTyped'
<1>1. /\ live["disk"] # None /\ live["knext"] \in 1 .. live["disk"].k
      /\ live["inext"] \in 1 .. live["disk"].k
  BY DEF IInv, Progress, Syncing, SyncStage
<1>2. live["disk"] \in Disks
  BY <1>1 DEF IInv, TypeOK, StoreTyped, IsFileMap, Files, BackupFiles, Content
<1>3. live["knext"] \in Versions /\ live["inext"] \in Versions
  BY <1>1, <1>2, BoundsAssumption DEF BoundsAssumption, Disks, Versions
<1>4. "kupd" \in Files /\ <<live["knext"], live["inext"]>> \in Content("kupd") \cup {None}
  BY <1>3 DEF Files, Content
<1> QED
  BY <1>4, PutType DEF IInv, TypeOK, StoreTyped, SyncStage

(* kernel-update.json written: from here the staged pair is the one due.   *)
LEMMA StageStep == ASSUME IInv, SyncStage PROVE IInv'
<1>1. PointsTyped' /\ CountersTyped' /\ Unused'
  BY Frame DEF SyncStage, points
<1>2. StoreTyped'
  BY StageStoreTyped
<1>3. CommandTyped'
  BY DEF IInv, SyncStage, TypeOK, CommandTyped, Release
<1>4. HistoryTyped'
  BY Orders, BoundsAssumption DEF IInv, SyncStage, TypeOK, HistoryTyped,
     IsFileMap, StoreTyped, Files, BackupFiles, Content, Disks, Versions,
     Progress, Syncing
<1>5. Pending'
  BY DEF IInv, SyncStage, Pending, Progress, Owner
<1>6. Coherent'
  BY DEF IInv, SyncStage, Data, Coherent, points
<1>7. Qemu'
  BY DEF IInv, SyncStage, Data, Qemu
<1>8. Due'
  BY DEF IInv, SyncStage, Data, Due, Pair, Progress, Syncing
<1>9. Owed'
  BY DEF IInv, SyncStage, Data, Owed, DiskNeverLost, Preserved
<1>10. BootConsistent'
  BY DEF IInv, SyncStage, Data, BootConsistent
<1>11. Owner' /\ Restoring' /\ Updating' /\ Installing' /\ Syncing'
  BY DEF IInv, SyncStage, Owner, Release, Restoring, Past, Updating,
     Installing, Syncing
<1> QED
  BY <1>1, <1>2, <1>3, <1>4, <1>5, <1>6, <1>7, <1>8, <1>9, <1>10, <1>11 DEF
     IInv, TypeOK, Data, Progress

(* resize changes the size of the live disk and nothing else.              *)
LEMMA ResizeDisk ==
    ASSUME IInv, Resize
    PROVE  /\ live["disk"] # None /\ live["disk"] \in Disks
           /\ live'["disk"] = [live["disk"] EXCEPT !.size = 2]
           /\ live'["disk"] # None /\ live'["disk"] \in Disks /\ live'["disk"].size = 2
           /\ \A f \in Files \ {"disk"} : live'[f] = live[f]
           /\ StoreTyped'
<1>1. live["disk"] # None /\ live["disk"] \in Disks
  BY DEF Resize, IInv, TypeOK, StoreTyped, IsFileMap, Content, Files,
     BackupFiles
<1>2. /\ live'["disk"] = [live["disk"] EXCEPT !.size = 2]
      /\ \A f \in Files \ {"disk"} : live'[f] = live[f]
  BY DEF Resize, IInv, TypeOK, StoreTyped, IsFileMap, Files, BackupFiles
<1>3. live'["disk"] \in Disks /\ live'["disk"].size = 2
  BY <1>1, <1>2 DEF Disks
<1>4. "disk" \in Files /\ live'["disk"] \in Content("disk") /\ live'["disk"] # None
  BY <1>3, NoneAssumption DEF Files, BackupFiles, Content
<1>5. live' = [live EXCEPT !["disk"] = live'["disk"]]
  BY <1>1, <1>2 DEF Resize, IInv, TypeOK, StoreTyped, IsFileMap, Files,
     BackupFiles
<1>6. StoreTyped'
  BY <1>4, <1>5, PutType DEF Resize, IInv, TypeOK, StoreTyped
<1> QED
  BY <1>1, <1>2, <1>3, <1>4, <1>6

(* The disk grown, with QEMU off.                                          *)
LEMMA ResizeStep == ASSUME IInv, Resize PROVE IInv'
<1>1. /\ PointsTyped' /\ CommandTyped' /\ CountersTyped' /\ Unused'
      /\ Coherent' /\ BootConsistent' /\ Owner'
  BY Frame DEF Resize, points, command
<1>2. StoreTyped'
  BY ResizeDisk
<1>3. HistoryTyped'
  BY DEF IInv, Resize, TypeOK, HistoryTyped
<1>4. Pending'
  BY DEF IInv, Resize, Data, Pending, Source, Running, points
<1>5. Qemu'
  BY DEF IInv, Resize, Data, Qemu
<1>6. Due'
  BY NoneAssumption DEF IInv, Resize, Data, Due, Pair, TypeOK, StoreTyped,
     IsFileMap, Content, Disks
<1>7. Owed'
  BY NoneAssumption DEF IInv, Resize, Data, Owed, DiskNeverLost, Preserved,
     TypeOK, StoreTyped, IsFileMap, Content, Disks
<1>8. Restoring'
  BY DEF IInv, Resize, Restoring, Past, command, Issued, TypeOK, CommandTyped
<1>9. Updating' /\ Installing' /\ Syncing'
  BY DEF IInv, Resize, Progress, Updating, command, Installing, Syncing,
     Issued, TypeOK, CommandTyped
<1> QED
  BY <1>1, <1>2, <1>3, <1>4, <1>5, <1>6, <1>7, <1>8, <1>9 DEF IInv, TypeOK,
     Data, Progress

(* A guest write gives the live disk a fresh stamp, keeps its kernel or    *)
(* installs the next, and touches no other file.                           *)
LEMMA WriteFacts ==
    ASSUME IInv, NEW k \in Versions, GuestWrite(k)
    PROVE  /\ vm # "off" /\ live["disk"] \in Disks /\ live'["disk"] \in Disks /\ live'["disk"] # None
           /\ live'["disk"].stamp = nstamp + 1 /\ live'["disk"].k = k /\ live["disk"].k <= k
           /\ \A f \in Files \ {"disk"} : live'[f] = live[f]
           /\ StoreTyped'
           /\ nstamp + 1 \in 0 .. MaxStamp /\ nstamp + 1 # 0
<1>1. vm # "off" /\ live["disk"] # None /\ live["disk"] \in Disks
  BY DEF GuestWrite, IInv, Data, Qemu, TypeOK, StoreTyped, IsFileMap, Content,
     Files, BackupFiles
<1>2. nstamp + 1 \in 0 .. MaxStamp /\ nstamp + 1 # 0
  BY BoundsAssumption DEF GuestWrite, IInv, TypeOK, CountersTyped,
     BoundsAssumption
<1>3. /\ live'["disk"] = [live["disk"] EXCEPT !.stamp = nstamp + 1, !.k = k]
      /\ \A f \in Files \ {"disk"} : live'[f] = live[f]
  BY DEF GuestWrite, IInv, TypeOK, StoreTyped, IsFileMap, Files, BackupFiles
<1>4. live'["disk"] \in Disks
  BY <1>1, <1>2, <1>3 DEF Disks
<1>5. live'["disk"] # None
  BY <1>4, NoneAssumption DEF Content, Files, BackupFiles
<1>6. live'["disk"].stamp = nstamp + 1 /\ live'["disk"].k = k /\ live["disk"].k <= k
  <2>1. live["disk"].k \in Nat
    BY <1>1, BoundsAssumption DEF Disks, Versions
  <2>2. k = live["disk"].k \/ k = live["disk"].k + 1
    BY DEF GuestWrite
  <2> QED
    BY <1>1, <1>3, <2>1, <2>2 DEF Disks
<1>7. StoreTyped'
  <2>1. live' = [live EXCEPT !["disk"] = live'["disk"]]
    BY <1>1, <1>3 DEF GuestWrite, IInv, TypeOK, StoreTyped, IsFileMap, Files,
       BackupFiles
  <2>2. "disk" \in Files /\ live'["disk"] \in Content("disk") \cup {None}
    BY <1>4 DEF Files, BackupFiles, Content
  <2> QED
    BY <2>1, <2>2, PutType DEF GuestWrite, IInv, TypeOK, StoreTyped
<1> QED
  BY <1>1, <1>2, <1>3, <1>4, <1>5, <1>6, <1>7

(* A guest write: the newer disk state takes the place of the older one in *)
(* everything that is owed, and of no file a command has already placed.   *)
LEMMA WriteStep == ASSUME IInv, NEW k \in Versions, GuestWrite(k) PROVE IInv'
<1>1. /\ StoreTyped' /\ PointsTyped' /\ CommandTyped' /\ Unused' /\ Coherent' /\ BootConsistent' /\ Owner'
  BY WriteFacts, Frame DEF GuestWrite, points, command
<1>2. CountersTyped'
  BY WriteFacts DEF GuestWrite, IInv, TypeOK, CountersTyped, points
<1>3. HistoryTyped'
  <2>1. IsFileMap(before')
    <3>1. CASE journal = None
      BY <3>1 DEF GuestWrite, IInv, TypeOK, HistoryTyped
    <3>2. CASE journal # None
      <4>1. "disk" \in Files /\ live'["disk"] \in Content("disk") \cup {None}
        BY WriteFacts DEF Files, BackupFiles, Content
      <4>2. before' = [before EXCEPT !["disk"] = live'["disk"]]
        BY <3>2 DEF GuestWrite
      <4> QED
        BY <4>1, <4>2, PutType DEF IInv, TypeOK, HistoryTyped
    <3> QED
      BY <3>1, <3>2
  <2>2. owed' \subseteq 0 .. MaxStamp
    BY WriteFacts DEF GuestWrite, IInv, TypeOK, HistoryTyped
  <2> QED
    BY <2>1, <2>2 DEF GuestWrite, IInv, TypeOK, HistoryTyped
<1>4. Pending'
  BY WriteFacts DEF GuestWrite, IInv, Data, Pending, Source, Running, points,
     Files, BackupFiles
<1>5. Qemu'
  BY WriteFacts DEF GuestWrite, IInv, Data, Qemu
<1>6. Due'
  <2>1. /\ live'["kupd"] = live["kupd"] /\ live'["kernel"] = live["kernel"]
        /\ live'["initramfs"] = live["initramfs"]
    BY WriteFacts DEF Files, BackupFiles
  <2>2. live["disk"] # None
    BY WriteFacts DEF IInv, Data, Qemu
  <2>3. SUFFICES ASSUME journal = None
                 PROVE  Pair' \in pairs /\ Pair[1] <= k /\ Pair[2] <= k
    BY <2>1, WriteFacts DEF Due, Pair, GuestWrite
  <2>4. /\ Pair \in pairs /\ Pair[1] \in Nat /\ Pair[2] \in Nat
        /\ Pair[1] <= live["disk"].k /\ Pair[2] <= live["disk"].k
    BY <2>2, <2>3, BoundsAssumption DEF IInv, Data, Due, TypeOK, HistoryTyped,
       Versions
  <2>5. live["disk"].k \in Nat /\ k \in Nat
    BY WriteFacts, BoundsAssumption DEF Disks, Versions
  <2> QED
    BY <2>1, <2>4, <2>5, WriteFacts DEF Pair
<1>7. Owed'
  <2> DEFINE old == live["disk"].stamp
  <2>1. owed' = (owed \ {old}) \cup {nstamp + 1} /\ prev' = prev
    BY DEF GuestWrite
  <2>2. 0 \notin owed'
    BY <2>1, WriteFacts DEF IInv, Data, Owed
  <2>3. ASSUME NEW stamp, stamp = nstamp + 1 PROVE Preserved(stamp)'
    BY <2>3, WriteFacts DEF Preserved
  <2>4. ASSUME NEW stamp \in owed, stamp # old PROVE Preserved(stamp)'
    BY <2>1, <2>4 DEF IInv, Data, Owed, DiskNeverLost, Preserved
  <2> QED
    BY <2>1, <2>2, <2>3, <2>4 DEF Owed, DiskNeverLost
<1>8. Restoring'
  <2>1. ~Past(1)
    BY WriteFacts DEF IInv, Progress, Restoring
  <2>2. ~Past(2) /\ ~Past(3) /\ ~Past(4)
    BY <2>1 DEF IInv, TypeOK, CommandTyped, Past
  <2>3. live["disk"] # None
    BY WriteFacts DEF IInv, Data, Qemu
  <2>4. ~(pc = "copy" /\ at = 1)
    BY <2>3, WriteFacts DEF IInv, Progress, Restoring, Data, Pending
  <2>5. /\ pc \in {"save", "copy", "clear"} => journal # None
        /\ pc = "copy" => at <= 3
    BY DEF IInv, Progress, Restoring
  <2> QED
    BY <2>1, <2>2, <2>4, <2>5 DEF GuestWrite, command, Restoring, Past
<1>9. Updating' /\ Installing'
  BY WriteFacts DEF GuestWrite, IInv, Progress, Updating, Installing, Data,
     Qemu, command, Files, BackupFiles
<1>10. Syncing'
  <2>1. live["disk"].k \in Nat /\ k \in Nat
    BY WriteFacts, BoundsAssumption DEF Disks, Versions
  <2>2. 1 .. live["disk"].k \subseteq 1 .. k
    BY <2>1, WriteFacts
  <2> QED
    BY <2>2, WriteFacts DEF GuestWrite, IInv, Progress, Syncing, command,
       Files, BackupFiles
<1> QED
  BY <1>1, <1>2, <1>3, <1>4, <1>5, <1>6, <1>7, <1>8, <1>9, <1>10 DEF IInv,
     TypeOK, Data, Progress

(* A new point: its files agree, and with no restore pending none is       *)
(* needed that the retention removes.                                      *)
LEMMA TakeStep == ASSUME IInv, TakeBackup PROVE IInv'
<1> DEFINE new == nsnap + 1
           k == live["disk"].k
<1>1. live["disk"] \in Disks /\ journal = None /\ vm = "recorded" /\ k \in Versions /\ new \in SnapIds
  BY BoundsAssumption DEF TakeBackup, IInv, Data, Qemu, Pending, Running,
     TypeOK, StoreTyped, CountersTyped, IsFileMap, Content, Files, BackupFiles,
     Disks, BoundsAssumption, SnapIds
<1>2. /\ DOMAIN snaps' \subseteq DOMAIN snaps \cup {new}
      /\ snaps'[new] = [disk |-> live["disk"], kernel |-> k, initramfs |-> k]
      /\ \A s \in DOMAIN snaps' : s # new => snaps'[s] = snaps[s]
      /\ bad' \subseteq DOMAIN snaps'
      /\ pairs' = pairs \cup {<<k, k>>} /\ nsnap' = new
  BY DEF TakeBackup, IInv, TypeOK, PointsTyped
<1> HIDE DEF new, k
<1>3. PointsTyped'
  BY <1>1, <1>2 DEF IInv, TypeOK, PointsTyped, Generation
<1>4. Coherent'
  <2>1. ASSUME NEW s \in DOMAIN snaps', s # new
        PROVE  /\ s <= nsnap' /\ snaps'[s].kernel = snaps'[s].disk.k
               /\ snaps'[s].initramfs = snaps'[s].disk.k /\ <<snaps'[s].disk.k, snaps'[s].disk.k>> \in pairs'
    <3>1. s \in DOMAIN snaps /\ snaps'[s] = snaps[s]
      BY <1>2, <2>1
    <3>2. s \in Nat /\ nsnap \in Nat /\ new = nsnap + 1
      BY <3>1, BoundsAssumption DEF IInv, TypeOK, PointsTyped, CountersTyped,
         SnapIds, BoundsAssumption, new
    <3> QED
      BY <1>2, <3>1, <3>2 DEF IInv, Data, Coherent
  <2>2. new <= nsnap' /\ <<k, k>> \in pairs' /\ snaps'[new].disk.k = k
        /\ snaps'[new].kernel = k /\ snaps'[new].initramfs = k
    BY <1>1, <1>2, BoundsAssumption DEF k, SnapIds, BoundsAssumption
  <2> QED
    BY <1>2, <2>1, <2>2 DEF IInv, Data, Coherent
<1>5. /\ StoreTyped' /\ CommandTyped' /\ Unused' /\ Qemu' /\ Owed' /\ Owner'
      /\ Updating' /\ Installing' /\ Syncing'
  BY Frame DEF TakeBackup, store, command
<1>6. CountersTyped'
  BY BoundsAssumption DEF TakeBackup, IInv, TypeOK, CountersTyped,
     BoundsAssumption
<1>7. HistoryTyped'
  BY <1>1, <1>2 DEF TakeBackup, IInv, TypeOK, HistoryTyped
<1>8. Pending' /\ Restoring'
  BY <1>1 DEF TakeBackup, IInv, TypeOK, CommandTyped, Progress, Pending,
     Restoring, Past, store, command
<1>9. Due' /\ BootConsistent'
  BY <1>2 DEF TakeBackup, IInv, Data, Due, Pair, BootConsistent, store
<1> QED
  BY <1>3, <1>4, <1>5, <1>6, <1>7, <1>8, <1>9 DEF IInv, TypeOK, Data, Progress

(* A point decays: only the set of bad points changes.                     *)
LEMMA DecayStep == ASSUME IInv, NEW s \in SnapIds, Decay(s) PROVE IInv'
<1>1. /\ StoreTyped' /\ CommandTyped' /\ CountersTyped' /\ HistoryTyped'
      /\ Unused' /\ Pending' /\ Coherent' /\ Qemu' /\ Due' /\ Owed'
      /\ BootConsistent' /\ Owner' /\ Restoring' /\ Updating'
      /\ Installing' /\ Syncing'
  BY Frame DEF Decay, store, command, history
<1>2. PointsTyped'
  BY DEF IInv, Decay, TypeOK, PointsTyped
<1> QED
  BY <1>1, <1>2 DEF IInv, TypeOK, Data, Progress

-----------------------------------------------------------------------------
(* Every step preserves the invariant.                                     *)
LEMMA StepIInv == ASSUME IInv, [Next]_vars PROVE IInv'
<1>1. CASE UNCHANGED vars
  BY <1>1, Frame DEF vars, store, points, history, command, IInv, TypeOK, Data,
     Progress
<1>2. CASE CommandBegin
  BY <1>2, QuietStep, RestoreStep, SyncBeginStep, ResizeStep DEF CommandBegin,
     Quiet
<1>3. CASE CommandStep
  <2>1. CASE InstallFile \/ ApplyRestore
    BY <2>1, InstallStep, QuietStep, SaveStep, CopyStep, ClearStep DEF
       ApplyRestore, Quiet
  <2>2. CASE ApplyKernelUpdate
    BY <2>2, QuietStep, ApplyStep, UnstageStep, CleanStep DEF
       ApplyKernelUpdate, Quiet
  <2>3. CASE Boot \/ Record \/ RecordFails
    BY <2>3, BootStep, RecordStep, RecordFailsStep
  <2>4. CASE StopSeesOff \/ SyncFetch \/ SyncFetchFails \/ SyncStage
    BY <2>4, QuietStep, FetchStep, FetchFailsStep, StageStep DEF Quiet
  <2> QED
    BY <1>3, <2>1, <2>2, <2>3, <2>4 DEF CommandStep
<1>4. CASE Abort
  BY <1>4, QuietStep DEF Quiet
<1>5. CASE Environment
  BY <1>5, ExitStep, WriteStep, TakeStep, DecayStep DEF Environment
<1> QED
  BY <1>1, <1>2, <1>3, <1>4, <1>5 DEF Next

(* The invariant holds in every reachable state, however often commands    *)
(* are interrupted and repeated.                                           *)
THEOREM InductiveInvariant == Spec => []IInv
BY InitIInv, StepIInv, PTL DEF Spec

(* Every file, directory, point and counter keeps its type.                *)
THEOREM TypeCorrect == Spec => []TypeOK
BY InductiveInvariant, PTL DEF IInv

(* QEMU is only ever started from a kernel and initramfs delivered         *)
(* together, and from a kernel that its disk has installed, whatever was   *)
(* interrupted before: Due holds of the live files whenever no restore is  *)
(* pending, and start boots only then.                                     *)
THEOREM BootsAreConsistent == Spec => []BootConsistent
BY InductiveInvariant, PTL DEF IInv, Data

(* No VM the launcher knows of runs while a restore is pending.            *)
THEOREM NoPendingRestoreRuns == Spec => []NoPendingWhileRunning
<1>1. IInv => NoPendingWhileRunning
  BY DEF IInv, Data, Pending, NoPendingWhileRunning
<1> QED
  BY <1>1, InductiveInvariant, PTL

(* The point a pending restore copies from is never removed by retention.  *)
THEOREM PendingSourceIsKept == Spec => []PendingSourceKept
<1>1. IInv => PendingSourceKept
  BY DEF IInv, Data, Pending, PendingSourceKept
<1> QED
  BY <1>1, InductiveInvariant, PTL

(* No disk state the guest left behind is overwritten by anything but the  *)
(* guest.                                                                  *)
THEOREM DisksAreNeverLost == Spec => []DiskNeverLost
BY InductiveInvariant, PTL DEF IInv, Data, Owed

(* A restore completes with exactly the point's files and nothing staged:  *)
(* a walk that is cut short begins again at its first file.                *)
THEOREM RestoresAreExact == Spec => []RestoreExact
<1>1. IInv => RestoreExact
  <2>1. ASSUME IInv, pc = "clear", NEW f \in BackupFiles PROVE live[f] = Source[f]
    BY <2>1 DEF IInv, Progress, Restoring, Past, BackupFiles
  <2>2. ASSUME IInv, pc = "clear" PROVE live["kupd"] = None
    BY <2>2 DEF IInv, Progress, Restoring, Past
  <2> QED
    BY <2>1, <2>2 DEF RestoreExact, Source
<1> QED
  BY <1>1, InductiveInvariant, PTL

(* kernel-update.json leaves the state directory only when both files it   *)
(* names are in place, or into a before-restore directory: only Unstage    *)
(* and Save remove it, and Updating holds when Unstage does.               *)
THEOREM UpdatesAreApplied == Spec => StagedUntilApplied
<1> DEFINE Moved ==
        \/ live["kupd"] = <<live'["kernel"], live'["initramfs"]>>
        \/ \E p \in PrevIds : prev'[p]["kupd"] = live["kupd"]
<1>1. ASSUME IInv, Next, live["kupd"] # None, live'["kupd"] = None PROVE Moved
  <2>1. CASE Unstage
    BY <1>1, <2>1 DEF Unstage, IInv, Progress, Updating, TypeOK, StoreTyped,
       IsFileMap, Files, BackupFiles
  <2>2. CASE Save
    <3>1. journal.prev \in PrevIds /\ RestoreOrder[at] \in Files
      BY <1>1, <2>2, Orders DEF Save, IInv, TypeOK, StoreTyped, CommandTyped,
         Progress, Restoring, Files, BackupFiles
    <3>2. RestoreOrder[at] = "kupd"
      BY <1>1, <2>2, <3>1 DEF Save, IInv, TypeOK, StoreTyped, IsFileMap, Files
    <3> QED
      BY <1>1, <2>2, <3>1, <3>2 DEF Save, IInv, TypeOK, StoreTyped, IsFileMap,
         Files
  <2>3. CASE InstallFile \/ Copy \/ ApplyFile
    <3>1. RestoreOrder[at] # "kupd" \/ ~Copy
      BY <1>1, Orders DEF Copy, IInv, TypeOK, CommandTyped, Progress, Restoring
    <3>2. live'["kupd"] = live["kupd"]
      BY <1>1, <2>3, <3>1, Orders DEF InstallFile, Copy, ApplyFile, IInv,
         TypeOK, CommandTyped, StoreTyped, IsFileMap, Files, BackupFiles,
         Progress, Installing, Updating
    <3> QED
      BY <1>1, <3>2
  <2>4. CASE SyncBegin \/ SyncFetch \/ SyncFetchFails \/ SyncStage
    BY <1>1, <2>4 DEF SyncBegin, SyncFetch, SyncFetchFails, SyncStage, IInv,
       Progress, Syncing
  <2>5. CASE CleanNext
    BY <1>1, <2>5, CleanFiles
  <2>6. ASSUME NEW k \in Versions, GuestWrite(k) PROVE FALSE
    BY <1>1, <2>6, WriteFacts DEF Files
  <2>7. CASE Resize
    BY <1>1, <2>7, ResizeDisk DEF Files
  <2>8. CASE \/ Quiet \/ ClearJournal \/ Boot \/ Record \/ RecordFails \/ VmExit \/ TakeBackup
             \/ \E s \in SnapIds : RestoreBegin(s) \/ Decay(s)
    BY <1>1, <2>8 DEF Quiet, InitBegin, StartBegin, StopBegin, Validate,
       VerifyUpdate, StopSeesOff, Abort, ClearJournal, Boot, Record,
       RecordFails, VmExit, TakeBackup, RestoreBegin, Decay, store
  <2> QED
    BY <1>1, <2>1, <2>2, <2>3, <2>4, <2>5, <2>6, <2>7, <2>8 DEF Next,
       CommandBegin, CommandStep, ApplyRestore, ApplyKernelUpdate, Environment,
       Quiet
<1>2. IInv /\ [Next]_vars => [live["kupd"] # None /\ live'["kupd"] = None => Moved]_vars
  BY <1>1
<1> QED
  BY <1>2, InductiveInvariant, PTL DEF Spec, StagedUntilApplied

-----------------------------------------------------------------------------
(***************************************************************************)
(* Two theorems that depend on what the operator does while a restore is   *)
(* pending: he answers it with start, as the message of restore tells him  *)
(* to (or with restore again, which is refused), for the first, and does   *)
(* not resize, for the second.  The code does not keep these promises      *)
(* otherwise: init then installs the base kernel over the one not yet      *)
(* moved (run recovery_interference), sync-kernel truncates a staged       *)
(* kernel whose kernel-update.json is already aside, and resize grows a    *)
(* disk that the restore copies over once more.                            *)
(***************************************************************************)

(* With no restore pending, the disk is in place once a point exists, and  *)
(* beside a disk lie a kernel and an initramfs.                            *)
Placed ==
    journal = None =>
        /\ DOMAIN snaps # {} => live["disk"] # None
        /\ live["disk"] # None => live["kernel"] # None /\ live["initramfs"] # None

(* A step that leaves these variables alone preserves it.                  *)
LEMMA PlacedFrame ==
    ASSUME Placed, UNCHANGED <<journal, snaps, live["disk"], live["kernel"], live["initramfs"]>>
    PROVE Placed'
BY DEF Placed

(* Every step preserves it: init renames the disk last, and a restore ends *)
(* with all three files of the point in place.                             *)
LEMMA PlacedStep == ASSUME IInv, Placed, [Next]_vars PROVE Placed'
<1>1. CASE UNCHANGED vars
  BY <1>1, PlacedFrame DEF vars
<1>2. CASE \/ Quiet \/ Boot \/ Record \/ RecordFails \/ VmExit
           \/ \E s \in SnapIds : Decay(s)
  BY <1>2, PlacedFrame DEF Quiet, InitBegin, StartBegin, StopBegin, Validate,
     VerifyUpdate, StopSeesOff, Abort, Boot, Record, RecordFails, VmExit,
     Decay, store, points
<1>3. CASE Unstage \/ CleanNext \/ SyncBegin \/ SyncFetch \/ SyncFetchFails \/ SyncStage
  <2>1. /\ live'["disk"] = live["disk"] /\ live'["kernel"] = live["kernel"]
        /\ live'["initramfs"] = live["initramfs"]
    BY <1>3, Orders DEF IInv, TypeOK, StoreTyped, CommandTyped, IsFileMap,
       Files, BackupFiles, Progress, Syncing, Unstage, CleanNext, SyncBegin,
       SyncFetch, SyncFetchFails, SyncStage, Staged
  <2> QED
    BY <1>3, <2>1, PlacedFrame DEF Unstage, CleanNext, SyncBegin, SyncFetch,
       SyncFetchFails, SyncStage, points
<1>4. CASE (\E s \in SnapIds : RestoreBegin(s)) \/ Save \/ Copy
  <2>1. CASE Save \/ Copy
    BY <2>1 DEF Save, Copy, Placed, IInv, Progress, Restoring
  <2>2. ASSUME NEW s \in SnapIds, RestoreBegin(s) PROVE Placed'
    <3>1. journal' # None
      BY <2>2, NoneAssumption, BoundsAssumption DEF RestoreBegin, IInv, TypeOK,
         CountersTyped, BoundsAssumption, PrevIds
    <3> QED
      BY <3>1 DEF Placed
  <2> QED
    BY <1>4, <2>1, <2>2
<1>5. CASE InstallFile
  <2>1. live["disk"] = None /\ at \in {1, 2, 3} /\ (at > 1 => live["kernel"] = 1) /\ (at > 2 => live["initramfs"] = 1)
    BY <1>5 DEF IInv, TypeOK, CommandTyped, Progress, Installing, InstallFile
  <2>2. None # 1 /\ BaseImage.disk # None
    BY NoneAssumption, BoundsAssumption DEF BoundsAssumption, BaseImage, Files,
       BackupFiles, Content, Disks, Versions
  <2>3. CASE at = 3
    BY <1>5, <2>1, <2>2, <2>3, Orders DEF Placed, IInv, TypeOK, StoreTyped,
       IsFileMap, Files, BackupFiles, InstallFile, BaseImage
  <2>4. CASE at # 3
    BY <1>5, <2>1, <2>4, Orders DEF Placed, IInv, TypeOK, StoreTyped,
       IsFileMap, Files, BackupFiles, InstallFile, points
  <2> QED
    BY <2>3, <2>4
<1>6. CASE ClearJournal
  <2>1. /\ journal # None /\ live["disk"] = Source.disk /\ live["kernel"] = Source.kernel
        /\ live["initramfs"] = Source.initramfs
    BY <1>6 DEF IInv, Progress, Restoring, Past, ClearJournal
  <2>2. Source \in Generation
    BY <2>1 DEF IInv, Data, Pending, TypeOK, PointsTyped, Source
  <2>3. Source.disk # None /\ Source.kernel # None /\ Source.initramfs # None
    BY <2>2, NoneAssumption DEF Generation, Files, BackupFiles, Content
  <2> QED
    BY <1>6, <2>1, <2>3 DEF Placed, ClearJournal
<1>7. CASE ApplyFile
  <2>1. live["kupd"] \in Versions \X Versions /\ live["kupd"] = <<live["knext"], live["inext"]>> /\ at \in {1, 2}
    <3>1. live["kupd"] # None /\ live["kupd"] = <<live["knext"], live["inext"]>> /\ at \in {1, 2}
      BY <1>7 DEF IInv, TypeOK, CommandTyped, Progress, Updating, ApplyFile
    <3>2. live["kupd"] \in Content("kupd") \cup {None}
      BY DEF IInv, TypeOK, StoreTyped, IsFileMap, Files
    <3> QED
      BY <3>1, <3>2 DEF Content
  <2>2. live["knext"] # None /\ live["inext"] # None
    BY <2>1, NoneAssumption DEF Files, BackupFiles, Content
  <2>3. live'["disk"] = live["disk"]
    BY <1>7, <2>1, Orders DEF IInv, TypeOK, StoreTyped, IsFileMap, Files,
       BackupFiles, ApplyFile
  <2>4. /\ live["kernel"] # None => live'["kernel"] # None
        /\ live["initramfs"] # None => live'["initramfs"] # None
    BY <1>7, <2>1, <2>2, Orders DEF IInv, TypeOK, StoreTyped, IsFileMap, Files,
       BackupFiles, ApplyFile, Staged
  <2> QED
    BY <1>7, <2>3, <2>4 DEF Placed, ApplyFile, points
<1>8. CASE Resize \/ \E k \in Versions : GuestWrite(k)
  <2>1. live["disk"] # None /\ live'["kernel"] = live["kernel"] /\ live'["initramfs"] = live["initramfs"]
    BY <1>8 DEF Resize, GuestWrite, IInv, TypeOK, StoreTyped, IsFileMap, Files,
       BackupFiles, Data, Qemu
  <2>2. live'["disk"] # None
    <3>1. ASSUME NEW k \in Versions, GuestWrite(k) PROVE live'["disk"] # None
      BY <3>1, WriteFacts
    <3> QED
      BY <1>8, <3>1, ResizeDisk
  <2> QED
    BY <1>8, <2>1, <2>2 DEF Placed, Resize, GuestWrite, points
<1>9. CASE TakeBackup
  <2>1. live["disk"] # None
    BY <1>9 DEF TakeBackup, Running, IInv, Data, Qemu
  <2> QED
    BY <1>9, <2>1 DEF Placed, TakeBackup, store
<1> QED
  BY <1>1, <1>2, <1>3, <1>4, <1>5, <1>6, <1>7, <1>8, <1>9 DEF Next,
     CommandBegin, CommandStep, ApplyRestore, ApplyKernelUpdate, Environment,
     Quiet

(* A file of the generation the restore replaces: aside once it has been   *)
(* moved, in its old place until then.                                     *)
Safe(f) == IF prev[journal.prev][f] # None THEN prev[journal.prev][f] = before[f]
            ELSE live[f] = before[f]

(* While a restore is pending and the operator answers it with start, the  *)
(* files noted when it was accepted are safe, every one, and those the     *)
(* walk has passed are aside. Only start and restore hold the lock, so the *)
(* staged files are not truncated in between.                              *)
Answered ==
    journal # None =>
        /\ op \in {"none", "start", "restore"}
        /\ pc \in {"idle", "validate", "save", "copy", "clear"}
        /\ before["disk"] # None /\ before["kernel"] # None /\ before["initramfs"] # None
        /\ \A f \in Files : Safe(f)
        /\ pc = "copy" => prev[journal.prev][RestoreOrder[at]] # None
        /\ \A n \in 1 .. 6 :
              Past(n) => prev[journal.prev][RestoreOrder[n]] = before[RestoreOrder[n]]

(* Every step preserves it: Save moves a file aside once, Copy overwrites  *)
(* one only after that, and a guest write reaches a disk not yet moved.    *)
LEMMA AnsweredStep ==
    ASSUME PendingCommands \subseteq {"start", "restore"}, IInv, Placed, Answered, [Next]_vars
    PROVE  Answered'
<1> SUFFICES ASSUME journal' # None PROVE Answered'
  BY DEF Answered
<1>1. ASSUME NEW s \in SnapIds, RestoreBegin(s) PROVE Answered'
  <2>1. /\ journal' = [snap |-> s, prev |-> nrestore + 1] /\ prev' = prev /\ live' = live
        /\ before' = live /\ op' = "restore" /\ pc' = "validate"
    BY <1>1 DEF RestoreBegin, Acquire
  <2>2. prev'[journal'.prev] = Nothing
    BY <1>1, <2>1, BoundsAssumption DEF IInv, TypeOK, CountersTyped, Data,
       Unused, RestoreBegin, PrevIds, BoundsAssumption
  <2>3. \A f \in Files : Safe(f)'
    BY <2>1, <2>2 DEF Safe, Nothing
  <2>4. live["disk"] # None /\ live["kernel"] # None /\ live["initramfs"] # None
    BY <1>1 DEF RestoreBegin, ValidPoint, Placed
  <2> QED
    BY <2>1, <2>3, <2>4 DEF Answered, Past
<1>2. CASE journal # None
  <2>1. \/ UNCHANGED vars \/ StartBegin \/ Validate \/ Save \/ Copy \/ Abort
        \/ VmExit \/ (\E k \in Versions : GuestWrite(k)) \/ \E s \in SnapIds : Decay(s)
    <3>1. /\ pc \in {"idle", "validate", "save", "copy", "clear"} /\ ~Running
          /\ \A c \in PendingCommands : c \in {"start", "restore"}
      BY <1>2 DEF Answered, IInv, Data, Pending
    <3>2. ~(InitBegin \/ StopBegin \/ SyncBegin \/ Resize \/ \E s \in SnapIds : RestoreBegin(s))
      BY <1>2, <3>1 DEF InitBegin, StopBegin, SyncBegin, Resize, RestoreBegin,
         Acquire, Issued
    <3>3. ~(InstallFile \/ ApplyKernelUpdate \/ Boot \/ Record \/ RecordFails \/ StopSeesOff
            \/ SyncFetch \/ SyncFetchFails \/ SyncStage \/ TakeBackup \/ ClearJournal)
      BY <3>1 DEF InstallFile, ApplyKernelUpdate, VerifyUpdate, ApplyFile,
         Unstage, CleanNext, Boot, Record, RecordFails, StopSeesOff, SyncFetch,
         SyncFetchFails, SyncStage, TakeBackup, ClearJournal
    <3> QED
      BY <3>2, <3>3 DEF Next, CommandBegin, CommandStep, ApplyRestore,
         Environment
  <2>2. CASE \/ UNCHANGED vars \/ StartBegin \/ Validate \/ Abort \/ VmExit \/ \E s \in SnapIds : Decay(s)
    <3>1. UNCHANGED <<live, prev, journal, before>>
      BY <2>2 DEF vars, StartBegin, Validate, Abort, VmExit, Decay, store,
         history
    <3>2. \/ UNCHANGED command
          \/ op' \in {"none", "start", "restore"} /\ (pc' \in {"idle", "validate"} \/ (pc' = "save" /\ at' = 1))
      BY <1>2, <2>2 DEF Answered, vars, command, StartBegin, Validate, Abort,
         VmExit, Decay, Acquire, Goto, Release
    <3> QED
      BY <1>2, <3>1, <3>2 DEF Answered, Safe, Past, command
  <2>3. CASE Save
    <3> DEFINE f == RestoreOrder[at]
               p == journal.prev
    <3>1. f \in Files /\ at \in 1 .. 6 /\ p \in PrevIds /\ Safe(f)
      BY <1>2, Orders DEF IInv, TypeOK, CommandTyped, StoreTyped, Files,
         BackupFiles, Answered
    <3>2. /\ journal' = journal /\ before' = before
          /\ \A g \in Files \ {f} : prev'[p][g] = prev[p][g] /\ live'[g] = live[g]
      BY <2>3, <3>1 DEF Save, history, IInv, TypeOK, StoreTyped, IsFileMap
    <3>3. prev'[p][f] = before[f] /\ (prev'[p][f] = None => live'[f] = None)
      BY <2>3, <3>1 DEF Save, IInv, TypeOK, StoreTyped, IsFileMap, Safe
    <3> HIDE DEF f, p
    <3>4. \A g \in Files : Safe(g)'
      BY <1>2, <3>1, <3>2, <3>3 DEF Answered, Safe, p
    <3>5. /\ op' = op /\ pc' \in {"save", "copy", "clear"}
          /\ pc' = "copy" => at' = at /\ f \in BackupFiles
          /\ pc' = "save" => at' = at + 1
          /\ pc' = "clear" => at = 6
      BY <2>3, <3>1, Orders DEF Save, Advance, Goto, f
    <3>6. ASSUME NEW n \in 1 .. 6, Past(n)'
          PROVE  prev'[p][RestoreOrder[n]] = before[RestoreOrder[n]]
      <4>1. n = at \/ Past(n)
        BY <2>3, <3>1, <3>5, <3>6 DEF Save, Past
      <4>2. RestoreOrder[n] \in Files
        BY Orders DEF Files, BackupFiles
      <4> QED
        BY <1>2, <3>2, <3>3, <4>1, <4>2 DEF Answered, f, p
    <3>7. pc' = "copy" => prev'[p][RestoreOrder[at']] # None
      BY <1>2, <3>3, <3>5 DEF Answered, BackupFiles, f
    <3> QED
      BY <1>2, <3>2, <3>4, <3>5, <3>6, <3>7 DEF Answered, p
  <2>4. CASE Copy
    <3> DEFINE f == RestoreOrder[at]
    <3>1. f \in Files /\ at \in 1 .. 3 /\ prev[journal.prev][f] # None
      BY <1>2, <2>4, Orders DEF Copy, IInv, TypeOK, CommandTyped, Progress,
         Restoring, Files, BackupFiles, Answered
    <3>2. /\ journal' = journal /\ before' = before /\ prev' = prev
          /\ \A g \in Files \ {f} : live'[g] = live[g]
      BY <2>4 DEF Copy, history, IInv, TypeOK, StoreTyped, IsFileMap
    <3> HIDE DEF f
    <3>3. \A g \in Files : Safe(g)'
      BY <1>2, <3>1, <3>2 DEF Answered, Safe
    <3>4. op' = op /\ pc' = "save" /\ at' = at + 1
      BY <2>4, <3>1, Orders DEF Copy, Advance, Goto
    <3>5. ASSUME NEW n \in 1 .. 6, Past(n)'
          PROVE  prev[journal.prev][RestoreOrder[n]] = before[RestoreOrder[n]]
      <4>1. n = at \/ Past(n)
        BY <2>4, <3>1, <3>4, <3>5 DEF Copy, Past
      <4> QED
        BY <1>2, <3>1, <4>1 DEF Answered, Safe, f
    <3> QED
      BY <1>2, <3>2, <3>3, <3>4, <3>5 DEF Answered
  <2>5. ASSUME NEW k \in Versions, GuestWrite(k) PROVE Answered'
    <3>1. prev[journal.prev]["disk"] = None /\ ~Past(1) /\ (pc = "copy" => at # 1)
      BY <1>2, <2>5, WriteFacts DEF IInv, Data, Qemu, Pending, Progress,
         Restoring
    <3>2. /\ UNCHANGED <<journal, prev, op, pc, at>>
          /\ before' = [before EXCEPT !["disk"] = live'["disk"]]
      BY <1>2, <2>5 DEF GuestWrite, command
    <3>3. /\ before'["disk"] = live'["disk"] /\ live'["disk"] # None
          /\ \A f \in Files \ {"disk"} : before'[f] = before[f] /\ live'[f] = live[f]
      BY <2>5, <3>2, WriteFacts DEF IInv, TypeOK, HistoryTyped, IsFileMap,
         Files, BackupFiles
    <3>4. \A f \in Files : Safe(f)'
      BY <1>2, <3>1, <3>2, <3>3 DEF Answered, Safe
    <3>5. \A n \in 1 .. 6 : ~Past(n)
      BY <3>1 DEF Past, IInv, TypeOK, CommandTyped
    <3>6. before'["disk"] # None /\ before'["kernel"] # None /\ before'["initramfs"] # None
      BY <1>2, <3>3 DEF Answered, Files, BackupFiles
    <3> QED
      BY <1>2, <3>2, <3>4, <3>5, <3>6 DEF Answered, Past
  <2> QED
    BY <2>1, <2>2, <2>3, <2>4, <2>5
<1>3. CASE journal = None /\ ~\E s \in SnapIds : RestoreBegin(s)
  <2>1. UNCHANGED journal
    BY <1>3 DEF Next, vars, CommandBegin, CommandStep, ApplyRestore,
       ApplyKernelUpdate, Environment, InitBegin, StartBegin, StopBegin,
       SyncBegin, Resize, InstallFile, Validate, Save, Copy, ClearJournal,
       VerifyUpdate, ApplyFile, Unstage, CleanNext, Boot, Record, RecordFails,
       StopSeesOff, SyncFetch, SyncFetchFails, SyncStage, Abort, VmExit,
       GuestWrite, TakeBackup, Decay, store
  <2> QED
    BY <1>3, <2>1
<1> QED
  BY <1>1, <1>2, <1>3

(* Once the walk has passed every file, the directory holds the whole      *)
(* generation.                                                             *)
LEMMA AnsweredComplete == ASSUME IInv, Answered PROVE PreviousComplete
<1> SUFFICES ASSUME pc = "clear" PROVE DueToBoot(prev[journal.prev]) = DueToBoot(before)
  BY DEF PreviousComplete
<1>1. journal # None /\ \A n \in 1 .. 6 : Past(n)
  BY DEF IInv, Progress, Restoring, Past
<1>2. \A n \in 1 .. 6 : prev[journal.prev][RestoreOrder[n]] = before[RestoreOrder[n]]
  BY <1>1 DEF Answered
<1>3. \A f \in Files : prev[journal.prev][f] = before[f]
  BY <1>2, Orders DEF Files, BackupFiles
<1> QED
  BY <1>3 DEF DueToBoot, Files, BackupFiles

(* When a restore that is answered with start completes, its before-       *)
(* restore directory holds the generation that was due to boot when it was *)
(* accepted.                                                               *)
THEOREM PreviousIsComplete ==
    ASSUME PendingCommands \subseteq {"start", "restore"}
    PROVE  Spec => []PreviousComplete
<1>1. Init => Placed /\ Answered
  <2>1. BaseImage.disk # None /\ BaseImage.kernel # None /\ BaseImage.initramfs # None
    BY NoneAssumption, BoundsAssumption DEF BaseImage, Files, BackupFiles,
       Content, Disks, Versions, BoundsAssumption
  <2> QED
    BY <2>1 DEF Init, Placed, Answered, Nothing, Fresh, Files, BackupFiles
<1>2. IInv /\ Placed /\ Answered /\ [Next]_vars => (Placed /\ Answered)'
  BY PlacedStep, AnsweredStep
<1>3. IInv /\ Placed /\ Answered => PreviousComplete
  BY AnsweredComplete
<1> QED
  BY <1>1, <1>2, <1>3, InductiveInvariant, PTL DEF Spec
=============================================================================
