--------------------- MODULE RecoveryGenerations_proofs ---------------------
(***************************************************************************)
(* Recovery implements Generations, for every value of the constants: the  *)
(* initial states map to initial states and every step maps to one step of *)
(* Generations or to none.  What is installed (Installed, in Recovery) is  *)
(* read off the files: the journal outweighs kernel-update.json, which     *)
(* outweighs the live kernel and initramfs.                                *)
(***************************************************************************)
EXTENDS Recovery_proofs

(* What the next boot uses is there when a restore is pending or a disk is *)
(* in place, and is then a generation: a pending restore names a published *)
(* point, and the pair due with a disk was delivered.                      *)
LEMMA InstalledTyped ==
    ASSUME IInv
    PROVE  /\ Installed # None <=> journal # None \/ live["disk"] # None
           /\ Installed # None => Installed \in Generation
<1>1. CASE journal # None
  <2>1. Installed \in Generation
    BY <1>1 DEF IInv, Data, Pending, TypeOK, PointsTyped, Installed
  <2> QED
    BY <1>1, <2>1, NoneAssumption
<1>2. CASE journal = None /\ live["disk"] = None
  BY <1>2 DEF Installed
<1>3. CASE journal = None /\ live["disk"] # None
  <2>1. live["disk"] \in Disks
    BY <1>3 DEF IInv, TypeOK, StoreTyped, IsFileMap, Content, Files, BackupFiles
  <2>2. Pair \in Versions \X Versions
    BY <1>3 DEF IInv, TypeOK, HistoryTyped, Data, Due
  <2>3. Installed = [disk |-> live["disk"], kernel |-> Pair[1], initramfs |-> Pair[2]]
    BY <1>3 DEF Installed, Pair
  <2>4. Installed \in Generation
    BY <2>1, <2>2, <2>3 DEF Generation
  <2> QED
    BY <1>3, <2>4, NoneAssumption
<1> QED
  BY <1>1, <1>2, <1>3

(* Both start with nothing installed or with the base image.               *)
LEMMA InitMaps == ASSUME Init, IInv PROVE Abstract!Init
<1>1. Installed \in {None, BaseImage}
  BY NoneAssumption DEF Init, Installed, Nothing, Fresh, Files, BackupFiles,
     BaseImage
<1> QED
  BY <1>1 DEF Init, Abstract!Init

(* A step that leaves the journal, the points, QEMU and these four live    *)
(* files alone changes nothing the abstract system sees.                   *)
LEMMA SameInstalled ==
    ASSUME UNCHANGED <<journal, snaps, vm, booted, live["disk"], live["kernel"],
                       live["initramfs"], live["kupd"]>>
    PROVE  UNCHANGED Abstract!vars
BY DEF Installed, Abstract!vars

(* While a restore is pending the live files do not matter: what is        *)
(* installed is the point.                                                 *)
LEMMA PendingInstalled ==
    ASSUME journal # None, UNCHANGED <<journal, snaps, vm, booted>>
    PROVE  UNCHANGED Abstract!vars
BY DEF Installed, Abstract!vars

(* init installs the base image when it renames the last file, the disk;   *)
(* its other steps are stutters.                                           *)
LEMMA InstallMaps ==
    ASSUME IInv, InstallFile
    PROVE  [Abstract!Next]_Abstract!vars
<1>1. CASE journal # None
  BY <1>1, PendingInstalled DEF InstallFile, points, history
<1>2. CASE journal = None /\ at # 3
  <2>1. live["disk"] = None /\ live'["disk"] = None
    BY <1>2, Orders DEF IInv, TypeOK, StoreTyped, CommandTyped, IsFileMap,
       Files, BackupFiles, Progress, Installing, InstallFile
  <2> QED
    BY <1>2, <2>1 DEF InstallFile, points, history, Installed, Abstract!vars
<1>3. CASE journal = None /\ at = 3
  <2>1. live["disk"] = None /\ live["kupd"] = None /\ vm = "off"
        /\ live["kernel"] = 1 /\ live["initramfs"] = 1
    BY <1>3, Orders DEF IInv, Data, Due, Progress, Installing, InstallFile, Held
  <2>2. live'["disk"] = BaseImage.disk /\ live'["kupd"] = None
        /\ live'["kernel"] = 1 /\ live'["initramfs"] = 1
    BY <1>3, <2>1, Orders DEF IInv, TypeOK, StoreTyped, IsFileMap, Files,
       BackupFiles, InstallFile, BaseImage
  <2>3. BaseImage.disk # None
    BY NoneAssumption, BoundsAssumption DEF BoundsAssumption, BaseImage, Files,
       BackupFiles, Content, Disks, Versions
  <2>4. Installed = None /\ Installed' = BaseImage
    BY <1>3, <2>1, <2>2, <2>3 DEF Installed, InstallFile, BaseImage
  <2>5. Abstract!Install
    BY <2>1, <2>4 DEF Abstract!Install, InstallFile, points, history
  <2> QED
    BY <2>5 DEF Abstract!Next
<1> QED
  BY <1>1, <1>2, <1>3

(* A restore takes effect when the journal is written.                     *)
LEMMA RestoreMaps ==
    ASSUME IInv, NEW s \in SnapIds, RestoreBegin(s)
    PROVE  [Abstract!Next]_Abstract!vars
<1>1. s \in DOMAIN snaps
  BY DEF RestoreBegin, ValidPoint
<1>2. journal' # None /\ journal'.snap = s /\ snaps' = snaps
  BY NoneAssumption, BoundsAssumption DEF RestoreBegin, IInv, TypeOK,
     CountersTyped, BoundsAssumption, PrevIds, points
<1>3. Abstract!Restore(s)
  BY <1>1, <1>2 DEF Abstract!Restore, RestoreBegin, Running, Installed
<1> QED
  BY <1>1, <1>3 DEF Abstract!Next

(* Moving the old files aside and copying the point's changes nothing that *)
(* is installed.                                                           *)
LEMMA MoveMaps == ASSUME IInv, Save \/ Copy PROVE UNCHANGED Abstract!vars
<1>1. journal # None
  BY DEF IInv, Progress, Restoring, Save, Copy
<1> QED
  BY <1>1, PendingInstalled DEF Save, Copy, points, history

(* Nor does removing the journal: the live files then are the point's.     *)
LEMMA ClearMaps == ASSUME IInv, ClearJournal PROVE UNCHANGED Abstract!vars
<1>1. /\ journal # None /\ live["disk"] = Source.disk /\ live["kernel"] = Source.kernel
      /\ live["initramfs"] = Source.initramfs /\ live["kupd"] = None
  BY DEF IInv, Progress, Restoring, Past, ClearJournal
<1>2. Source \in Generation
  BY <1>1 DEF IInv, Data, Pending, TypeOK, PointsTyped, Source
<1>3. Source.disk # None
  BY <1>2, NoneAssumption DEF Generation, Files, BackupFiles, Content
<1>4. Source = [disk |-> Source.disk, kernel |-> Source.kernel, initramfs |-> Source.initramfs]
  BY <1>2 DEF Generation
<1>5. Installed' = [disk |-> Source.disk, kernel |-> Source.kernel, initramfs |-> Source.initramfs]
  BY <1>1, <1>3 DEF Installed, ClearJournal
<1>6. Installed = Source
  BY <1>1 DEF Installed, Source
<1> QED
  BY <1>4, <1>5, <1>6 DEF ClearJournal, points, Abstract!vars

(* An update takes effect when kernel-update.json is written.              *)
LEMMA StageMaps == ASSUME IInv, SyncStage PROVE [Abstract!Next]_Abstract!vars
<1>1. /\ journal = None /\ live["disk"] # None /\ live["kupd"] = None
      /\ live["knext"] \in 1 .. live["disk"].k /\ live["inext"] \in 1 .. live["disk"].k
      /\ live["kernel"] <= live["knext"] /\ live["initramfs"] <= live["inext"]
  BY DEF IInv, Progress, Owner, Syncing, SyncStage
<1>2. /\ live'["kupd"] = <<live["knext"], live["inext"]>> /\ live'["disk"] = live["disk"]
  BY DEF IInv, TypeOK, StoreTyped, IsFileMap, Files, BackupFiles, SyncStage
<1>3. live'["kupd"] # None
  <2>1. live["knext"] \in Versions /\ live["inext"] \in Versions
    <3>1. live["disk"] \in Disks
      BY <1>1 DEF IInv, TypeOK, StoreTyped, IsFileMap, Content, Files,
         BackupFiles
    <3> QED
      BY <1>1, <3>1, BoundsAssumption DEF BoundsAssumption, Disks, Versions
  <2> QED
    BY <1>2, <2>1, NoneAssumption DEF Files, Content
<1>4. Installed = [disk |-> live["disk"], kernel |-> live["kernel"], initramfs |-> live["initramfs"]]
  BY <1>1 DEF Installed
<1>5. Installed' = [disk |-> live["disk"], kernel |-> live["knext"], initramfs |-> live["inext"]]
  BY <1>1, <1>2, <1>3 DEF Installed, SyncStage
<1>6. Installed # None
  BY <1>1, InstalledTyped
<1>7. Abstract!Stage
  <2>1. Installed' = [disk |-> Installed.disk, kernel |-> live["knext"], initramfs |-> live["inext"]]
    BY <1>4, <1>5
  <2>2. Installed \in Generation
    BY <1>6, InstalledTyped
  <2>3. /\ live["knext"] \in Installed.kernel .. Installed.disk.k
        /\ live["inext"] \in Installed.initramfs .. Installed.disk.k
    BY <1>1, <1>4, <2>2 DEF Generation, Versions
  <2> QED
    BY <1>6, <2>1, <2>3 DEF Abstract!Stage, SyncStage, points
<1> QED
  BY <1>7 DEF Abstract!Next

(* Putting the staged files in place changes nothing that is installed.    *)
LEMMA ApplyMaps == ASSUME IInv, ApplyFile PROVE UNCHANGED Abstract!vars
<1>1. live["kupd"] # None
  BY DEF IInv, Progress, Updating, ApplyFile
<1>2. live'["kupd"] = live["kupd"] /\ live'["disk"] = live["disk"]
  BY Orders DEF IInv, TypeOK, StoreTyped, CommandTyped, IsFileMap, Files,
     BackupFiles, ApplyFile, Progress, Updating
<1> QED
  BY <1>1, <1>2 DEF ApplyFile, points, history, Installed, Abstract!vars

(* Nor does removing kernel-update.json: the live pair then is the one it  *)
(* named.                                                                  *)
LEMMA UnstageMaps == ASSUME IInv, Unstage PROVE UNCHANGED Abstract!vars
<1>1. CASE journal # None
  BY <1>1, PendingInstalled DEF Unstage, points, history
<1>2. CASE journal = None
  <2>1. live["kupd"] # None /\ live["kupd"] = <<live["kernel"], live["initramfs"]>>
    BY DEF IInv, Progress, Updating, Unstage
  <2>2. live'["kupd"] = None /\ live'["disk"] = live["disk"]
        /\ live'["kernel"] = live["kernel"] /\ live'["initramfs"] = live["initramfs"]
    BY DEF IInv, TypeOK, StoreTyped, IsFileMap, Files, BackupFiles, Unstage
  <2> QED
    BY <1>2, <2>1, <2>2 DEF Unstage, points, history, Installed, Abstract!vars
<1> QED
  BY <1>1, <1>2

(* start launches what is installed: there is no journal and nothing is    *)
(* staged.                                                                 *)
LEMMA BootMaps == ASSUME IInv, Boot PROVE [Abstract!Next]_Abstract!vars
<1>1. journal = None /\ live["disk"] # None /\ live["kupd"] = None
  BY DEF IInv, Progress, Owner, Updating, Boot, BackupFiles
<1>2. Installed = [disk |-> live["disk"], kernel |-> live["kernel"], initramfs |-> live["initramfs"]]
  BY <1>1 DEF Installed
<1>3. Installed # None /\ UNCHANGED Installed
  BY <1>1, InstalledTyped DEF Boot, store, points, Installed
<1>4. Abstract!Launch
  BY <1>2, <1>3 DEF Abstract!Launch, Boot, points
<1> QED
  BY <1>4 DEF Abstract!Next

(* The process is recorded, unless it is gone.                             *)
LEMMA RecordMaps == ASSUME IInv, Record PROVE [Abstract!Next]_Abstract!vars
<1>1. UNCHANGED <<Installed, snaps, booted>>
  BY DEF Record, store, points, history, Installed
<1>2. CASE vm = "unrecorded"
  <2>1. Abstract!Record
    BY <1>1, <1>2 DEF Abstract!Record, Record
  <2> QED
    BY <2>1 DEF Abstract!Next
<1>3. CASE vm # "unrecorded"
  <2>1. UNCHANGED vm
    BY <1>3 DEF Record, IInv, TypeOK, CountersTyped
  <2> QED
    BY <1>1, <2>1 DEF Abstract!vars
<1> QED
  BY <1>2, <1>3

(* QEMU ends, by itself or because it cannot be recorded.                  *)
LEMMA ExitMaps ==
    ASSUME IInv, VmExit \/ RecordFails
    PROVE  [Abstract!Next]_Abstract!vars
<1>1. UNCHANGED <<Installed, snaps>> /\ vm' = "off" /\ booted' = None
  BY DEF VmExit, RecordFails, store, points, Installed
<1>2. CASE vm = "off"
  BY <1>1, <1>2 DEF IInv, Data, Qemu, Abstract!vars
<1>3. CASE vm # "off"
  <2>1. Abstract!Exit
    BY <1>1, <1>3 DEF Abstract!Exit
  <2> QED
    BY <2>1 DEF Abstract!Next
<1> QED
  BY <1>2, <1>3

(* resize grows the installed disk, or one a pending restore replaces.     *)
LEMMA ResizeMaps == ASSUME IInv, Resize PROVE [Abstract!Next]_Abstract!vars
<1>1. CASE journal # None
  BY <1>1, PendingInstalled DEF Resize, points
<1>2. CASE journal = None
  <2>1. /\ live'["disk"] = [live["disk"] EXCEPT !.size = 2] /\ live'["disk"] # None
        /\ live["disk"] # None /\ live'["kupd"] = live["kupd"]
        /\ live'["kernel"] = live["kernel"] /\ live'["initramfs"] = live["initramfs"]
    BY ResizeDisk DEF Files, BackupFiles
  <2>2. Installed = [disk |-> live["disk"], kernel |-> Pair[1], initramfs |-> Pair[2]]
    BY <1>2, <2>1 DEF Installed, Pair
  <2>3. Installed' = [disk |-> live'["disk"], kernel |-> Pair[1], initramfs |-> Pair[2]]
    BY <1>2, <2>1 DEF Installed, Pair, Resize
  <2>4. Installed # None
    BY <2>1, InstalledTyped
  <2>5. Abstract!Grow
    BY <2>1, <2>2, <2>3, <2>4 DEF Abstract!Grow, Resize, points
  <2> QED
    BY <2>5 DEF Abstract!Next
<1> QED
  BY <1>1, <1>2

(* The guest writes the installed disk, or one a pending restore replaces. *)
LEMMA WriteMaps ==
    ASSUME IInv, NEW k \in Versions, GuestWrite(k) PROVE [Abstract!Next]_Abstract!vars
<1>1. CASE journal # None
  BY <1>1, PendingInstalled DEF GuestWrite, points
<1>2. CASE journal = None
  <2>1. live["disk"] # None /\ live["disk"] \in Disks
    BY DEF GuestWrite, IInv, Data, Qemu, TypeOK, StoreTyped, IsFileMap,
       Content, Files, BackupFiles
  <2>2. live'["disk"] = [live["disk"] EXCEPT !.stamp = nstamp + 1, !.k = k]
        /\ live'["kupd"] = live["kupd"]
        /\ live'["kernel"] = live["kernel"] /\ live'["initramfs"] = live["initramfs"]
    BY DEF GuestWrite, IInv, TypeOK, StoreTyped, IsFileMap, Files, BackupFiles
  <2>3. live'["disk"] \in Disks
    <3>1. nstamp + 1 \in 0 .. MaxStamp
      BY BoundsAssumption DEF GuestWrite, IInv, TypeOK, CountersTyped,
         BoundsAssumption
    <3> QED
      BY <2>1, <2>2, <3>1 DEF Disks
  <2>4. live'["disk"] # None
    BY <2>3, NoneAssumption DEF Content, Files, BackupFiles
  <2>5. Installed = [disk |-> live["disk"], kernel |-> Pair[1], initramfs |-> Pair[2]]
    BY <1>2, <2>1 DEF Installed, Pair
  <2>6. Installed' = [disk |-> live'["disk"], kernel |-> Pair[1], initramfs |-> Pair[2]]
    BY <1>2, <2>2, <2>4 DEF Installed, Pair, GuestWrite
  <2>7. Installed # None
    BY <2>1, InstalledTyped
  <2>8. k \in {Installed.disk.k, Installed.disk.k + 1}
    BY <2>5 DEF GuestWrite
  <2>9. Installed' = [Installed EXCEPT
            !.disk = [@ EXCEPT !.stamp = Installed'.disk.stamp, !.k = k]]
    <3>1. live'["disk"] = [live["disk"] EXCEPT !.stamp = live'["disk"].stamp, !.k = k]
      BY <2>1, <2>2 DEF Disks
    <3> QED
      BY <2>5, <2>6, <3>1
  <2>10. Abstract!Write
    BY <2>7, <2>8, <2>9 DEF Abstract!Write, GuestWrite, points
  <2> QED
    BY <2>10 DEF Abstract!Next
<1> QED
  BY <1>1, <1>2

(* backup publishes a new point of the installed disk.                     *)
LEMMA TakeMaps == ASSUME IInv, TakeBackup PROVE [Abstract!Next]_Abstract!vars
<1> DEFINE s == nsnap + 1
           keep == {t \in DOMAIN snaps : t + Retention > nsnap + 1}
<1>1. journal = None /\ live["disk"] # None
  BY DEF IInv, Data, Pending, Qemu, Running, TakeBackup
<1>2. Installed.disk = live["disk"] /\ UNCHANGED Installed
  BY <1>1 DEF Installed, TakeBackup, store
<1>3. s \notin DOMAIN snaps
  <2>1. nsnap \in Nat
    BY BoundsAssumption DEF IInv, TypeOK, CountersTyped, BoundsAssumption
  <2>2. \A t \in DOMAIN snaps : t <= nsnap
    BY DEF IInv, Data, Coherent
  <2> QED
    BY <2>1, <2>2
<1>4. s \in DOMAIN snaps'
  BY DEF TakeBackup
<1>5. Abstract!TakePoint(s)
  <2>1. keep \in SUBSET DOMAIN snaps
    OBVIOUS
  <2>2. snaps' = [p \in keep \cup {s} |->
                   IF p = s
                   THEN [disk |-> Installed.disk, kernel |-> Installed.disk.k,
                         initramfs |-> Installed.disk.k]
                   ELSE snaps[p]]
    BY <1>2 DEF TakeBackup
  <2> HIDE DEF s, keep
  <2> QED
    BY <1>2, <1>3, <2>1, <2>2 DEF Abstract!TakePoint, TakeBackup, Running
<1> HIDE DEF s
<1> QED
  BY <1>3, <1>4, <1>5 DEF Abstract!Next

(* All other steps are stutters: the files sync-kernel fetches and         *)
(* applyKernelUpdate cleans up are not yet, or no longer, installed.       *)
LEMMA AsideMaps ==
    ASSUME IInv,
           \/ Quiet \/ CleanNext \/ SyncBegin \/ SyncFetch \/ SyncFetchFails
           \/ \E s \in SnapIds : Decay(s)
    PROVE  UNCHANGED Abstract!vars
<1>1. CASE Quiet \/ \E s \in SnapIds : Decay(s)
  BY <1>1, SameInstalled DEF Quiet, InitBegin, StartBegin, StopBegin, Validate,
     VerifyUpdate, StopSeesOff, Abort, Decay, store, points, history
<1>2. CASE CleanNext \/ SyncBegin \/ SyncFetch \/ SyncFetchFails
  <2>1. /\ live'["disk"] = live["disk"] /\ live'["kernel"] = live["kernel"]
        /\ live'["initramfs"] = live["initramfs"] /\ live'["kupd"] = live["kupd"]
    BY <1>2, Orders DEF IInv, TypeOK, StoreTyped, CommandTyped, IsFileMap,
       Files, BackupFiles, Progress, Syncing, CleanNext, SyncBegin, SyncFetch,
       SyncFetchFails, Staged
  <2>2. UNCHANGED <<journal, snaps, vm, booted>>
    BY <1>2 DEF CleanNext, SyncBegin, SyncFetch, SyncFetchFails, points, history
  <2> QED
    BY <2>1, <2>2, SameInstalled
<1> QED
  BY <1>1, <1>2

(* Every step is a step of Generations or a stutter.                       *)
LEMMA NextMaps == ASSUME IInv, [Next]_vars PROVE [Abstract!Next]_Abstract!vars
<1>1. CASE UNCHANGED vars
  BY <1>1, SameInstalled DEF vars
<1>2. ASSUME NEW s \in SnapIds, RestoreBegin(s) PROVE [Abstract!Next]_Abstract!vars
  BY <1>2, RestoreMaps
<1>3. ASSUME NEW k \in Versions, GuestWrite(k) PROVE [Abstract!Next]_Abstract!vars
  BY <1>3, WriteMaps
<1>4. CASE CommandBegin
  BY <1>2, <1>4, AsideMaps, ResizeMaps DEF CommandBegin, Quiet
<1>5. CASE CommandStep
  BY <1>5, InstallMaps, AsideMaps, MoveMaps, ClearMaps, ApplyMaps, UnstageMaps,
     BootMaps, RecordMaps, ExitMaps, StageMaps DEF CommandStep, ApplyRestore,
     ApplyKernelUpdate, Quiet
<1>6. CASE Environment
  BY <1>3, <1>6, AsideMaps, ExitMaps, TakeMaps DEF Environment
<1>7. CASE Abort
  BY <1>7, AsideMaps DEF Quiet
<1> QED
  BY <1>1, <1>4, <1>5, <1>6, <1>7 DEF Next

-----------------------------------------------------------------------------
(* The commands, cut short anywhere and repeated, implement one installed  *)
(* generation that is replaced as a whole in one step.                     *)
THEOREM RefinesGenerations == Spec => ImplementsGenerations
<1>1. Init /\ IInv => Abstract!Init
  BY InitMaps
<1>2. IInv /\ [Next]_vars => [Abstract!Next]_Abstract!vars
  BY NextMaps
<1> QED
  BY <1>1, <1>2, InductiveInvariant, PTL DEF Spec, ImplementsGenerations,
     Abstract!Spec
=============================================================================
