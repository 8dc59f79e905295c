---------------------------- MODULE Generations -----------------------------
(***************************************************************************)
(* What the launcher promises about the files a virtual machine starts     *)
(* from (docs/RECOVERY.md: a restore is completed before booting, "evitando *)
(* mezclar generaciones"): there is one installed generation, a disk with  *)
(* the kernel and initramfs that boot it.  Restoring a point and staging a *)
(* kernel update replace what the next boot uses in one step, and a boot   *)
(* uses exactly the installed generation.  Module Recovery implements it   *)
(* with separate file operations, interrupted anywhere.                    *)
(***************************************************************************)
EXTENDS Naturals

CONSTANTS BaseImage, None

VARIABLES
    installed,  \* the generation the next boot uses, or None
    points,     \* published recovery points, by id
    vm,         \* "off", "unrecorded", "recorded"
    booted      \* what the running VM was booted from, or None

vars == <<installed, points, vm, booted>>

Init ==
    /\ installed \in {None, BaseImage}
    /\ points = [s \in {} |-> None]
    /\ vm = "off"
    /\ booted = None

(* The base image of the release is installed where there is no disk.      *)
Install ==
    /\ installed = None /\ vm = "off"
    /\ installed' = BaseImage
    /\ UNCHANGED <<points, vm, booted>>

(* A restore is accepted: the next boot uses the point, whole.             *)
Restore(s) ==
    /\ vm # "recorded"
    /\ installed' = points[s]
    /\ UNCHANGED <<points, vm, booted>>

(* A kernel update is staged: the next boot uses the pair, whole, with the *)
(* disk as it is.  Both files come from that disk and neither is older     *)
(* than the one it replaces.                                               *)
Stage ==
    /\ installed # None
    /\ \E kernel \in installed.kernel .. installed.disk.k,
          initramfs \in installed.initramfs .. installed.disk.k :
          installed' = [disk |-> installed.disk,
                        kernel |-> kernel, initramfs |-> initramfs]
    /\ UNCHANGED <<points, vm, booted>>

Launch ==
    /\ vm = "off" /\ installed # None
    /\ vm' = "unrecorded"
    /\ booted' = [kernel |-> installed.kernel, initramfs |-> installed.initramfs,
                  k |-> installed.disk.k]
    /\ UNCHANGED <<installed, points>>

Record ==
    /\ vm = "unrecorded" /\ vm' = "recorded"
    /\ UNCHANGED <<installed, points, booted>>

Exit ==
    /\ vm # "off" /\ vm' = "off" /\ booted' = None
    /\ UNCHANGED <<installed, points>>

(* The guest changes its disk, never its kernel files on the host.         *)
Write ==
    /\ vm # "off" /\ installed # None
    /\ \E k \in {installed.disk.k, installed.disk.k + 1} :
          installed' = [installed EXCEPT
              !.disk = [@ EXCEPT !.stamp = installed'.disk.stamp, !.k = k]]
    /\ UNCHANGED <<points, vm, booted>>

Grow ==
    /\ vm = "off" /\ installed # None
    /\ installed' = [installed EXCEPT !.disk = [@ EXCEPT !.size = 2]]
    /\ UNCHANGED <<points, vm, booted>>

(* A point holds the disk with the guest's own kernel; old points may go.  *)
TakePoint(s) ==
    LET k == installed.disk.k IN
    /\ vm = "recorded" /\ s \notin DOMAIN points
    /\ \E kept \in SUBSET DOMAIN points :
          points' = [p \in kept \cup {s} |->
                       IF p = s
                       THEN [disk |-> installed.disk, kernel |-> k, initramfs |-> k]
                       ELSE points[p]]
    /\ UNCHANGED <<installed, vm, booted>>

Next ==
    \/ Install \/ Stage \/ Launch \/ Record \/ Exit \/ Write \/ Grow
    \/ \E s \in DOMAIN points : Restore(s)
    \/ \E s \in DOMAIN points' \ DOMAIN points : TakePoint(s)

Spec == Init /\ [][Next]_vars
=============================================================================
