----------------------------- MODULE OneAtATime -----------------------------
(***************************************************************************)
(* What the GPU service promises: one computation runs at a time, and a    *)
(* client is given a result only of a computation of its own that ended    *)
(* well.  A service that is killed leaves its computation behind, which    *)
(* ends by itself and whose result nobody gets; the next service does not  *)
(* wait for it.                                                            *)
(***************************************************************************)
CONSTANTS Requests, Services

VARIABLES
    running,   \* the request being computed, if any
    left,      \* killed services whose last computation goes on
    computed,  \* requests whose computation ended well
    reply      \* request -> what its client was told, if anything

vars == <<running, left, computed, reply>>

Init ==
    /\ running = {} /\ left = {}
    /\ computed = {}
    /\ reply = [r \in Requests |-> "none"]

Begin(r) ==
    /\ running = {} /\ reply[r] = "none" /\ r \notin computed
    /\ running' = {r}
    /\ UNCHANGED <<left, computed, reply>>

End(r) ==
    /\ running = {r}
    /\ running' = {}
    /\ \/ computed' = computed \cup {r}
       \/ UNCHANGED computed
    /\ UNCHANGED <<left, reply>>

GiveUp(r) ==
    /\ running = {r}
    /\ running' = {}
    /\ reply' = [reply EXCEPT ![r] = "other"]
    /\ UNCHANGED <<left, computed>>

Reply(r) ==
    /\ r \notin running /\ reply[r] = "none"
    /\ \/ r \in computed /\ reply' = [reply EXCEPT ![r] = "result"]
       \/ reply' = [reply EXCEPT ![r] = "other"]
    /\ computed' = computed \ {r}
    /\ UNCHANGED <<running, left>>

(* The client goes, and may come again with another request.               *)
Leave(r) ==
    /\ r \notin running
    /\ computed' = computed \ {r}
    /\ reply' = [reply EXCEPT ![r] = "none"]
    /\ UNCHANGED <<running, left>>

(* The service is killed, and leaves behind what was running, if anything. *)
Crash ==
    /\ IF running = {} THEN UNCHANGED left
       ELSE \E s \in Services \ left : left' = left \cup {s}
    /\ running' = {} /\ computed' = {}
    /\ reply' = [r \in Requests |-> "none"]

(* What was left behind ends.                                              *)
Fade ==
    /\ \E s \in left : left' = left \ {s}
    /\ UNCHANGED <<running, computed, reply>>

Next ==
    \/ Crash \/ Fade
    \/ \E r \in Requests : Begin(r) \/ End(r) \/ GiveUp(r) \/ Reply(r) \/ Leave(r)

Spec == Init /\ [][Next]_vars
=============================================================================
