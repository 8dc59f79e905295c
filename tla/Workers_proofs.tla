--------------------------- MODULE Workers_proofs ---------------------------
(***************************************************************************)
(* Proofs about Workers, for any times, intervals, VM sessions and number  *)
(* of worker processes: types, and that the lock of a kind of worker is    *)
(* held by the one process that passed it and by nobody once that process  *)
(* has ended, returned or been killed; and that no VM that runs is left    *)
(* without a worker by the wait of its own, if the times suffice.          *)
(***************************************************************************)
EXTENDS Workers, FiniteSetTheorems, TLAPS

(* A worker that passed the lock serves a session.                         *)
Serves == \A i \in Ids : w[i].pc \notin {"gone", "lock"} => w[i].mine # 0

IInv == TypeOK /\ Serves

(* The worker processes of the next state, typed with the sessions of now. *)
Typed == w' \in [Ids -> Worker] /\ lock' \in Ids \cup {0} /\ Locked' /\ Serves'

-----------------------------------------------------------------------------
(* Constants.                                                              *)

(* The times of the kind this behaviour is about are numbers.              *)
LEMMA TimesNat ==
  ASSUME kind \in Kinds
  PROVE  /\ Tries[kind] \in Nat /\ Pause[kind] \in Nat /\ Settle[kind] \in Nat
         /\ Tail[kind] \in Nat
BY WorkersAssumption

LEMMA BoundsNat == Poll \in Nat /\ Gap \in Nat /\ MaxSession \in Nat
BY WorkersAssumption

(* There is a longest interval, or none at all.                            *)
LEMMA LongestNat == Longest \in Nat
<1>1. \E i \in Intervals \cup {0} : \A j \in Intervals : j <= i
  BY WorkersAssumption
<1>2. Longest \in Intervals \cup {0}
  BY <1>1 DEF Longest
<1> QED
  BY <1>2, WorkersAssumption

(* No process is numbered 0.                                               *)
LEMMA IdsNotZero == 0 \notin Ids
BY WorkersAssumption

LEMMA GoneTyped == ASSUME HostTyped PROVE Gone \in Worker
BY LongestNat, BoundsNat DEF HostTyped, Gone, Worker

LEMMA WaitingTyped == ASSUME HostTyped PROVE Waiting \in Worker
BY LongestNat DEF HostTyped, Waiting, Gone, Worker

-----------------------------------------------------------------------------
(* What a step makes of one process.  One that stays on its side of the    *)
(* lock leaves the lock to whom it was.                                    *)
LEMMA StaysTyped ==
  ASSUME IInv, NEW i \in Ids, NEW r \in Worker, w' = [w EXCEPT ![i] = r],
         r.pc \in {"gone", "lock"} <=> w[i].pc \in {"gone", "lock"},
         r.pc \in {"gone", "lock"} \/ r.mine = w[i].mine, lock' = lock
  PROVE  Typed
<1>1. w' \in [Ids -> Worker] /\ lock' \in Ids \cup {0}
  BY DEF IInv, TypeOK, WorkersTyped
<1>2. ASSUME NEW j \in Ids
             PROVE  /\ (lock' = j) <=> w'[j].pc \notin {"gone", "lock"}
                    /\ w'[j].pc \notin {"gone", "lock"} => w'[j].mine # 0
  BY DEF IInv, TypeOK, WorkersTyped, Locked, Serves
<1> QED
  BY <1>1, <1>2 DEF Typed, Locked, Serves

(* One that returns gives back the lock if it held it.                     *)
LEMMA ReturnTyped ==
  ASSUME IInv, NEW i \in Ids, Return(i)
  PROVE  Typed
<1>1. Gone \in Worker
  BY GoneTyped DEF IInv, TypeOK
<1>2. w' \in [Ids -> Worker] /\ lock' \in Ids \cup {0}
  BY <1>1 DEF Return, IInv, TypeOK, WorkersTyped
<1>3. ASSUME NEW j \in Ids
             PROVE  /\ (lock' = j) <=> w'[j].pc \notin {"gone", "lock"}
                    /\ w'[j].pc \notin {"gone", "lock"} => w'[j].mine # 0
  <2>1. CASE j = i
    BY <2>1, IdsNotZero DEF Return, IInv, TypeOK, WorkersTyped, Gone
  <2>2. CASE j # i
    BY <2>2, IdsNotZero DEF Return, IInv, TypeOK, Locked, Serves
  <2> QED
    BY <2>1, <2>2
<1> QED
  BY <1>2, <1>3 DEF Typed, Locked, Serves

(* start launches a process that waits for the lock.                       *)
LEMMA LaunchTyped ==
  ASSUME IInv, Free # {}, Launch, lock' = lock
  PROVE  Typed
<1> DEFINE i == CHOOSE i \in Free : TRUE
<1>1. i \in Ids /\ w[i].pc = "gone"
  <2>1. i \in Free
    OBVIOUS
  <2> QED
    BY <2>1 DEF Free
<1>2. w' = [w EXCEPT ![i] = Waiting]
  BY DEF Launch
<1>3. Waiting \in Worker
  BY WaitingTyped DEF IInv, TypeOK
<1>4. Waiting.pc = "lock"
  BY DEF Waiting, Gone
<1> HIDE DEF i
<1> QED
  BY <1>1, <1>2, <1>3, <1>4, StaysTyped

(* A round begins in a process past the lock.                              *)
LEMMA BeginRoundTyped ==
  ASSUME IInv, NEW i \in Ids, w[i].pc \notin {"gone", "lock"}, BeginRound(i)
  PROVE  Typed
<1> DEFINE r == [w[i] EXCEPT !.pc = "round", !.timer = 0]
<1>1. r \in Worker
  <2>1. w[i] \in Worker
    BY DEF IInv, TypeOK, WorkersTyped
  <2> QED
    BY <2>1 DEF Worker
<1>2. w' = [w EXCEPT ![i] = r] /\ lock' = lock
  BY DEF BeginRound, IInv, TypeOK, WorkersTyped
<1>3. r.pc = "round" /\ r.mine = w[i].mine
  BY DEF IInv, TypeOK, WorkersTyped, Worker
<1> HIDE DEF r
<1> QED
  BY <1>1, <1>2, <1>3, StaysTyped

LEMMA AgainTyped ==
  ASSUME IInv, NEW i \in Ids, NEW n \in Nat, Again(i, n), lock' = lock
  PROVE  Typed
<1> DEFINE r == [w[i] EXCEPT !.tries = w[i].tries + 1, !.timer = n]
<1>1. w[i] \in Worker
  BY DEF IInv, TypeOK, WorkersTyped
<1>2. r \in Worker
  <2>1. w[i].tries + 1 \in Nat
    BY <1>1 DEF Worker
  <2> QED
    BY <2>1, <1>1 DEF Worker
<1>3. w' = [w EXCEPT ![i] = r]
  BY DEF Again, IInv, TypeOK, WorkersTyped
<1>4. r.pc = w[i].pc /\ r.mine = w[i].mine
  BY <1>1 DEF Worker
<1> HIDE DEF r
<1> QED
  BY <1>2, <1>3, <1>4, StaysTyped

LEMMA PauseAgainTyped ==
  ASSUME IInv, NEW i \in Ids, NEW n \in Nat, PauseAgain(i, n)
  PROVE  Typed
<1> DEFINE s == IF n < Longest THEN n ELSE Longest
           r == [w[i] EXCEPT !.timer = Pause[kind], !.since = s]
<1>1. w[i] \in Worker
  BY DEF IInv, TypeOK, WorkersTyped
<1>2. r \in Worker
  <2>1. s \in 0 .. Longest
    BY LongestNat
  <2>2. Pause[kind] \in Nat
    BY TimesNat DEF IInv, TypeOK, HostTyped
  <2> HIDE DEF s
  <2> QED
    BY <2>1, <2>2, <1>1 DEF Worker
<1>3. w' = [w EXCEPT ![i] = r] /\ lock' = lock
  BY DEF PauseAgain, IInv, TypeOK, WorkersTyped
<1>4. r.pc = w[i].pc /\ r.mine = w[i].mine
  BY <1>1 DEF Worker
<1> HIDE DEF r
<1> QED
  BY <1>2, <1>3, <1>4, StaysTyped

(* A step of a process that leaves the rest of the host alone.             *)
LEMMA HostKept ==
  ASSUME IInv, UNCHANGED <<host, vm, answers>>, Typed, HistoryTyped'
  PROVE  IInv'
<1>1. UNCHANGED <<kind, session, launch, off, every>>
  BY DEF host
<1>2. HostTyped'
  BY <1>1 DEF IInv, TypeOK, HostTyped
<1>3. WorkersTyped' /\ Locked' /\ Serves'
  <2>1. Worker' = Worker
    BY <1>1 DEF Worker
  <2> QED
    BY <2>1 DEF Typed, WorkersTyped
<1> QED
  BY <1>2, <1>3 DEF IInv, TypeOK

-----------------------------------------------------------------------------
(* The initial state, and one lemma per kind of step.                      *)

LEMMA InitTyped == Init => IInv
<1> SUFFICES ASSUME Init PROVE IInv
  OBVIOUS
<1>1. HostTyped
  <2>1. answers \in BOOLEAN /\ (answers => vm # 0)
    BY DEF Init
  <2>2. off \in 0 .. Gap /\ session \in 0 .. MaxSession
    BY BoundsNat DEF Init
  <2> QED
    BY <2>1, <2>2 DEF Init, HostTyped
<1>2. Gone \in Worker
  BY <1>1, GoneTyped
<1>3. WorkersTyped
  BY <1>2 DEF Init, WorkersTyped
<1>4. HistoryTyped
  BY DEF Init, HistoryTyped
<1>5. Locked /\ Serves
  BY IdsNotZero DEF Init, Locked, Serves, Gone
<1> QED
  BY <1>1, <1>3, <1>4, <1>5 DEF IInv, TypeOK

(* A session more: what a worker may serve only grows.                     *)
LEMMA VmStartsTyped == IInv /\ VmStarts => IInv'
<1> SUFFICES ASSUME IInv, VmStarts PROVE IInv'
  OBVIOUS
<1>1. session \in Nat /\ session' = session + 1 /\ session' \in 0 .. MaxSession
  BY BoundsNat DEF VmStarts, IInv, TypeOK, HostTyped
<1>2. HostTyped'
  <2>1. Settle[kind] \in 0 .. Settle[kind]
    BY TimesNat DEF IInv, TypeOK, HostTyped
  <2> QED
    BY <1>1, <2>1 DEF VmStarts, IInv, TypeOK, HostTyped
<1>3. WorkersTyped'
  <2>1. 0 .. session \subseteq 0 .. session'
    BY <1>1
  <2>2. Worker \subseteq Worker'
    BY <2>1 DEF Worker
  <2> QED
    BY <2>2 DEF VmStarts, IInv, TypeOK, WorkersTyped
<1>4. HistoryTyped'
  BY <1>1 DEF VmStarts, IInv, TypeOK, HistoryTyped
<1>5. Locked' /\ Serves'
  BY DEF VmStarts, IInv, TypeOK, Locked, Serves
<1> QED
  BY <1>2, <1>3, <1>4, <1>5 DEF IInv, TypeOK

LEMMA LaunchWorkerTyped == IInv /\ LaunchWorker => IInv'
<1> SUFFICES ASSUME IInv, LaunchWorker PROVE IInv'
  OBVIOUS
<1>1. HostTyped' /\ HistoryTyped'
  BY DEF LaunchWorker, IInv, TypeOK, HostTyped, HistoryTyped
<1>2. WorkersTyped' /\ Locked' /\ Serves'
  <2>1. Worker' = Worker /\ lock' = lock
    BY DEF LaunchWorker, Worker
  <2>2. CASE vm = 0
    BY <2>1, <2>2 DEF LaunchWorker, IInv, TypeOK, WorkersTyped, Locked, Serves
  <2>3. CASE vm # 0
    <3>1. Typed
      BY <2>1, <2>3, LaunchTyped DEF LaunchWorker
    <3> QED
      BY <2>1, <3>1 DEF Typed, WorkersTyped
  <2> QED
    BY <2>2, <2>3
<1> QED
  BY <1>1, <1>2 DEF IInv, TypeOK

LEMMA StartAgainTyped == IInv /\ StartAgain => IInv'
<1> SUFFICES ASSUME IInv, StartAgain PROVE IInv'
  OBVIOUS
<1>1. Free # {}
  <2>1. CASE Free = {}
    <3>1. Cardinality(Free) = 0
      BY <2>1, FS_EmptySet
    <3>2. Spare[kind] \in Nat
      BY WorkersAssumption DEF IInv, TypeOK, HostTyped
    <3> QED
      BY <3>1, <3>2 DEF StartAgain
  <2> QED
    BY <2>1
<1>2. Typed
  BY <1>1, LaunchTyped DEF StartAgain
<1>3. HistoryTyped'
  BY DEF StartAgain, host, IInv, TypeOK, HistoryTyped
<1> QED
  BY <1>2, <1>3, HostKept DEF StartAgain

(* QEMU ends: processes stay where they are, with a bound on their waits.  *)
LEMMA VmStopsTyped == IInv /\ VmStops => IInv'
<1> SUFFICES ASSUME IInv, VmStops PROVE IInv'
  OBVIOUS
<1>1. HostTyped' /\ HistoryTyped'
  <2>1. answers' \in BOOLEAN /\ (answers' => vm' # 0)
    BY DEF VmStops
  <2>2. off' \in 0 .. Gap
    BY BoundsNat DEF VmStops
  <2> QED
    BY <2>2 DEF VmStops, IInv, TypeOK, HostTyped, HistoryTyped
<1>2. ASSUME NEW i \in Ids
      PROVE  w'[i] \in Worker /\ w'[i].pc = w[i].pc /\ w'[i].mine = w[i].mine
  <2>1. w[i] \in Worker /\ Tail[kind] \in Nat /\ Poll \in Nat
    BY TimesNat, BoundsNat DEF IInv, TypeOK, HostTyped, WorkersTyped
  <2>2. w'[i] \in {w[i], [w[i] EXCEPT !.timer = Tail[kind]], [w[i] EXCEPT !.timer = Poll]}
    BY DEF VmStops
  <2> QED
    BY <2>1, <2>2 DEF Worker
<1>3. WorkersTyped' /\ Locked' /\ Serves'
  <2>1. Worker' = Worker /\ lock' = lock
    BY DEF VmStops, Worker
  <2>2. w' \in [Ids -> Worker]
    BY <1>2 DEF VmStops
  <2> QED
    BY <1>2, <2>1, <2>2 DEF IInv, TypeOK, WorkersTyped, Locked, Serves
<1> QED
  BY <1>1, <1>3 DEF IInv, TypeOK

LEMMA GuestTyped == IInv /\ (GuestAnswers \/ Configure) => IInv'
<1> SUFFICES ASSUME IInv, GuestAnswers \/ Configure PROVE IInv'
  OBVIOUS
<1>1. HostTyped'
  <2>1. answers' \in BOOLEAN /\ (answers' => vm' # 0)
    <3>1. CASE GuestAnswers
      BY <3>1 DEF GuestAnswers
    <3>2. CASE Configure
      <4>1. vm' = vm /\ answers' = answers
        BY <3>2 DEF Configure
      <4>2. answers \in BOOLEAN /\ (answers => vm # 0)
        BY DEF IInv, TypeOK, HostTyped
      <4> QED
        BY <4>1, <4>2
    <3> QED
      BY <3>1, <3>2
  <2> QED
    BY <2>1 DEF GuestAnswers, Configure, host, IInv, TypeOK, HostTyped
<1>2. UNCHANGED <<session, w, lock, served, reached, hurt>>
  BY DEF GuestAnswers, Configure, host
<1>3. WorkersTyped' /\ HistoryTyped' /\ Locked' /\ Serves'
  BY <1>2 DEF IInv, TypeOK, WorkersTyped, Worker, HistoryTyped, Locked, Serves
<1> QED
  BY <1>1, <1>3 DEF IInv, TypeOK

LEMMA TickTyped == IInv /\ Tick => IInv'
<1> SUFFICES ASSUME IInv, Tick PROVE IInv'
  OBVIOUS
<1>1. HostTyped'
  <2>1. launch' \in (0 .. Settle[kind]) \cup {Never}
    BY TimesNat DEF Tick, IInv, TypeOK, HostTyped
  <2>2. off' \in 0 .. Gap
    BY BoundsNat DEF Tick, IInv, TypeOK, HostTyped
  <2> QED
    BY <2>1, <2>2 DEF Tick, IInv, TypeOK, HostTyped
<1>2. HistoryTyped'
  BY DEF Tick, IInv, TypeOK, HistoryTyped
<1>3. ASSUME NEW i \in Ids
      PROVE  w'[i] \in Worker /\ w'[i].pc = w[i].pc /\ w'[i].mine = w[i].mine
  <2> DEFINE n == IF w[i].timer > 0 THEN w[i].timer - 1 ELSE 0
  <2>1. w[i] \in Worker /\ n \in Nat
    BY DEF IInv, TypeOK, WorkersTyped, Worker
  <2>2. w'[i] = [w[i] EXCEPT !.timer = n]
    BY DEF Tick
  <2> HIDE DEF n
  <2> QED
    BY <2>1, <2>2 DEF Worker
<1>4. WorkersTyped' /\ Locked' /\ Serves'
  <2>1. Worker' = Worker /\ lock' = lock
    BY DEF Tick, Worker
  <2>2. w' \in [Ids -> Worker]
    BY <1>3 DEF Tick
  <2> QED
    BY <1>3, <2>1, <2>2 DEF IInv, TypeOK, WorkersTyped, Locked, Serves
<1> QED
  BY <1>1, <1>2, <1>4 DEF IInv, TypeOK

-----------------------------------------------------------------------------
(* Taking the lock needs that nobody has it.                               *)
LEMMA AcquireTyped ==
  ASSUME IInv, NEW i \in Ids, Acquire(i)
  PROVE  IInv'
<1>1. HistoryTyped' /\ UNCHANGED <<host, vm, answers>>
  BY DEF Acquire, host, IInv, TypeOK, HistoryTyped
<1>2. CASE vm = 0
  <2>1. Typed
    BY <1>2, ReturnTyped DEF Acquire
  <2> QED
    BY <1>1, <2>1, HostKept
<1>3. CASE vm # 0
  <2> DEFINE p == IF kind = "backup" THEN "ready" ELSE "dial"
             r == [Gone EXCEPT !.pc = p, !.mine = vm]
  <2>1. w' = [w EXCEPT ![i] = r] /\ lock' = i /\ lock = 0
    BY <1>3 DEF Acquire
  <2>2. Gone \in Worker /\ vm \in 0 .. session /\ p \in {"ready", "dial"}
    BY GoneTyped, BoundsNat DEF IInv, TypeOK, HostTyped
  <2> HIDE DEF p
  <2>3. r \in Worker /\ r.pc \notin {"gone", "lock"} /\ r.mine # 0
    BY <1>3, <2>2 DEF Worker, Gone
  <2> HIDE DEF r
  <2>4. w' \in [Ids -> Worker] /\ lock' \in Ids \cup {0}
    BY <2>1, <2>3 DEF IInv, TypeOK, WorkersTyped
  <2>5. ASSUME NEW j \in Ids
             PROVE  /\ (lock' = j) <=> w'[j].pc \notin {"gone", "lock"}
                    /\ w'[j].pc \notin {"gone", "lock"} => w'[j].mine # 0
    BY <2>1, <2>3, IdsNotZero DEF IInv, TypeOK, WorkersTyped, Locked
  <2>6. Typed
    BY <2>4, <2>5 DEF Typed, Locked, Serves
  <2> QED
    BY <1>1, <2>6, HostKept
<1> QED
  BY <1>2, <1>3

LEMMA RetryTyped ==
  ASSUME IInv, NEW i \in Ids, Retry(i)
  PROVE  IInv'
<1>1. Typed
  BY ReturnTyped, AgainTyped DEF Retry
<1>2. HistoryTyped' /\ UNCHANGED <<host, vm, answers>>
  BY DEF Retry, host, IInv, TypeOK, HistoryTyped
<1> QED
  BY <1>1, <1>2, HostKept

(* A VM that runs is of the last session.                                  *)
LEMMA VmOfSession == ASSUME HostTyped, vm # 0 PROVE vm \in 1 .. session
BY BoundsNat DEF HostTyped

LEMMA ReadyTyped ==
  ASSUME IInv, NEW i \in Ids, Ready(i)
  PROVE  IInv'
<1>1. Typed
  BY ReturnTyped, BeginRoundTyped DEF Ready
<1>2. UNCHANGED <<host, vm, answers, served, hurt>> /\ reached' \subseteq reached \cup {vm}
  BY DEF Ready, BeginRound
<1>3. vm \in 1 .. session
  BY VmOfSession DEF Ready, IInv, TypeOK
<1>4. HistoryTyped'
  BY <1>2, <1>3 DEF host, IInv, TypeOK, HistoryTyped
<1> QED
  BY <1>1, <1>2, <1>4, HostKept

LEMMA PollAgainTyped ==
  ASSUME IInv, NEW i \in Ids, PollAgain(i)
  PROVE  IInv'
<1>1. Typed
  <2>1. PICK slow \in {0, Poll} : Again(i, Poll + slow)
    BY DEF PollAgain
  <2>2. Poll + slow \in Nat
    BY <2>1, BoundsNat
  <2> QED
    BY <2>1, <2>2, AgainTyped DEF PollAgain
<1>2. HistoryTyped' /\ UNCHANGED <<host, vm, answers>>
  BY DEF PollAgain, host, IInv, TypeOK, HistoryTyped
<1> QED
  BY <1>1, <1>2, HostKept

(* A worker past the lock ends: what it served is a session.               *)
LEMMA HurtTyped ==
  ASSUME IInv, NEW i \in Ids, w[i].pc \notin {"gone", "lock"},
         UNCHANGED <<session, served, reached>>, hurt' \subseteq hurt \cup {w[i].mine}
  PROVE  HistoryTyped'
<1>1. w[i].mine \in 1 .. session
  <2>1. w[i].mine \in 0 .. session /\ w[i].mine # 0
    BY DEF IInv, TypeOK, WorkersTyped, Worker, Serves
  <2> QED
    BY <2>1, BoundsNat DEF IInv, TypeOK, HostTyped
<1> QED
  BY <1>1 DEF IInv, TypeOK, HistoryTyped

LEMMA WaitEndsTyped ==
  ASSUME IInv, NEW i \in Ids, WaitEnds(i)
  PROVE  IInv'
<1>1. Typed
  BY ReturnTyped DEF WaitEnds
<1>2. /\ UNCHANGED <<host, vm, answers, served, reached>>
      /\ hurt' \subseteq hurt \cup {w[i].mine} /\ w[i].pc = "ready"
  BY DEF WaitEnds
<1>3. HistoryTyped'
  BY <1>2, HurtTyped DEF host
<1> QED
  BY <1>1, <1>2, <1>3, HostKept

LEMMA DialTyped ==
  ASSUME IInv, NEW i \in Ids, Dial(i)
  PROVE  IInv'
<1>1. Typed
  BY BeginRoundTyped DEF Dial
<1>2. /\ UNCHANGED <<host, vm, answers, hurt>> /\ reached' = reached \cup {vm}
      /\ served' \in {served, w[i].mine} /\ vm = w[i].mine /\ w[i].pc = "dial"
  BY DEF Dial, BeginRound
<1>3. vm \in 1 .. session
  <2>1. vm # 0
    BY <1>2 DEF IInv, Serves
  <2> QED
    BY <2>1, VmOfSession DEF IInv, TypeOK
<1>4. HistoryTyped'
  BY <1>2, <1>3 DEF host, IInv, TypeOK, HistoryTyped
<1> QED
  BY <1>1, <1>2, <1>4, HostKept

LEMMA DialFailsTyped ==
  ASSUME IInv, NEW i \in Ids, DialFails(i)
  PROVE  IInv'
<1>1. Typed
  <2>1. \/ Again(i, 1) /\ lock' = lock
        \/ Return(i)
    BY DEF DialFails
  <2> QED
    BY <2>1, ReturnTyped, AgainTyped
<1>2. /\ UNCHANGED <<host, vm, answers, served, reached>>
      /\ hurt' \subseteq hurt \cup {w[i].mine} /\ w[i].pc = "dial"
  BY DEF DialFails
<1>3. HistoryTyped'
  BY <1>2, HurtTyped DEF host
<1> QED
  BY <1>1, <1>2, <1>3, HostKept

LEMMA EndRoundTyped ==
  ASSUME IInv, NEW i \in Ids, EndRound(i)
  PROVE  IInv'
<1> DEFINE r == [w[i] EXCEPT !.pc = "pause", !.timer = Pause[kind], !.since = 0]
<1>1. w[i] \in Worker
  BY DEF IInv, TypeOK, WorkersTyped
<1>2. r \in Worker
  <2>1. Pause[kind] \in Nat /\ 0 \in 0 .. Longest
    BY TimesNat, LongestNat DEF IInv, TypeOK, HostTyped
  <2> QED
    BY <1>1, <2>1 DEF Worker
<1>3. w' = [w EXCEPT ![i] = r] /\ lock' = lock
  BY DEF EndRound, IInv, TypeOK, WorkersTyped
<1>4. r.pc = "pause" /\ r.mine = w[i].mine
  BY <1>1 DEF Worker
<1> HIDE DEF r
<1>5. Typed
  BY <1>2, <1>3, <1>4, StaysTyped DEF EndRound
<1>6. HistoryTyped' /\ UNCHANGED <<host, vm, answers>>
  BY DEF EndRound, host, IInv, TypeOK, HistoryTyped
<1> QED
  BY <1>5, <1>6, HostKept

LEMMA WakeTyped ==
  ASSUME IInv, NEW i \in Ids, Wake(i)
  PROVE  IInv'
<1>1. /\ w[i].pc = "pause" /\ UNCHANGED <<host, vm, answers, served, hurt>>
      /\ \/ Return(i) /\ reached' = reached
         \/ vm = w[i].mine /\ BeginRound(i)
         \/ PauseAgain(i, w[i].since + Pause[kind])
  BY DEF Wake
<1>2. Typed
  <2>1. w[i].since + Pause[kind] \in Nat
    BY TimesNat DEF IInv, TypeOK, HostTyped, WorkersTyped, Worker
  <2> QED
    BY <1>1, <2>1, ReturnTyped, BeginRoundTyped, PauseAgainTyped
<1>3. HistoryTyped'
  <2>1. CASE reached' = reached
    BY <1>1, <2>1 DEF host, IInv, TypeOK, HistoryTyped
  <2>2. CASE vm = w[i].mine /\ reached' = reached \cup {vm}
    <3>1. vm \in 1 .. session
      <4>1. vm # 0
        BY <1>1, <2>2 DEF IInv, Serves
      <4> QED
        BY <4>1, VmOfSession DEF IInv, TypeOK
    <3> QED
      BY <1>1, <2>2, <3>1 DEF host, IInv, TypeOK, HistoryTyped
  <2> QED
    BY <1>1, <2>1, <2>2 DEF BeginRound, PauseAgain
<1> QED
  BY <1>1, <1>2, <1>3, HostKept

LEMMA DiesTyped ==
  ASSUME IInv, NEW i \in Ids, Dies(i)
  PROVE  IInv'
<1>1. Typed
  BY ReturnTyped DEF Dies
<1>2. /\ UNCHANGED <<host, vm, answers, served, reached>>
      /\ hurt' \subseteq hurt \cup {w[i].mine} /\ w[i].pc \notin {"gone", "lock"}
  BY DEF Dies
<1>3. HistoryTyped'
  BY <1>2, HurtTyped DEF host
<1> QED
  BY <1>1, <1>2, <1>3, HostKept

-----------------------------------------------------------------------------
LEMMA StutterTyped == IInv /\ UNCHANGED vars => IInv'
<1> SUFFICES ASSUME IInv, UNCHANGED vars PROVE IInv'
  OBVIOUS
<1>1. UNCHANGED <<kind, session, launch, off, every, vm, answers, lock, w, served,
                  reached, hurt>>
  BY DEF vars
<1>2. HostTyped' /\ WorkersTyped' /\ HistoryTyped' /\ Locked' /\ Serves'
  BY <1>1 DEF IInv, TypeOK, HostTyped, WorkersTyped, Worker, HistoryTyped,
     Locked, Serves
<1> QED
  BY <1>2 DEF IInv, TypeOK

LEMMA NextTyped == IInv /\ [Next]_vars => IInv'
<1> SUFFICES ASSUME IInv, [Next]_vars PROVE IInv'
  OBVIOUS
<1>1. CASE VmStarts \/ LaunchWorker \/ StartAgain \/ VmStops
  BY <1>1, VmStartsTyped, LaunchWorkerTyped, StartAgainTyped, VmStopsTyped
<1>2. CASE GuestAnswers \/ Configure \/ Tick
  BY <1>2, GuestTyped, TickTyped
<1>3. ASSUME NEW i \in Ids, WorkerStep(i) PROVE IInv'
  BY <1>3, AcquireTyped, RetryTyped, ReadyTyped, PollAgainTyped,
     WaitEndsTyped, DialTyped, DialFailsTyped, WakeTyped DEF WorkerStep
<1>4. ASSUME NEW i \in Ids, EndRound(i) \/ Dies(i) PROVE IInv'
  BY <1>4, EndRoundTyped, DiesTyped
<1>5. CASE UNCHANGED vars
  BY <1>5, StutterTyped
<1> QED
  BY <1>1, <1>2, <1>3, <1>4, <1>5 DEF Next

(* Types; and the lock of the workers is held by the one process that      *)
(* passed it, whatever ends a process: two workers never serve at a time,  *)
(* and no lock outlives its owner.                                         *)
THEOREM TypeCorrect == Spec => []TypeOK
<1>1. Init => IInv
  BY InitTyped
<1>2. IInv /\ [Next]_vars => IInv'
  BY NextTyped
<1>3. IInv => TypeOK
  BY DEF IInv
<1> QED
  BY <1>1, <1>2, <1>3, PTL DEF Spec

-----------------------------------------------------------------------------
(***************************************************************************)
(* NeverAbandoned.  A worker that waits gives up after its retries; the    *)
(* holder of the lock may be of a former session, and leaves when it next  *)
(* looks at its VM.  The argument compares two countdowns: while such a    *)
(* holder remains, some process waits for longer than the holder takes.    *)
(* It holds for all times that satisfy WaitsSuffice.                       *)
(***************************************************************************)

(* Seconds until a holder whose VM is gone leaves, at most; and seconds    *)
(* until a process that waits gives up.                                    *)
Left(i) == IF w[i].pc = "round" THEN w[i].timer + Pause[kind] ELSE w[i].timer
Waits(i) == w[i].timer + (Tries[kind] - w[i].tries)

(* The countdowns of each place in the program are within their times, and *)
(* a round whose VM runs has none.                                         *)
Countdowns ==
    \A i \in Ids :
       /\ w[i].pc = "lock" => w[i].tries <= Tries[kind]
       /\ w[i].pc = "ready" => kind = "backup"
       /\ w[i].pc = "dial" => kind # "backup" /\ w[i].timer <= 1
       /\ w[i].pc = "pause" => w[i].timer <= Pause[kind]
       /\ w[i].pc = "round" => w[i].timer <= Tail[kind]

(* The journal names the session that runs only once its own worker holds  *)
(* the lock.                                                               *)
ServedByOwn == served = vm /\ vm # 0 /\ lock # 0 => w[lock].mine = vm

(* While the VM is off, the holder's countdown runs with the time it is    *)
(* off; a backup worker inside wait sees it within a poll.                 *)
Cooling ==
    vm = 0 /\ lock # 0 =>
       IF kind = "backup"
       THEN w[lock].pc = "ready" => w[lock].timer + off <= Poll
       ELSE Left(lock) + off <= Tail[kind] + Pause[kind] \/ Left(lock) = 0

(* The holder is of a former session.                                      *)
Former == vm # 0 /\ lock # 0 /\ w[lock].mine # vm

(* It pauses, if it is a backup worker; it leaves before the worker that   *)
(* start launches gives up, and before the last one that waits does.       *)
Outlasted ==
    Former =>
       /\ kind = "backup" => w[lock].pc = "pause"
       /\ IF launch # Never THEN Left(lock) < launch + Tries[kind]
          ELSE \E n \in Ids : w[n].pc = "lock" /\ Left(lock) < Waits(n)

Handover == Countdowns /\ ServedByOwn /\ Cooling /\ Outlasted

WaitInv == IInv /\ Handover

(* What a process may do: return, and one that waits returns before such a *)
(* holder only when its retries are over; take a free lock; wait a second  *)
(* more; go on serving its VM, which runs; end a round, whose VM may be    *)
(* gone.                                                                   *)
Others(i) == \A j \in Ids \ {i} : w'[j] = w[j]
Returns(i) ==
    /\ Return(i) /\ UNCHANGED served
    /\ w[i].pc = "lock" /\ Former => w[i].tries = Tries[kind] /\ w[i].timer = 0
Takes(i) ==
    /\ Others(i) /\ w[i].pc = "lock" /\ lock = 0 /\ lock' = i /\ vm # 0
    /\ w'[i].mine = vm /\ w'[i].timer = 0 /\ UNCHANGED served
    /\ w'[i].pc = IF kind = "backup" THEN "ready" ELSE "dial"
WaitsOn(i) ==
    /\ Others(i) /\ w[i].pc = "lock" /\ w[i].timer = 0 /\ w[i].tries # Tries[kind]
    /\ w'[i].pc = "lock" /\ w'[i].timer = 1 /\ w'[i].tries = w[i].tries + 1
    /\ UNCHANGED <<lock, served>>
GoesOn(i) ==
    /\ Others(i) /\ lock = i /\ lock' = i /\ w[i].mine = vm /\ w'[i].mine = vm
    /\ vm # 0 /\ served' \in {served, vm}
    /\ \/ w'[i].pc = "round" /\ w'[i].timer = 0
       \/ w'[i].pc = "ready" /\ kind = "backup"
       \/ w'[i].pc = "dial" /\ kind # "backup" /\ w'[i].timer = 1
       \/ w'[i].pc = "pause" /\ w'[i].timer = Pause[kind]
Pauses(i) ==
    /\ Others(i) /\ lock = i /\ lock' = i /\ w'[i].mine = w[i].mine
    /\ w[i].pc = "round" /\ w'[i].pc = "pause" /\ w'[i].timer = Pause[kind]
    /\ UNCHANGED served

Moves(i) ==
    /\ UNCHANGED <<host, vm>>
    /\ Returns(i) \/ Takes(i) \/ WaitsOn(i) \/ GoesOn(i) \/ Pauses(i)

-----------------------------------------------------------------------------
(* Numbers, and what the helpers of the model do to one process.           *)

LEMMA WorkerNumbers ==
  ASSUME NEW r \in Worker
  PROVE  r.timer \in Nat /\ r.tries \in Nat
BY DEF Worker

LEMMA AgainEffect ==
  ASSUME IInv, NEW i \in Ids, NEW n \in Nat, Again(i, n)
  PROVE  /\ Others(i) /\ w'[i].pc = w[i].pc /\ w'[i].mine = w[i].mine
         /\ w'[i].timer = n /\ w'[i].tries = w[i].tries + 1
BY DEF IInv, TypeOK, WorkersTyped, Again, Others

LEMMA BeginRoundEffect ==
  ASSUME IInv, NEW i \in Ids, BeginRound(i)
  PROVE  /\ Others(i) /\ w'[i].pc = "round" /\ w'[i].mine = w[i].mine
         /\ w'[i].timer = 0 /\ lock' = lock
BY DEF IInv, TypeOK, WorkersTyped, BeginRound, Others

LEMMA PauseAgainEffect ==
  ASSUME IInv, NEW i \in Ids, NEW n, PauseAgain(i, n)
  PROVE  /\ Others(i) /\ w'[i].pc = w[i].pc /\ w'[i].mine = w[i].mine
         /\ w'[i].timer = Pause[kind] /\ lock' = lock
BY DEF IInv, TypeOK, WorkersTyped, PauseAgain, Others

(* The holder is past the lock, and no one else is.                        *)
LEMMA Holder ==
  ASSUME IInv
  PROVE  /\ \A i \in Ids : w[i].pc \notin {"gone", "lock"} => lock = i /\ w[i].mine # 0
         /\ lock # 0 => lock \in Ids /\ w[lock].pc \notin {"gone", "lock"}
                        /\ w[lock].mine # 0
BY DEF IInv, TypeOK, WorkersTyped, Locked, Serves

-----------------------------------------------------------------------------
(* Every step of a process is a move.                                      *)

(* Acquire: the lock is free, so no holder is of a former session.         *)
LEMMA AcquireMoves ==
  ASSUME WaitInv, NEW i \in Ids, Acquire(i)
  PROVE  Moves(i)
<1>1. CASE vm = 0
  BY <1>1 DEF Acquire, Moves, Returns, Former
<1>2. CASE vm # 0
  <2> DEFINE p == IF kind = "backup" THEN "ready" ELSE "dial"
             r == [Gone EXCEPT !.pc = p, !.mine = vm]
  <2>1. w' = [w EXCEPT ![i] = r] /\ lock = 0 /\ lock' = i /\ w[i].pc = "lock"
    BY <1>2 DEF Acquire
  <2>2. r.pc = p /\ r.mine = vm /\ r.timer = 0
    BY DEF Gone
  <2> HIDE DEF r
  <2>3. Others(i) /\ w'[i] = r
    BY <2>1 DEF Others, WaitInv, IInv, TypeOK, WorkersTyped
  <2>4. Takes(i)
    BY <1>2, <2>2, <2>3 DEF Acquire, Takes
  <2> QED
    BY <2>4 DEF Moves, Acquire
<1> QED
  BY <1>1, <1>2

(* Retry: a process that finds its VM off or served gives up, but then     *)
(* the holder is not of a former session.                                  *)
LEMMA RetryMoves ==
  ASSUME WaitInv, NEW i \in Ids, Retry(i)
  PROVE  Moves(i)
<1>1. CASE w[i].tries = Tries[kind] \/ NotNeeded
  <2>1. Former => w[i].tries = Tries[kind] /\ w[i].timer = 0
    BY <1>1 DEF Retry, NotNeeded, Former, WaitInv, Handover, ServedByOwn
  <2>2. Returns(i)
    BY <1>1, <2>1 DEF Retry, Returns
  <2> QED
    BY <2>2 DEF Moves, Retry
<1>2. CASE ~(w[i].tries = Tries[kind] \/ NotNeeded)
  <2>1. Again(i, 1) /\ UNCHANGED <<host, vm, lock, served>>
    BY <1>2 DEF Retry
  <2>2. WaitsOn(i)
    BY <1>2, AgainEffect DEF Retry, WaitsOn, WaitInv
  <2> QED
    BY <2>1, <2>2 DEF Moves
<1> QED
  BY <1>1, <1>2

(* wait, of the backup worker, never runs for a former session: that VM    *)
(* was off for longer than a poll.                                         *)
LEMMA ReadyMoves ==
  ASSUME WaitInv, NEW i \in Ids, Ready(i)
  PROVE  Moves(i)
<1>1. lock = i /\ w[i].mine # 0
  BY Holder DEF Ready, WaitInv
<1>2. CASE vm = w[i].mine
  <2>1. BeginRound(i) /\ UNCHANGED <<host, vm, served>>
    BY <1>2 DEF Ready
  <2>2. GoesOn(i)
    BY <1>1, <1>2, <2>1, BeginRoundEffect DEF GoesOn, WaitInv
  <2> QED
    BY <2>1, <2>2 DEF Moves
<1>3. CASE vm # w[i].mine
  BY <1>3 DEF Ready, Moves, Returns
<1> QED
  BY <1>2, <1>3

LEMMA PollAgainMoves ==
  ASSUME WaitInv, NEW i \in Ids, PollAgain(i)
  PROVE  Moves(i)
<1>1. lock = i /\ w[i].mine # 0
  BY Holder DEF PollAgain, WaitInv
<1>2. w[i].mine = vm /\ vm # 0
  BY <1>1, IdsNotZero DEF PollAgain, WaitInv, Handover, Outlasted, Former,
     Countdowns
<1>3. kind = "backup" /\ w[i].pc = "ready" /\ UNCHANGED <<host, vm, lock, served>>
  BY DEF PollAgain, WaitInv, Handover, Countdowns
<1>4. PICK slow \in {0, Poll} : Again(i, Poll + slow)
  BY DEF PollAgain
<1>5. Poll + slow \in Nat
  BY BoundsNat
<1>6. GoesOn(i)
  BY <1>1, <1>2, <1>3, <1>4, <1>5, AgainEffect DEF GoesOn, WaitInv
<1> QED
  BY <1>3, <1>6 DEF Moves

LEMMA WaitEndsMoves ==
  ASSUME NEW i \in Ids, WaitEnds(i)
  PROVE  Moves(i)
BY DEF WaitEnds, Moves, Returns

LEMMA DialMoves ==
  ASSUME WaitInv, NEW i \in Ids, Dial(i)
  PROVE  Moves(i)
<1>1. lock = i /\ w[i].mine # 0
  BY Holder DEF Dial, WaitInv
<1>2. GoesOn(i)
  BY <1>1, BeginRoundEffect DEF Dial, GoesOn, WaitInv
<1> QED
  BY <1>2 DEF Moves, Dial

LEMMA DialFailsMoves ==
  ASSUME WaitInv, NEW i \in Ids, DialFails(i)
  PROVE  Moves(i)
<1>1. lock = i /\ w[i].mine # 0 /\ w[i].pc = "dial" /\ kind # "backup"
  BY Holder DEF DialFails, WaitInv, Handover, Countdowns
<1>2. CASE Again(i, 1) /\ vm = w[i].mine /\ UNCHANGED <<host, vm, lock, served>>
  <2>1. GoesOn(i)
    BY <1>1, <1>2, AgainEffect DEF GoesOn, WaitInv
  <2> QED
    BY <1>2, <2>1 DEF Moves
<1>3. CASE Return(i)
  BY <1>1, <1>3 DEF DialFails, Moves, Returns
<1> QED
  BY <1>2, <1>3 DEF DialFails

LEMMA WakeMoves ==
  ASSUME WaitInv, NEW i \in Ids, Wake(i)
  PROVE  Moves(i)
<1>1. lock = i /\ w[i].mine # 0 /\ w[i].pc = "pause" /\ UNCHANGED <<host, vm, served>>
  BY Holder DEF Wake, WaitInv
<1>2. CASE Return(i)
  BY <1>1, <1>2 DEF Moves, Returns
<1>3. CASE vm = w[i].mine /\ BeginRound(i)
  <2>1. GoesOn(i)
    BY <1>1, <1>3, BeginRoundEffect DEF GoesOn, WaitInv
  <2> QED
    BY <1>1, <2>1 DEF Moves
<1>4. CASE vm = w[i].mine /\ PauseAgain(i, w[i].since + Pause[kind])
  <2>1. GoesOn(i)
    BY <1>1, <1>4, PauseAgainEffect DEF GoesOn, WaitInv
  <2> QED
    BY <1>1, <2>1 DEF Moves
<1> QED
  BY <1>2, <1>3, <1>4 DEF Wake

LEMMA EndRoundMoves ==
  ASSUME WaitInv, NEW i \in Ids, EndRound(i)
  PROVE  Moves(i)
<1>1. lock = i
  BY Holder DEF EndRound, WaitInv
<1>2. Pauses(i)
  BY <1>1 DEF EndRound, Pauses, Others, WaitInv, IInv, TypeOK, WorkersTyped
<1> QED
  BY <1>2 DEF Moves, EndRound

LEMMA DiesMoves ==
  ASSUME NEW i \in Ids, Dies(i)
  PROVE  Moves(i)
BY DEF Dies, Moves, Returns

-----------------------------------------------------------------------------
(* Every move keeps the hand-over.                                         *)

LEMMA ReturnsKeeps ==
  ASSUME WaitInv, IInv', NEW i \in Ids, Returns(i), UNCHANGED <<host, vm>>
  PROVE  Handover'
<1> USE DEF WaitInv, Handover
<1>1. /\ \A j \in Ids \ {i} : w'[j] = w[j]
      /\ w'[i].pc = "gone" /\ UNCHANGED <<kind, launch, off, vm, served>>
  BY DEF Returns, Return, Gone, host, IInv, TypeOK, WorkersTyped
<1>2. Countdowns'
  BY <1>1 DEF Countdowns
<1>3. lock' = 0 \/ (lock' = lock /\ lock \in Ids \ {i})
  BY Holder DEF Returns, Return, IInv
<1>4. CASE lock' = 0
  BY <1>2, <1>4 DEF ServedByOwn, Cooling, Outlasted, Former
<1>5. CASE lock' = lock /\ lock \in Ids \ {i}
  <2>1. w'[lock'] = w[lock]
    BY <1>1, <1>5
  <2>2. Left(lock)' = Left(lock) /\ (Former' <=> Former)
    BY <1>1, <1>5, <2>1 DEF Left, Former
  <2>3. ServedByOwn' /\ Cooling'
    BY <1>1, <1>5, <2>2 DEF ServedByOwn, Cooling
  <2>4. ASSUME NEW n \in Ids, Former, w[n].pc = "lock", Left(lock) < Waits(n)
        PROVE  w'[n].pc = "lock" /\ Left(lock)' < Waits(n)'
    <3>1. n # i
      <4>1. CASE n = i
        <5>1. Waits(n) = 0
          BY <2>4, <4>1, TimesNat DEF Returns, Waits, IInv, TypeOK, HostTyped
        <5>2. Left(lock) \in Nat
          BY <1>5, TimesNat, WorkerNumbers DEF Left, IInv, TypeOK, HostTyped,
             WorkersTyped
        <5> QED
          BY <2>4, <5>1, <5>2
      <4> QED
        BY <4>1
    <3> QED
      BY <1>1, <2>2, <2>4, <3>1 DEF Waits
  <2>5. Outlasted'
    BY <1>1, <2>1, <2>2, <2>4 DEF Outlasted
  <2> QED
    BY <1>2, <2>3, <2>5
<1> QED
  BY <1>3, <1>4, <1>5

(* A free lock is taken only for the VM that runs.                         *)
LEMMA TakesKeeps ==
  ASSUME WaitInv, NEW i \in Ids, Takes(i), UNCHANGED <<host, vm>>
  PROVE  Handover'
<1> USE DEF WaitInv, Handover
<1>1. UNCHANGED <<kind, launch, off, vm, served>>
  BY DEF Takes, host
<1>2. Countdowns'
  BY <1>1 DEF Countdowns, Takes, Others
<1>3. lock' = i /\ vm # 0 /\ w'[i].mine = vm
  BY DEF Takes
<1> QED
  BY <1>2, <1>3 DEF ServedByOwn, Cooling, Outlasted, Former

(* A second more of waiting is one retry less.                             *)
LEMMA WaitsOnKeeps ==
  ASSUME WaitInv, NEW i \in Ids, WaitsOn(i), UNCHANGED <<host, vm>>
  PROVE  Handover'
<1> USE DEF WaitInv, Handover
<1>1. UNCHANGED <<kind, launch, off, vm, served, lock>>
  BY DEF WaitsOn, host
<1>2. w[i].tries \in Nat /\ Tries[kind] \in Nat
  BY TimesNat, WorkerNumbers DEF IInv, TypeOK, HostTyped, WorkersTyped
<1>3. Countdowns'
  BY <1>1, <1>2 DEF Countdowns, WaitsOn, Others
<1>4. lock = 0 \/ lock \in Ids \ {i}
  BY Holder DEF WaitsOn
<1>5. CASE lock = 0
  BY <1>1, <1>3, <1>5 DEF ServedByOwn, Cooling, Outlasted, Former
<1>6. CASE lock \in Ids \ {i}
  <2>1. w'[lock'] = w[lock]
    BY <1>1, <1>6 DEF WaitsOn, Others
  <2>2. Left(lock)' = Left(lock) /\ (Former' <=> Former)
    BY <1>1, <2>1 DEF Left, Former
  <2>3. ServedByOwn' /\ Cooling'
    BY <1>1, <2>1, <2>2 DEF ServedByOwn, Cooling
  <2>4. \A n \in Ids : w[n].pc = "lock" => w'[n].pc = "lock" /\ Waits(n)' = Waits(n)
    BY <1>1, <1>2 DEF WaitsOn, Others, Waits
  <2>5. Outlasted'
    BY <1>1, <2>1, <2>2, <2>4 DEF Outlasted
  <2> QED
    BY <1>3, <2>3, <2>5
<1> QED
  BY <1>4, <1>5, <1>6

(* The holder serves the VM that runs.                                     *)
LEMMA GoesOnKeeps ==
  ASSUME WaitInv, NEW i \in Ids, GoesOn(i), UNCHANGED <<host, vm>>
  PROVE  Handover'
<1> USE DEF WaitInv, Handover
<1>1. UNCHANGED <<kind, launch, off, vm>>
  BY DEF host
<1>2. Pause[kind] \in Nat /\ Tail[kind] \in Nat
  BY TimesNat DEF IInv, TypeOK, HostTyped
<1>3. Countdowns'
  BY <1>1, <1>2 DEF Countdowns, GoesOn, Others
<1>4. lock' = i /\ vm # 0 /\ w'[i].mine = vm
  BY DEF GoesOn
<1> QED
  BY <1>3, <1>4 DEF ServedByOwn, Cooling, Outlasted, Former

(* A round that ends leaves the pause that was counted with it.            *)
LEMMA PausesKeeps ==
  ASSUME WaitInv, NEW i \in Ids, Pauses(i), UNCHANGED <<host, vm>>
  PROVE  Handover'
<1> USE DEF WaitInv, Handover
<1>1. UNCHANGED <<kind, launch, off, vm, served, lock>> /\ lock = i
  BY DEF Pauses, host
<1>2. w[i].timer \in Nat /\ Pause[kind] \in Nat /\ Tail[kind] \in Nat /\ off \in Nat
  BY TimesNat, WorkerNumbers DEF IInv, TypeOK, HostTyped, WorkersTyped
<1>3. Countdowns'
  BY <1>1, <1>2 DEF Countdowns, Pauses, Others
<1>4. /\ w'[lock'].mine = w[lock].mine /\ w'[lock'].pc = "pause"
      /\ (Former' <=> Former) /\ w[lock].pc = "round"
  BY <1>1 DEF Pauses, Former
<1>5. Left(lock)' = Pause[kind] /\ Left(lock) = w[i].timer + Pause[kind]
  BY <1>1, <1>4 DEF Left, Pauses
<1>6. ServedByOwn' /\ Cooling'
  <2>1. ServedByOwn'
    BY <1>1, <1>4 DEF ServedByOwn
  <2>2. Left(lock)' + off' <= Left(lock) + off /\ (Left(lock) = 0 => Left(lock)' = 0)
    BY <1>1, <1>2, <1>5
  <2>3. Cooling'
    <3>1. CASE kind = "backup"
      BY <1>1, <1>4, <3>1 DEF Cooling
    <3>2. CASE kind # "backup"
      <4>1. SUFFICES ASSUME vm = 0, lock # 0
                     PROVE  \/ Left(lock)' + off' <= Tail[kind] + Pause[kind]
                            \/ Left(lock)' = 0
        BY <1>1, <3>2 DEF Cooling
      <4>2. Left(lock) + off <= Tail[kind] + Pause[kind] \/ Left(lock) = 0
        BY <3>2, <4>1 DEF Cooling
      <4> QED
        BY <1>1, <1>2, <1>5, <2>2, <4>2
    <3> QED
      BY <3>1, <3>2
  <2> QED
    BY <2>1, <2>3
<1>7. Outlasted'
  <2>1. SUFFICES ASSUME Former PROVE Outlasted'
    BY <1>4 DEF Outlasted
  <2>2. kind # "backup"
    BY <1>4, <2>1 DEF Outlasted
  <2>3. CASE launch # Never
    <3>1. Left(lock) < launch + Tries[kind] /\ launch \in Nat /\ Tries[kind] \in Nat
      BY <2>1, <2>3, TimesNat DEF Outlasted, IInv, TypeOK, HostTyped
    <3>2. Left(lock)' < launch + Tries[kind]
      BY <1>2, <1>5, <3>1
    <3> QED
      BY <1>1, <2>2, <2>3, <3>2 DEF Outlasted
  <2>4. CASE launch = Never
    <3>1. PICK n \in Ids : w[n].pc = "lock" /\ Left(lock) < Waits(n)
      BY <2>1, <2>4 DEF Outlasted
    <3>2. w'[n] = w[n] /\ Waits(n)' = Waits(n)
      BY <1>1, <3>1 DEF Pauses, Others, Waits
    <3>3. Waits(n) \in Int
      BY TimesNat, WorkerNumbers DEF Waits, IInv, TypeOK, HostTyped,
         WorkersTyped
    <3>4. Left(lock)' < Waits(n)'
      BY <1>2, <1>5, <3>1, <3>2, <3>3
    <3> QED
      BY <1>1, <2>2, <2>4, <3>1, <3>2, <3>4 DEF Outlasted
  <2> QED
    BY <2>3, <2>4
<1> QED
  BY <1>3, <1>6, <1>7

LEMMA MovesKeeps ==
  ASSUME WaitInv, IInv', NEW i \in Ids, Moves(i)
  PROVE  Handover'
BY ReturnsKeeps, TakesKeeps, WaitsOnKeeps, GoesOnKeeps, PausesKeeps DEF Moves

-----------------------------------------------------------------------------
(* The VM, the operator and the clock.                                     *)

(* A VM starts after the one before was off for a while: what its worker   *)
(* still has to do is counted against the time start and its worker take.  *)
LEMMA VmStartsKeeps ==
  ASSUME WaitsSuffice, WaitInv, VmStarts
  PROVE  Handover'
<1> USE DEF WaitInv, Handover
<1>1. UNCHANGED <<kind, off, lock, w, served>> /\ vm = 0 /\ off = Gap
  BY DEF VmStarts
<1>2. vm' = session + 1 /\ launch' = Settle[kind] /\ session \in Nat
  BY BoundsNat DEF VmStarts, IInv, TypeOK, HostTyped
<1>3. Countdowns'
  BY <1>1 DEF Countdowns
<1>4. ServedByOwn'
  <2>1. served \in 0 .. session
    BY DEF IInv, TypeOK, HistoryTyped
  <2> QED
    BY <1>1, <1>2, <2>1 DEF ServedByOwn
<1>5. Cooling'
  BY <1>2 DEF Cooling
<1>6. Outlasted'
  <2>1. SUFFICES ASSUME lock # 0
                 PROVE  /\ kind = "backup" => w[lock].pc = "pause"
                        /\ Left(lock) < Settle[kind] + Tries[kind] /\ Settle[kind] # Never
    BY <1>1, <1>2 DEF Outlasted, Former, Left
  <2>2. lock \in Ids /\ w[lock].pc \notin {"gone", "lock"} /\ w[lock] \in Worker
    BY <2>1, Holder DEF IInv, TypeOK, WorkersTyped
  <2>3. /\ w[lock].timer \in Nat /\ Tries[kind] \in Nat /\ Settle[kind] \in Nat
        /\ Pause[kind] \in Nat /\ Tail[kind] \in Nat /\ Gap \in Nat /\ Poll \in Nat
        /\ kind \in Kinds /\ Never \notin Nat
    BY <2>2, WorkerNumbers, WorkersAssumption DEF IInv, TypeOK, HostTyped
  <2>4. CASE kind = "backup"
    <3>1. Poll < Gap /\ Pause[kind] < Settle[kind] + Tries[kind]
      BY <2>3, <2>4 DEF WaitsSuffice
    <3>2. w[lock].pc # "ready"
      BY <1>1, <2>1, <2>3, <2>4, <3>1 DEF Cooling
    <3>3. w[lock].pc = "pause" /\ w[lock].timer <= Pause[kind]
      BY <2>2, <2>4, <3>2 DEF VmStarts, Copying, Countdowns, Worker
    <3> QED
      BY <2>3, <3>1, <3>3 DEF Left
  <2>5. CASE kind # "backup"
    <3>1. /\ 0 < Settle[kind] + Tries[kind]
          /\ Tail[kind] + Pause[kind] < Gap + Settle[kind] + Tries[kind]
      BY <2>3, <2>5 DEF WaitsSuffice
    <3>2. Left(lock) + Gap <= Tail[kind] + Pause[kind] \/ Left(lock) = 0
      BY <1>1, <2>1, <2>5 DEF Cooling
    <3>3. Left(lock) \in Nat
      BY <2>3 DEF Left
    <3> QED
      BY <2>3, <2>5, <3>1, <3>2, <3>3
  <2> QED
    BY <2>4, <2>5
<1> QED
  BY <1>3, <1>4, <1>5, <1>6

(* A new process in the place of one that is gone.                         *)
LEMMA LaunchEffect ==
  ASSUME IInv, Free # {}, Launch
  PROVE  \E i \in Ids : /\ Others(i) /\ w[i].pc = "gone"
                        /\ w'[i].pc = "lock" /\ w'[i].timer = 0 /\ w'[i].tries = 0
<1> DEFINE i == CHOOSE i \in Free : TRUE
<1>1. i \in Ids /\ w[i].pc = "gone"
  <2>1. i \in Free
    OBVIOUS
  <2> QED
    BY <2>1 DEF Free
<1>2. w' = [w EXCEPT ![i] = Waiting]
  BY DEF Launch
<1> HIDE DEF i
<1>3. Others(i) /\ w'[i] = Waiting
  BY <1>1, <1>2 DEF Others, IInv, TypeOK, WorkersTyped
<1>4. Waiting.pc = "lock" /\ Waiting.timer = 0 /\ Waiting.tries = 0
  BY DEF Waiting, Gone
<1> QED
  BY <1>1, <1>3, <1>4

(* It waits for all its retries; the others go on as before.               *)
LEMMA LaunchKeeps ==
  ASSUME WaitInv, Free # {}, Launch, vm # 0, launch \in {0, Never}, launch' = Never,
         UNCHANGED <<kind, vm, lock, served>>
  PROVE  Handover'
<1> USE DEF WaitInv, Handover
<1>1. PICK i \in Ids : /\ Others(i) /\ w[i].pc = "gone"
                       /\ w'[i].pc = "lock" /\ w'[i].timer = 0 /\ w'[i].tries = 0
  BY LaunchEffect
<1>2. Tries[kind] \in Nat
  BY TimesNat DEF IInv, TypeOK, HostTyped
<1>3. Countdowns'
  BY <1>1, <1>2 DEF Countdowns, Others
<1>4. CASE lock = 0
  BY <1>3, <1>4 DEF ServedByOwn, Cooling, Outlasted, Former
<1>5. CASE lock # 0
  <2>1. lock \in Ids \ {i} /\ w'[lock'] = w[lock]
    BY <1>1, <1>5, Holder DEF Others
  <2>2. Left(lock)' = Left(lock) /\ (Former' <=> Former)
    BY <2>1 DEF Left, Former
  <2>3. ServedByOwn' /\ Cooling'
    BY <2>1 DEF ServedByOwn, Cooling
  <2>4. Former => \E n \in Ids : w'[n].pc = "lock" /\ Left(lock) < Waits(n)'
    <3>1. CASE launch = 0
      <4>1. 0 # Never
        BY WorkersAssumption
      <4>2. Waits(i)' = Tries[kind]
        BY <1>1, <1>2 DEF Waits
      <4> QED
        BY <1>1, <1>2, <3>1, <4>1, <4>2 DEF Outlasted
    <3>2. CASE launch = Never
      BY <1>1, <3>2 DEF Outlasted, Others, Waits
    <3> QED
      BY <3>1, <3>2
  <2>5. Outlasted'
    BY <2>1, <2>2, <2>4 DEF Outlasted
  <2> QED
    BY <1>3, <2>3, <2>5
<1> QED
  BY <1>4, <1>5

LEMMA LaunchWorkerKeeps ==
  ASSUME WaitInv, LaunchWorker
  PROVE  Handover'
<1>1. CASE vm # 0
  <2>1. Free # {} /\ Launch /\ launch = 0 /\ launch' = Never
        /\ UNCHANGED <<kind, vm, lock, served>>
    BY <1>1 DEF LaunchWorker
  <2> QED
    BY <1>1, <2>1, LaunchKeeps
<1>2. CASE vm = 0
  <2>1. UNCHANGED <<kind, vm, lock, served, off, w>>
    BY <1>2 DEF LaunchWorker
  <2> QED
    BY <1>2, <2>1 DEF WaitInv, Handover, Countdowns, ServedByOwn, Cooling,
       Left, Outlasted, Former
<1> QED
  BY <1>1, <1>2

LEMMA StartAgainKeeps ==
  ASSUME WaitInv, StartAgain
  PROVE  Handover'
<1>1. Free # {}
  <2>1. CASE Free = {}
    <3>1. Cardinality(Free) = 0
      BY <2>1, FS_EmptySet
    <3>2. Spare[kind] \in Nat
      BY WorkersAssumption DEF WaitInv, IInv, TypeOK, HostTyped
    <3> QED
      BY <3>1, <3>2 DEF StartAgain
  <2> QED
    BY <2>1
<1>2. /\ Launch /\ vm # 0 /\ launch = Never /\ launch' = Never
      /\ UNCHANGED <<kind, vm, lock, served>>
  BY DEF StartAgain, host
<1> QED
  BY <1>1, <1>2, LaunchKeeps

(* From here on, what the holder still has to do is bounded.               *)
LEMMA VmStopsKeeps ==
  ASSUME WaitsSuffice, WaitInv, VmStops
  PROVE  Handover'
<1> USE DEF WaitInv, Handover
<1>1. UNCHANGED <<kind, lock>> /\ vm' = 0 /\ off' = 0
  BY DEF VmStops
<1>2. /\ Pause[kind] \in Nat /\ Tail[kind] \in Nat /\ Poll \in Nat /\ kind \in Kinds
      /\ 1 \in Nat
  BY TimesNat, BoundsNat DEF IInv, TypeOK, HostTyped
<1>3. ASSUME NEW i \in Ids
      PROVE  /\ w'[i].pc = w[i].pc /\ w'[i].tries = w[i].tries /\ w'[i].timer \in Nat
             /\ w[i].pc \in {"lock", "dial", "pause"} => w'[i].timer = w[i].timer
             /\ w[i].pc = "round" => w'[i].timer \in {w[i].timer, Tail[kind]}
             /\ w[i].pc = "ready" => w'[i].timer <= Poll
  <2>1. w[i] \in Worker /\ w[i].timer \in Nat
    BY WorkerNumbers DEF IInv, TypeOK, WorkersTyped
  <2>2. CASE w[i].pc = "round"
    <3>1. w'[i] \in {w[i], [w[i] EXCEPT !.timer = Tail[kind]]}
      BY <2>2 DEF VmStops
    <3> QED
      BY <1>2, <2>1, <2>2, <3>1 DEF Worker
  <2>3. CASE w[i].pc = "ready"
    <3>1. w'[i] = IF w[i].timer > Poll THEN [w[i] EXCEPT !.timer = Poll] ELSE w[i]
      BY <2>3 DEF VmStops
    <3> QED
      BY <1>2, <2>1, <2>3, <3>1 DEF Worker
  <2>4. CASE w[i].pc \notin {"round", "ready"}
    <3>1. w'[i] = w[i]
      BY <2>4 DEF VmStops
    <3> QED
      BY <2>1, <2>4, <3>1
  <2> QED
    BY <2>2, <2>3, <2>4
<1>4. Countdowns'
  BY <1>1, <1>2, <1>3 DEF Countdowns
<1>5. ServedByOwn' /\ Outlasted'
  BY <1>1 DEF ServedByOwn, Outlasted, Former
<1>6. Cooling'
  <2>1. SUFFICES ASSUME lock # 0
                 PROVE  IF kind = "backup"
                        THEN w'[lock].pc = "ready" => w'[lock].timer + 0 <= Poll
                        ELSE Left(lock)' + 0 <= Tail[kind] + Pause[kind]
    BY <1>1 DEF Cooling
  <2>2. lock \in Ids /\ w[lock].pc \in {"ready", "dial", "round", "pause"}
    BY <2>1, Holder DEF IInv, TypeOK, WorkersTyped, Worker
  <2>3. CASE kind = "backup"
    BY <1>2, <1>3, <2>2, <2>3
  <2>4. CASE kind # "backup"
    <3>1. 1 <= Tail[kind] + Pause[kind]
      BY <1>2, <2>4 DEF WaitsSuffice
    <3>2. CASE w[lock].pc = "round"
      <4>1. w'[lock].timer <= Tail[kind] /\ w'[lock].timer \in Nat
        BY <1>3, <2>2, <3>2 DEF Countdowns
      <4>2. Left(lock)' = w'[lock].timer + Pause[kind]
        BY <1>1, <1>3, <2>2, <3>2 DEF Left
      <4> QED
        BY <1>2, <2>4, <4>1, <4>2
    <3>3. CASE w[lock].pc \in {"dial", "pause"}
      <4>1. w'[lock].timer \in Nat /\ (w'[lock].timer <= 1 \/ w'[lock].timer <= Pause[kind])
        BY <1>3, <2>2, <3>3 DEF Countdowns
      <4>2. Left(lock)' = w'[lock].timer
        BY <1>1, <1>3, <2>2, <3>3 DEF Left
      <4> QED
        BY <1>2, <2>4, <3>1, <4>1, <4>2
    <3> QED
      BY <2>2, <2>4, <3>2, <3>3 DEF Countdowns
  <2> QED
    BY <2>3, <2>4
<1> QED
  BY <1>4, <1>5, <1>6

(* A second passes for both countdowns: a holder whose VM is gone, and a   *)
(* process that waits, act before the clock goes on.                       *)
LEMMA TickKeeps ==
  ASSUME WaitInv, Tick
  PROVE  Handover'
<1> USE DEF WaitInv, Handover
<1>1. UNCHANGED <<kind, vm, lock, served>> /\ off' = IF vm = 0 /\ off < Gap THEN off + 1 ELSE off
  BY DEF Tick
<1>2. /\ Pause[kind] \in Nat /\ Tail[kind] \in Nat /\ Tries[kind] \in Nat /\ Poll \in Nat
      /\ off \in Nat
  BY TimesNat, BoundsNat DEF IInv, TypeOK, HostTyped
<1>3. ASSUME NEW i \in Ids
      PROVE  /\ w'[i].pc = w[i].pc /\ w'[i].tries = w[i].tries /\ w'[i].mine = w[i].mine
             /\ w[i].timer \in Nat /\ w[i].tries \in Nat
             /\ w'[i].timer = IF w[i].timer > 0 THEN w[i].timer - 1 ELSE 0
             /\ w[i].pc \in {"lock", "ready", "dial", "pause"} => w[i].timer > 0
             /\ w[i].pc = "round" /\ w[i].mine # vm => w[i].timer > 0
  <2>1. w[i] \in Worker /\ w[i].timer \in Nat /\ w[i].tries \in Nat
    BY WorkerNumbers DEF IInv, TypeOK, WorkersTyped
  <2>2. w'[i] = [w[i] EXCEPT !.timer = IF w[i].timer > 0 THEN w[i].timer - 1 ELSE 0]
    BY DEF Tick
  <2>3. ~Due(i)
    BY DEF Tick
  <2> QED
    BY <2>1, <2>2, <2>3 DEF Due, Worker
<1>4. Countdowns'
  BY <1>1, <1>2, <1>3 DEF Countdowns
<1>5. CASE lock = 0
  BY <1>1, <1>4, <1>5 DEF ServedByOwn, Cooling, Outlasted, Former
<1>6. CASE lock # 0
  <2>1. lock \in Ids /\ w[lock].pc \notin {"gone", "lock"} /\ w[lock].mine # 0
    BY <1>6, Holder
  <2>2. w'[lock].pc = w[lock].pc /\ w'[lock].mine = w[lock].mine /\ (Former' <=> Former)
    BY <1>1, <1>3, <2>1 DEF Former
  <2>3. ServedByOwn'
    BY <1>1, <2>2 DEF ServedByOwn
  <2>4. ASSUME vm # w[lock].mine
        PROVE  /\ w[lock].timer > 0 /\ w'[lock].timer = w[lock].timer - 1
               /\ Left(lock) \in Nat /\ Left(lock)' = Left(lock) - 1
    <3>1. w[lock].timer > 0
      BY <1>3, <2>1, <2>4 DEF IInv, TypeOK, WorkersTyped, Worker
    <3>2. w'[lock].timer = w[lock].timer - 1 /\ w[lock].timer \in Nat
      BY <1>3, <2>1, <3>1
    <3> QED
      BY <1>1, <1>2, <2>2, <3>1, <3>2 DEF Left
  <2>5. Cooling'
    <3>1. SUFFICES ASSUME vm = 0 PROVE Cooling'
      BY <1>1 DEF Cooling
    <3>2. /\ w[lock].timer \in Nat /\ w'[lock].timer = w[lock].timer - 1
          /\ w[lock].timer > 0 /\ Left(lock) \in Nat /\ Left(lock)' = Left(lock) - 1
      BY <1>3, <2>1, <2>4, <3>1
    <3>3. off' = off \/ off' = off + 1
      BY <1>1
    <3>4. CASE kind = "backup"
      BY <1>1, <1>2, <2>2, <3>2, <3>4 DEF Cooling
    <3>5. CASE kind # "backup"
      <4>1. Left(lock) + off <= Tail[kind] + Pause[kind]
        <5>1. Left(lock) # 0
          BY <1>2, <3>2 DEF Left
        <5> QED
          BY <1>6, <3>1, <3>5, <5>1 DEF Cooling
      <4>2. Left(lock)' + off' <= Tail[kind] + Pause[kind]
        BY <1>2, <3>2, <3>3, <4>1
      <4> QED
        BY <1>1, <3>5, <4>2 DEF Cooling
    <3> QED
      BY <3>4, <3>5
  <2>6. Outlasted'
    <3>1. SUFFICES ASSUME Former PROVE Outlasted'
      BY <2>2 DEF Outlasted
    <3>2. Left(lock) \in Nat /\ Left(lock)' = Left(lock) - 1
      BY <2>4, <3>1 DEF Former
    <3>3. (kind = "backup" => w[lock].pc = "pause")'
      BY <1>1, <2>2, <3>1 DEF Outlasted
    <3>4. CASE launch # Never
      <4>1. launch \in Nat /\ launch # 0 /\ launch' = launch - 1 /\ launch' # Never
        <5>1. launch \in Nat /\ launch # 0 /\ launch' = launch - 1
          BY <3>4 DEF Tick, IInv, TypeOK, HostTyped
        <5> QED
          BY <5>1, WorkersAssumption
      <4>2. Left(lock) < launch + Tries[kind]
        BY <3>1, <3>4 DEF Outlasted
      <4>3. Left(lock)' < launch' + Tries[kind]
        BY <1>2, <3>2, <4>1, <4>2
      <4> QED
        BY <1>1, <3>3, <4>1, <4>3 DEF Outlasted
    <3>5. CASE launch = Never
      <4>1. PICK n \in Ids : w[n].pc = "lock" /\ Left(lock) < Waits(n)
        BY <3>1, <3>5 DEF Outlasted
      <4>2. Waits(n) \in Int /\ Waits(n)' = Waits(n) - 1
        BY <1>1, <1>2, <1>3, <4>1 DEF Waits
      <4>3. w'[n].pc = "lock" /\ Left(lock)' < Waits(n)'
        BY <1>3, <3>2, <4>1, <4>2
      <4>4. launch' = Never
        BY <3>5 DEF Tick
      <4> QED
        BY <1>1, <3>3, <4>3, <4>4 DEF Outlasted
    <3> QED
      BY <3>4, <3>5
  <2> QED
    BY <1>4, <2>3, <2>5, <2>6
<1> QED
  BY <1>5, <1>6

LEMMA OthersKeep ==
  ASSUME WaitInv, GuestAnswers \/ Configure \/ UNCHANGED vars
  PROVE  Handover'
<1>1. UNCHANGED <<kind, launch, off, vm, lock, w, served>>
  BY DEF GuestAnswers, Configure, vars, host
<1> QED
  BY <1>1 DEF WaitInv, Handover, Countdowns, ServedByOwn, Cooling, Outlasted,
     Former, Left, Waits

-----------------------------------------------------------------------------
LEMMA InitWaits == Init => WaitInv
<1> SUFFICES ASSUME Init PROVE WaitInv
  OBVIOUS
<1>1. IInv
  BY InitTyped
<1>2. Handover
  BY DEF Init, Gone, Handover, Countdowns, ServedByOwn, Cooling, Outlasted,
     Former
<1> QED
  BY <1>1, <1>2 DEF WaitInv

LEMMA MovesOfWorkers ==
  ASSUME WaitInv, NEW i \in Ids, WorkerStep(i) \/ EndRound(i) \/ Dies(i)
  PROVE  Moves(i)
BY AcquireMoves, RetryMoves, ReadyMoves, PollAgainMoves, WaitEndsMoves,
   DialMoves, DialFailsMoves, WakeMoves, EndRoundMoves, DiesMoves DEF
   WorkerStep

LEMMA NextWaits ==
  ASSUME WaitsSuffice, WaitInv, [Next]_vars
  PROVE  WaitInv'
<1>1. IInv'
  BY NextTyped DEF WaitInv
<1>2. CASE VmStarts \/ LaunchWorker \/ StartAgain \/ VmStops
  BY <1>1, <1>2, VmStartsKeeps, LaunchWorkerKeeps, StartAgainKeeps,
     VmStopsKeeps DEF WaitInv
<1>3. CASE GuestAnswers \/ Configure \/ Tick \/ UNCHANGED vars
  BY <1>1, <1>3, OthersKeep, TickKeeps DEF WaitInv
<1>4. ASSUME NEW i \in Ids, WorkerStep(i) \/ EndRound(i) \/ Dies(i) PROVE WaitInv'
  BY <1>1, <1>4, MovesOfWorkers, MovesKeeps DEF WaitInv
<1> QED
  BY <1>2, <1>3, <1>4 DEF Next

(* A step after which a process that waited is gone is its own.            *)
LEMMA OwnStep ==
  ASSUME IInv, Next, NEW i \in Ids, w[i].pc = "lock", w'[i].pc = "gone"
  PROVE  WorkerStep(i) \/ EndRound(i) \/ Dies(i)
<1>1. CASE VmStarts \/ GuestAnswers \/ Configure
  BY <1>1 DEF VmStarts, GuestAnswers, Configure, host
<1>2. CASE LaunchWorker \/ StartAgain
  <2>1. Launch \/ UNCHANGED w
    BY <1>2 DEF LaunchWorker, StartAgain
  <2>2. Waiting.pc = "lock"
    BY DEF Waiting, Gone
  <2> QED
    BY <2>1, <2>2 DEF Launch, IInv, TypeOK, WorkersTyped
<1>3. CASE VmStops
  <2>1. w'[i] = w[i]
    BY <1>3 DEF VmStops
  <2> QED
    BY <2>1
<1>4. CASE Tick
  <2>1. w[i] \in Worker
    BY DEF IInv, TypeOK, WorkersTyped
  <2>2. w'[i] = [w[i] EXCEPT !.timer = IF w[i].timer > 0 THEN w[i].timer - 1 ELSE 0]
    BY <1>4 DEF Tick
  <2> QED
    BY <2>1, <2>2 DEF Worker
<1>5. ASSUME NEW j \in Ids \ {i}, WorkerStep(j) \/ EndRound(j) \/ Dies(j)
      PROVE  FALSE
  <2>1. w'[i] = w[i]
    BY <1>5 DEF WorkerStep, Acquire, Retry, Ready, PollAgain, WaitEnds, Dial,
       DialFails, Wake, EndRound, Dies, Return, Again, BeginRound, PauseAgain,
       IInv, TypeOK, WorkersTyped
  <2> QED
    BY <2>1
<1> QED
  BY <1>1, <1>2, <1>3, <1>4, <1>5 DEF Next

(* The last process that waits for the lock leaves a VM that runs only to  *)
(* a holder that serves that VM.                                           *)
LEMMA LastLeaves ==
  ASSUME WaitInv, [Next]_vars
  PROVE  \A i \in Ids :
            (/\ w[i].pc = "lock" /\ w'[i].pc = "gone"
             /\ vm # 0 /\ launch = Never
             /\ \A j \in Ids \ {i} : w[j].pc # "lock")
            => lock # 0 /\ w[lock].mine = vm
<1> USE DEF WaitInv, Handover
<1> SUFFICES ASSUME NEW i \in Ids, w[i].pc = "lock", w'[i].pc = "gone",
                    vm # 0, launch = Never, \A j \in Ids \ {i} : w[j].pc # "lock"
             PROVE  lock # 0 /\ w[lock].mine = vm
  OBVIOUS
<1>1. Next
  BY DEF vars
<1>2. WorkerStep(i) \/ EndRound(i) \/ Dies(i)
  BY <1>1, OwnStep
<1>3. Moves(i)
  BY <1>2, MovesOfWorkers
<1>4. Acquire(i) \/ Retry(i)
  BY <1>2 DEF WorkerStep, Ready, PollAgain, WaitEnds, Dial, DialFails, Wake,
     EndRound, Dies
<1>5. lock # 0
  <2>1. CASE Acquire(i)
    <3> DEFINE r == [Gone EXCEPT !.pc = IF kind = "backup" THEN "ready" ELSE "dial",
                                 !.mine = vm]
    <3>1. w' = [w EXCEPT ![i] = r]
      BY <2>1 DEF Acquire
    <3>2. r.pc # "gone"
      BY DEF Gone
    <3> HIDE DEF r
    <3> QED
      BY <3>1, <3>2 DEF IInv, TypeOK, WorkersTyped
  <2>2. CASE Retry(i)
    BY <2>2 DEF Retry
  <2> QED
    BY <1>4, <2>1, <2>2
<1>6. CASE Former
  <2>1. Returns(i)
    BY <1>3 DEF Moves, Takes, WaitsOn, GoesOn, Pauses
  <2>2. Left(lock) < Waits(i)
    BY <1>6 DEF Outlasted
  <2>3. Waits(i) = 0
    BY <1>6, <2>1, TimesNat DEF Returns, Waits, IInv, TypeOK, HostTyped
  <2>4. Left(lock) \in Nat
    BY <1>5, TimesNat, WorkerNumbers DEF Left, IInv, TypeOK, HostTyped,
       WorkersTyped
  <2> QED
    BY <2>2, <2>3, <2>4
<1> QED
  BY <1>5, <1>6 DEF Former

(* If the times of a kind of worker suffice, the bounded wait of the last  *)
(* worker that waits outlasts the rounds, pauses and polls of the worker   *)
(* of the session before: no VM that runs is left without one.             *)
THEOREM NeverAbandonedHolds ==
  ASSUME WaitsSuffice
  PROVE  Spec => NeverAbandoned
<1>1. Init => WaitInv
  BY InitWaits
<1>2. WaitInv /\ [Next]_vars => WaitInv'
  BY NextWaits
<1>3. WaitInv /\ [Next]_vars =>
        [\A i \in Ids :
            (/\ w[i].pc = "lock" /\ w'[i].pc = "gone"
             /\ vm # 0 /\ launch = Never
             /\ \A j \in Ids \ {i} : w[j].pc # "lock")
            => lock # 0 /\ w[lock].mine = vm]_vars
  BY LastLeaves
<1> QED
  BY <1>1, <1>2, <1>3, PTL DEF Spec, NeverAbandoned
=============================================================================
