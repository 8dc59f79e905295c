------------------------------ MODULE Workers -------------------------------
(***************************************************************************)
(* The background workers of a VM: the backup worker                       *)
(* (src/windows/backup_windows.go), the ports worker of Windows            *)
(* (src/windows/autoports_windows.go) and the ports helper of macOS and    *)
(* Linux (src/windows/cmd/voxy-ports/main.go).                             *)
(*                                                                         *)
(* start launches a worker for every VM session.  A worker waits for the   *)
(* lock of its kind, which the worker of the former session may still      *)
(* hold, for a bounded time; then it serves its session in rounds (a copy, *)
(* or a reconciliation of ports) with a pause between them, until it sees  *)
(* that its VM is gone.  The waits are what the hand-over rests on, so the *)
(* model has a clock: one Tick is a second, and it waits for every action  *)
(* that is due.                                                            *)
(***************************************************************************)
EXTENDS Naturals, FiniteSets

CONSTANTS
    Kinds,       \* kinds of worker, one of them in each behaviour
    Tries,       \* kind -> retries of the lock, a second apart
    Pause,       \* kind -> seconds between two rounds
    Settle,      \* kind -> seconds between QEMU and its worker in start
    Tail,        \* kind -> bound: seconds a round outlasts its VM
    Poll,        \* seconds between two polls of wait
    Patience,    \* polls after which wait gives up
    DialTries,   \* retries of the connection to the monitor
    Intervals,   \* intervals of the periodic copies, in seconds
    Never,       \* no periodic copies, or unreadable settings
    Gap,         \* bound: seconds a VM stays off at least
    Ids,         \* bound: worker processes alive at once
    Spare,       \* kind -> bound: processes start on a running VM must leave
    MaxSession   \* bound: VM sessions

ASSUME WorkersAssumption ==
    /\ Kinds \subseteq {"backup", "ports", "helper"}
    /\ \A k \in Kinds : {Tries[k], Pause[k], Settle[k], Tail[k], Spare[k]} \subseteq Nat
    /\ {Poll, Patience, DialTries, Gap, MaxSession} \subseteq Nat
    /\ Intervals \subseteq Nat
    /\ \E i \in Intervals \cup {0} : \A j \in Intervals : j <= i
    /\ Never \notin Nat /\ 0 \notin Ids

VARIABLES
    kind,      \* the kind of worker this behaviour is about
    vm,        \* the session that runs, or 0
    session,   \* the last session
    answers,   \* whether the guest answers over SSH
    off,       \* seconds since the VM stopped, up to Gap
    launch,    \* seconds until start launches the worker, or Never
    lock,      \* the worker holding the lock, or 0
    w,         \* the worker processes
    every,     \* backup-settings.json: the interval, or Never
    served,    \* ports-auto.json: the session in it, or 0
    reached,   \* history: sessions in which some round began
    hurt       \* history: sessions whose worker was killed or gave up on them

host == <<kind, session, launch, off, every>>
vars == <<kind, vm, session, answers, off, launch, lock, w, every, served,
          reached, hurt>>

Longest == CHOOSE i \in Intervals \cup {0} :
              \A j \in Intervals : j <= i

(* mine is the session a worker serves, timer the seconds until it acts    *)
(* again, tries its retries so far, since the time from its last copy to   *)
(* the beginning of this pause.                                            *)
Gone == [pc |-> "gone", mine |-> 0, timer |-> 0, tries |-> 0, since |-> 0]
Waiting == [Gone EXCEPT !.pc = "lock"]

Init ==
    /\ kind \in Kinds
    /\ vm = 0 /\ session = 0 /\ answers = FALSE
    /\ off = Gap /\ launch = Never
    /\ lock = 0
    /\ w = [i \in Ids |-> Gone]
    /\ every = Never
    /\ served = 0
    /\ reached = {} /\ hurt = {}

-----------------------------------------------------------------------------
(* Helpers.                                                                *)

Free == {i \in Ids : w[i].pc = "gone"}
Launch == w' = [w EXCEPT ![CHOOSE i \in Free : TRUE] = Waiting]

(* A worker that is due acts before time goes on.  A round takes any time  *)
(* while its VM runs, and at most its tail afterwards.                     *)
Due(i) ==
    /\ w[i].timer = 0
    /\ \/ w[i].pc \in {"lock", "ready", "dial", "pause"}
       \/ w[i].pc = "round" /\ vm # w[i].mine

(* Mutant: a process that ends leaves its lock behind.                     *)
ReturnLocked(i) ==
    /\ w' = [w EXCEPT ![i] = Gone]
    /\ lock' = lock

(* The process returns; a lock of the kernel goes with it.                 *)
Return(i) ==
    /\ w' = [w EXCEPT ![i] = Gone]
    /\ lock' = IF lock = i THEN 0 ELSE lock

(* The process tries again after so many seconds.                          *)
Again(i, seconds) ==
    w' = [w EXCEPT ![i] = [@ EXCEPT !.tries = w[i].tries + 1, !.timer = seconds]]

BeginRound(i) ==
    /\ w' = [w EXCEPT ![i] = [@ EXCEPT !.pc = "round", !.timer = 0]]
    /\ reached' = reached \cup {vm}
    /\ UNCHANGED lock

-----------------------------------------------------------------------------
(* The VM and the operator.                                                *)

(* A copy holds the control lock, and start is refused meanwhile.          *)
Copying == kind = "backup" /\ \E i \in Ids : w[i].pc = "round"

(* start: QEMU is launched; the worker follows after the start is checked. *)
VmStarts ==
    /\ vm = 0 /\ launch = Never /\ off = Gap /\ ~Copying
    /\ session < MaxSession
    /\ session' = session + 1 /\ vm' = session + 1
    /\ answers' = FALSE
    /\ launch' = Settle[kind]
    /\ UNCHANGED <<kind, off, lock, w, every, served, reached, hurt>>

(* A VM that already terminated gets no worker.                            *)
LaunchWorker ==
    /\ launch = 0
    /\ launch' = Never
    /\ IF vm = 0
       THEN UNCHANGED w
       ELSE Free # {} /\ Launch
    /\ UNCHANGED <<kind, vm, session, answers, off, lock, every, served, reached, hurt>>

(* start on a running VM launches a worker more.                           *)
StartAgain ==
    /\ vm # 0 /\ launch = Never /\ ~Copying
    /\ Cardinality(Free) > Spare[kind]
    /\ Launch
    /\ UNCHANGED <<host, vm, answers, lock, served, reached, hurt>>

(* QEMU ends.  Requests to it fail at once, so a round or a poll in        *)
(* progress goes on for a bounded time only.                               *)
VmStops ==
    /\ vm # 0
    /\ vm' = 0 /\ answers' = FALSE /\ off' = 0
    /\ w' = [i \in Ids |->
               CASE w[i].pc = "round" /\ w[i].mine = vm ->
                      [w[i] EXCEPT !.timer = Tail[kind]]
                 [] w[i].pc = "ready" /\ w[i].timer > Poll ->
                      [w[i] EXCEPT !.timer = Poll]
                 [] OTHER -> w[i]]
    /\ UNCHANGED <<kind, session, launch, lock, every, served, reached, hurt>>

(* Only the backup worker waits for it before its first round.  A guest    *)
(* takes longer to boot than start to check it.                            *)
GuestAnswers ==
    /\ kind = "backup" /\ vm # 0 /\ launch = Never /\ ~answers
    /\ answers' = TRUE
    /\ UNCHANGED <<host, vm, lock, w, served, reached, hurt>>

(* configureBackups: the worker reads the settings at its next tick.       *)
Configure ==
    /\ kind = "backup"
    /\ every' \in (Intervals \cup {Never}) \ {every}
    /\ UNCHANGED <<kind, vm, session, answers, off, launch, lock, w, served, reached, hurt>>

(* Time passes for everybody when nobody is due.                           *)
Tick ==
    /\ launch # 0
    /\ \A i \in Ids : ~Due(i)
    /\ launch' = IF launch = Never THEN Never ELSE launch - 1
    /\ off' = IF vm = 0 /\ off < Gap THEN off + 1 ELSE off
    /\ w' = [i \in Ids |->
               [w[i] EXCEPT !.timer = IF w[i].timer > 0 THEN w[i].timer - 1 ELSE 0]]
    /\ UNCHANGED <<kind, vm, session, answers, lock, every, served, reached, hurt>>

-----------------------------------------------------------------------------
(* A worker.                                                               *)

(* What follows the lock: the session is that of the process record, read  *)
(* now; without a VM the worker returns.                                   *)
Acquire(i) ==
    /\ w[i].pc = "lock" /\ w[i].timer = 0
    /\ lock = 0
    /\ IF vm = 0
       THEN Return(i)
       ELSE /\ lock' = i
            /\ w' = [w EXCEPT ![i] =
                       [Gone EXCEPT !.pc = IF kind = "backup" THEN "ready" ELSE "dial",
                                    !.mine = vm]]
    /\ UNCHANGED <<host, vm, answers, served, reached, hurt>>

(* Mutant: any journal will do, that of the former session too.            *)
NotNeededStale == kind = "ports" /\ (vm = 0 \/ served # 0)

(* The ports worker leaves when the VM is off or its session is served.    *)
NotNeeded == kind = "ports" /\ (vm = 0 \/ served = vm)

(* Mutant: the worker gives up at once.                                    *)
RetryNever(i) ==
    /\ w[i].pc = "lock" /\ w[i].timer = 0
    /\ lock # 0
    /\ Return(i)
    /\ UNCHANGED <<host, vm, answers, served, reached, hurt>>

Retry(i) ==
    /\ w[i].pc = "lock" /\ w[i].timer = 0
    /\ lock # 0
    /\ IF w[i].tries = Tries[kind] \/ NotNeeded
       THEN Return(i)
       ELSE /\ Again(i, 1)
            /\ UNCHANGED lock
    /\ UNCHANGED <<host, vm, answers, served, reached, hurt>>

(* wait, of the backup worker: it polls until the guest answers, the VM    *)
(* is off or its patience ends.  It does not look whose VM it is: the      *)
(* identity is compared after it.                                          *)
Ready(i) ==
    /\ w[i].pc = "ready" /\ w[i].timer = 0
    /\ vm # 0 /\ answers
    /\ IF vm = w[i].mine
       THEN BeginRound(i)
       ELSE Return(i) /\ UNCHANGED reached
    /\ UNCHANGED <<host, vm, answers, served, hurt>>

(* A poll of a guest that boots fails at once, or by its own time limit.   *)
PollAgain(i) ==
    /\ w[i].pc = "ready" /\ w[i].timer = 0
    /\ vm # 0 /\ w[i].tries < Patience
    /\ \E slow \in {0, Poll} : Again(i, Poll + slow)
    /\ UNCHANGED <<host, vm, answers, lock, served, reached, hurt>>

WaitEnds(i) ==
    /\ w[i].pc = "ready" /\ w[i].timer = 0
    /\ vm = 0 \/ (w[i].tries = Patience /\ ~answers)
    /\ Return(i)
    /\ hurt' = IF vm # 0 THEN hurt \cup {w[i].mine} ELSE hurt
    /\ UNCHANGED <<host, vm, answers, served, reached>>

(* Dial and Recover, of the ports workers: the journal now names this      *)
(* session, and the first round begins.                                    *)
Dial(i) ==
    /\ w[i].pc = "dial" /\ w[i].timer = 0
    /\ vm = w[i].mine
    /\ BeginRound(i)
    /\ served' = IF kind = "ports" THEN w[i].mine ELSE served
    /\ UNCHANGED <<host, vm, answers, hurt>>

(* The monitor is not there: the ports worker of Windows, whose QEMU may   *)
(* not have opened it yet, tries again; the helper returns.                *)
DialFails(i) ==
    /\ w[i].pc = "dial" /\ w[i].timer = 0
    /\ kind = "helper" => vm # w[i].mine
    /\ IF kind = "ports" /\ vm = w[i].mine /\ w[i].tries < DialTries
       THEN /\ Again(i, 1)
            /\ UNCHANGED <<lock, hurt>>
       ELSE /\ Return(i)
            /\ hurt' = IF vm = w[i].mine THEN hurt \cup {vm} ELSE hurt
    /\ UNCHANGED <<host, vm, answers, served, reached>>

EndRound(i) ==
    /\ w[i].pc = "round"
    /\ w' = [w EXCEPT ![i] = [@ EXCEPT !.pc = "pause", !.timer = Pause[kind], !.since = 0]]
    /\ UNCHANGED <<host, vm, answers, lock, served, reached, hurt>>

(* backupDue: copies after the first are for those who asked for them.     *)
CopyDue(i) == every # Never /\ w[i].since + Pause[kind] >= every
PauseAgain(i, since) ==
    /\ w' = [w EXCEPT ![i] =
               [@ EXCEPT !.timer = Pause[kind],
                         !.since = IF since < Longest THEN since ELSE Longest]]
    /\ UNCHANGED <<lock, reached>>

(* Mutant: the time of the last copy is taken anew after every pause.      *)
WakeForgets(i) ==
    /\ w[i].pc = "pause" /\ w[i].timer = 0
    /\ CASE vm # w[i].mine -> Return(i) /\ UNCHANGED reached
         [] vm = w[i].mine /\ (kind # "backup" \/ CopyDue(i)) -> BeginRound(i)
         [] OTHER -> PauseAgain(i, 0)
    /\ UNCHANGED <<host, vm, answers, served, hurt>>

(* The pause is over: a worker whose VM is gone returns.                   *)
Wake(i) ==
    /\ w[i].pc = "pause" /\ w[i].timer = 0
    /\ CASE vm # w[i].mine -> Return(i) /\ UNCHANGED reached
         [] vm = w[i].mine /\ (kind # "backup" \/ CopyDue(i)) -> BeginRound(i)
         [] OTHER -> PauseAgain(i, w[i].since + Pause[kind])
    /\ UNCHANGED <<host, vm, answers, served, hurt>>

(* A ports round fails (monitor, journal), or the process is killed.       *)
Dies(i) ==
    /\ w[i].pc \notin {"gone", "lock"}
    /\ Return(i)
    /\ hurt' = hurt \cup {w[i].mine}
    /\ UNCHANGED <<host, vm, answers, served, reached>>
-----------------------------------------------------------------------------
WorkerStep(i) ==
    Acquire(i) \/ Retry(i) \/ Ready(i) \/ PollAgain(i) \/ WaitEnds(i)
    \/ Dial(i) \/ DialFails(i) \/ Wake(i)

Next ==
    \/ VmStarts \/ LaunchWorker \/ StartAgain \/ VmStops \/ GuestAnswers
    \/ Configure \/ Tick
    \/ \E i \in Ids : WorkerStep(i) \/ EndRound(i) \/ Dies(i)

Spec == Init /\ [][Next]_vars

(* Time passes, processes run, rounds end (requests have time limits), and *)
(* a guest that boots answers at last.                                     *)
Fairness ==
    /\ SF_vars(Tick) /\ WF_vars(LaunchWorker) /\ WF_vars(GuestAnswers)
    /\ \A i \in Ids : WF_vars(WorkerStep(i)) /\ WF_vars(EndRound(i))

FairSpec == Spec /\ Fairness

-----------------------------------------------------------------------------
(* Properties.                                                             *)

Worker == [pc : {"gone", "lock", "ready", "dial", "round", "pause"},
           mine : 0 .. session, timer : Nat, tries : Nat, since : 0 .. Longest]

HostTyped ==
    /\ kind \in Kinds
    /\ vm \in {0, session} /\ session \in 0 .. MaxSession
    /\ answers \in BOOLEAN /\ (answers => vm # 0)
    /\ off \in 0 .. Gap
    /\ launch \in (0 .. Settle[kind]) \cup {Never}
    /\ every \in Intervals \cup {Never}

WorkersTyped == w \in [Ids -> Worker] /\ lock \in Ids \cup {0}

HistoryTyped == served \in 0 .. session /\ reached \cup hurt \subseteq 1 .. session

(* The lock is held by the one worker that passed it.                      *)
Locked == \A i \in Ids : (lock = i) <=> w[i].pc \notin {"gone", "lock"}

(* Types; and the lock is held by the one worker that passed it, so a      *)
(* process that ends, however it ends, never leaves it behind.             *)
TypeOK == HostTyped /\ WorkersTyped /\ HistoryTyped /\ Locked

(* The times with which a wait for the lock outlasts the holder of the     *)
(* session before.  A backup worker pauses by then, since a poll ends its  *)
(* own wait while the VM is off; a ports worker may be in its last round.  *)
WaitsSuffice ==
    \A k \in Kinds :
       /\ 0 < Settle[k] + Tries[k]
       /\ IF k = "backup"
          THEN Poll < Gap /\ Pause[k] < Settle[k] + Tries[k]
          ELSE /\ 1 <= Tail[k] + Pause[k]
               /\ Tail[k] + Pause[k] < Gap + Settle[k] + Tries[k]

(* Of a VM that runs, the last worker that waits leaves only if the holder *)
(* of the lock serves that VM: the bounded wait outlasts the rounds, pauses *)
(* and polls of the worker of the session before.                          *)
NeverAbandoned ==
    [][\A i \in Ids :
          (/\ w[i].pc = "lock" /\ w'[i].pc = "gone"
           /\ vm # 0 /\ launch = Never
           /\ \A j \in Ids \ {i} : w[j].pc # "lock")
          => lock # 0 /\ w[lock].mine = vm]_vars

(* Every VM session that lasts gets its first copy, or its ports looked    *)
(* after, whatever the worker of the session before was doing; unless its  *)
(* own worker is killed, the guest does not answer in the time of wait, or *)
(* QEMU never opens its monitor.                                           *)
FirstRound ==
    \A s \in 1 .. MaxSession :
       vm = s ~> (vm # s \/ s \in reached \cup hurt)

(* Periodic copies go on: a worker that pauses begins another round unless *)
(* it ends or the copies are turned off.                                   *)
RoundsRecur ==
    \A i \in Ids :
       (w[i].pc = "pause" /\ (kind = "backup" => every # Never))
          ~> (w[i].pc # "pause" \/ (kind = "backup" /\ every = Never))
=============================================================================
