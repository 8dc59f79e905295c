# Voxy in TLA+

Voxy runs one Debian virtual machine under QEMU on Windows, macOS and Linux.
The launcher is a set of short-lived commands and a few long-lived worker
processes that share a *state directory* (disk, kernel, journals, locks) and
talk to QEMU's monitor sockets and to the guest over SSH. There is no daemon
that sees everything: each process acts on what the files say, and any of them
may die between two file operations. That is where the specifications look.

## 1. Inventory

| Component | Source | State it keeps | Operations | What makes it hard | What makes it correct |
| --- | --- | --- | --- | --- | --- |
| State directory and restore (Windows) | `windows/main_windows.go`, `restore_windows.go` | `disk.qcow2`, `kernel`, `initramfs`, staged `*.next` with `kernel-update.json`, `restore-pending.json`, `before-restore-*`, `process.json` | `init`, `start`, `stop`, `restore`, `sync-kernel`, `resize` | every command is many file operations; crash, retry, commands in unforeseen order, QEMU without a record | never boot a mixture of generations; never lose a disk; an interrupted restore completes |
| Control lock, durable writes | `durable_windows.go` | `control.lck`, temporary files | `lock`, `durableJSON` | freed by the death of the owner | one command at a time; metadata replaced atomically |
| Recovery points | `backup_windows.go`, `qmp_windows.go` | `backups/ID`, `backups/.partial-ID`, the QEMU job and its target node | `backup`, `backups`, retention | guest writes and upgrades while it is copied; attempts die and leave jobs; deletion file by file | published points are coherent; copies in use are not deleted; the newest points stay |
| Backup worker and settings | `backup_windows.go`, `backup_settings_windows.go` | `backup-worker.lck`, `backup-settings.json` | `backupWorker`, `backupDue` | hand-over between VM sessions, bounded waits, schedule | a first copy per session; periodic copies go on while asked for |
| Automatic ports engine | `internal/autoports/autoports.go` | `ports-auto.json` (status and ownership journal), rules in QEMU | `Recover`, `Reconcile` | lost replies, crash on either side of a mutation, stale journal, failed probe | every published rule is owned; manual rules are untouched; convergence |
| Ports worker (Windows) and helper (Unix) | `autoports_windows.go`, `cmd/voxy-ports/main.go` | `ports-worker.lck`, monitor connection | the worker loop | VM replaced under the worker, lock of the former worker | acts on its own VM session only |
| Manual port rules | `ports_windows.go`, `lib/ports.awk`, `lib/ports.sh` | `ports.conf`, `ports.active` | `add`, `remove`, `clear`, `list` | two programs, one of them rule by rule; the SSH port changes between commands | the same verdict and file wherever both read the lines; no accepted set overlaps |
| Process identity | `main_windows.go`, `process_windows.go` | `process.json` | `running` | reused process ids | a stranger is never taken for QEMU |
| SSH client, terminal, menu, integration | `main_windows.go`, `terminal_windows.go`, `integration_windows.go` | host key, console modes | `ssh`, `wait`, `menu`, `doctor` | I/O | - |
| Unix launcher | `voxy`, `lib/ports.sh` | `control.lock` directory, `ports.conf`, `ports.active`, `ssh-port`, `ports-session` | `init`, `start`, `stop`, `ports`, `resize`, `sync-kernel` | a lock that outlives its owner; a VM told to a helper by several files; two renames | one command at a time; no change of the rules is lost; a helper knows its VM |
| GPU launcher | `lib/gpu.sh` | `gpu/*` files, tunnel | `enable`, `disable`, `status` | polling files of a server that may die; sweeping files by name | *shared* and *off* are true when said; no server that lives is swept |
| GPU server | `gpu/src/server.rs` | threads, `busy` lock, stop flags, state files | `serve`, `handle`, `worker` | threads racing with shutdown, limits | one computation at a time per server; all threads joined; it ends when told to |
| GPU computation | `gpu/src/gpu.rs`, `main.rs` | - | `probe`, `compute`, `self-test` | numeric | - |

How they interact:

- *Control lock.* `init`, `start`, `stop`, `restore`, `sync-kernel`, `resize`
  and every `backup` hold `control.lck`; a second command is refused at once.
  The two workers have locks of their own and run beside the commands.
- *Files as messages.* `restore` writes the journal that `start` completes;
  `sync-kernel` stages the update that `start` or `stop` applies; `backup`
  publishes the points that `restore` reads; `start` writes the process record
  by which everybody else decides whether the VM runs; a ports worker leaves
  the journal its successor starts from.
- *QEMU.* `start` launches it; `backup` uses `qmp.sock`, the ports worker
  `ports.sock`. QEMU outlives the launcher and holds its disk open.
- *Guest.* Both workers, `stop` and `sync-kernel` ask it over SSH; it writes to
  its disk and upgrades its kernel whenever it likes.

## 2. Modules

| Module | Models | Checked by |
| --- | --- | --- |
| `Generations` | abstract specification: one installed generation (disk, kernel, initramfs), replaced in one step | implemented by `Recovery` |
| `Recovery` | the state directory and the six commands, one durable file operation per step | `Recovery_generations`, `Recovery_pending`, `Recovery_interference` |
| `Recovery_proofs` | theorems about `Recovery`, proved by TLAPS | |
| `RecoveryGenerations_proofs` | `Recovery` implements `Generations`, proved by TLAPS | |
| `Backup` | one attempt at a recovery point, QEMU's job, publication, retention | `Backup` |
| `Backup_proofs` | theorems about `Backup`, proved by TLAPS | |
| `AutoPorts` | engine and worker of the automatic ports, QEMU's rules, the guest's listeners, VM sessions | `AutoPorts_ownership`, `AutoPorts_converges`, `AutoPorts_stale_dial` |
| `MCAutoPorts` | the constants of those runs | |
| `AutoPorts_proofs` | theorems about `AutoPorts`, proved by TLAPS | |
| `Workers` | launch, lock wait and rounds of the backup worker, the ports worker and the ports helper over VM sessions, with a clock | `Workers_handover`, `Workers_restart` |
| `MCWorkers` | the times of the code, per kind of worker | |
| `Workers_proofs` | types, the lock and `NeverAbandoned` of `Workers`, proved by TLAPS | |
| `PortRules` | the two validations of `ports.conf` as pure operators (`Go*`, `Awk*`) | through `UnixLauncher` |
| `PortRules_proofs` | the two validations agree on every file that both read, proved by TLAPS | |
| `UnixLauncher` | `control.lock`, `start`, the `ports` commands and the helper's view of a VM on macOS and Linux; extends `PortRules` | `UnixLauncher` |
| `MCUnixLauncher` | the rules, requests and files of that run | |
| `UnixLauncher_proofs` | theorems about `UnixLauncher`, proved by TLAPS | |
| `OneAtATime` | abstract specification of the GPU service | implemented by `GpuSharing` |
| `GpuServer` | one GPU server: main loop, threads, computations, files | through `GpuSharing` |
| `GpuSharing` | the launcher's `enable` and `disable` composed with `GpuServer`, the guest and the tunnel | `GpuSharing`, `GpuSharing_unseen` |
| `GpuSharing_proofs` | theorems about `GpuSharing`, its refinement of `OneAtATime` among them, proved by TLAPS | |

Each module also defines *mutants*, operators that spell a plausible bug of the
definition they precede. No action uses them; they exist to be substituted for
that definition, to see that the properties notice.

### Recovery and Generations

A file of the state directory is an entry of `live`: a version for a kernel or
initramfs, a record (last guest write, newest kernel installed in it, virtual
size) for a disk, a pair of versions for `kernel-update.json`, whose hashes
bind the staged pair. `prev` holds the `before-restore-*` directories,
`journal` is `restore-pending.json`, `snaps` the published points, `bad` those
whose files no longer match their hashes. `op`, `pc`, `at` are the command that
owns the control lock, its next step and its position in the file order it
walks; `vm` is QEMU, which between `cmd.Start` and the writing of
`process.json` runs *unrecorded*.

`Save`/`Copy`/`ClearJournal` are the loop of `applyRestore`, one rename per
step; `VerifyUpdate`/`ApplyFile`/`Unstage`/`CleanNext` that of
`applyKernelUpdate`. `start` goes through both and boots; `stop` goes through
the second. `Abort` ends any command between two steps, for an error return,
the death of the launcher and a power loss alike: nothing is rolled back in any
of the three. A copy into a temporary name followed by a rename is one step,
because the temporary is removed and rewritten by every retry and read by
nobody. A staged file that was truncated and not filled counts as absent: no
hash in `kernel-update.json` matches it.

`TakeBackup` is `backup` by its effect. The detailed steps are in `Backup`,
where `PointSound` is what justifies the effect: disk, kernel and initramfs of
one instant.

`Recovery!Abstract` maps the files to one installed generation: the point named
by the journal while there is one; otherwise the disk with the staged pair, or
with the pair in place. Every file operation must be a stutter of `Generations`
or one of its steps. Its `Stage` takes only pairs that the installed disk has
the modules of and that are no older than the installed ones, so no step of
`applyKernelUpdate` that falls back to the old pair passes for it. The preserved
generation (`prev`) is not part of the abstraction: `DiskNeverLost` and
`PreviousComplete` are about it.

Assumptions: a point does not decay between its validation and the copy that
follows in the same command (`Decay` needs no command in progress); on Windows
QEMU's disk and initramfs cannot be renamed or replaced while it runs (`Held`);
the guest installs kernels in increasing versions and a disk keeps the modules
of the older ones, so a kernel boots a disk that has it or a newer one.

### Backup

One attempt is a walk through `pc`, one QMP or SSH request or one file
operation per step. `Fail` is an error return, which runs the deferred
`job-cancel` and `blockdev-del`; `Die` is the end of the process, which runs
nothing. `job` and `node` are what QEMU has, and survive both. `cur` is what the
stage directory holds; `cur.stamp`, `cur.k` and `cur.i` are the disk state and
the guest's kernel and initramfs at the instant `blockdev-backup` was accepted,
which is what QEMU's point-in-time copy contains. The guest's kernel and its
initramfs change together or one without the other: an upgrade replaces them in
turn, and `update-initramfs` regenerates the latter alone. The decision to skip depends on one reading of the
write counter and on points only the lock owner changes, so reading and
decision are one step. The retention removes the oldest point file by file, in
any order, as `os.RemoveAll` may.

Assumptions: the host clock does not step back (`Stage`: ids grow). Without it,
a point published later can carry a smaller id and the retention removes it
before one published earlier, since `checkpoints` sorts by id. A guest that
replaces its kernel and puts the same bytes back between the two comparisons is
not distinguished from one that never changed it (`kernel` and `initramfs` only
count up).

### AutoPorts

The worker reads the process record (`mine`, `mineManual`), connects (`conn`
is the VM session its connection reaches), adopts the journal if it is of its
session, removes what it lists, and loops: check, read the address, probe,
remove, add. Each `Save` and each monitor command is a step. A monitor command
is answered, refused by QEMU, or lost; a lost one may have been executed. The
worker may die at every step, the VM may die and be replaced at every step. A
missing, disabled or malformed configuration is `Off`: the engine removes what
it owns in all three cases and differs in the message only.

`DialWindow` allows the VM to be replaced between the worker's look at the
process record and its connection, which the code does not compare again. The
window is a second at most (`portsWorker` looks once per second while it waits
for the monitor); the properties that mention manual rules are stated without
it, and `AutoPorts_stale_dial` shows what happens within it.

### Workers

Each behaviour is about one `kind` of worker. `w` holds the worker processes:
`lock` waits for the lock of its kind, `ready` is inside `wait` (backup only),
`dial` connects to the monitor (ports only), `round` is a copy or a
reconciliation, `pause` the time between two. `Tick` is a second and is
disabled while anybody is due, so a wait that the code bounds by 5, 15 or 30
seconds is bounded by as many ticks. A round takes any number of ticks while
its VM runs and at most `Tail` after it ended, since every request to a dead
QEMU or guest fails within a limit. What a round does is `Backup` or
`AutoPorts`; here only its duration matters.

`served` is the session that `ports-auto.json` names: the ports worker of
Windows leaves early when it is that of the VM. `reached` and `hurt` are history: the sessions
in which some round began, and those whose own worker was killed or gave up. A
process that still waits for the lock is not killed: it holds nothing, and giving up
has the same effect.

Assumptions: `start` waits for a copy in progress (`Copying`: the copy holds
the control lock); the first copy is an attempt, which another command that
holds the control lock may refuse, and it is not repeated (`lastAttempt` is set
all the same, `backup_windows.go:375`), so `FirstRound` is about the attempt.
`Tail` of a ports round is five seconds (Windows) and one (helper): the probe and
the monitor are loopback connections that QEMU closes by ending, so a round
ends with it. An `ssh` that hung all the same is killed after eight seconds only
(`cmd/voxy-ports/main.go:158`), which with the pause of three is more than the
five the helper of the next session waits: there `NeverAbandoned` would fail.

### PortRules and UnixLauncher

`ports.conf` is a sequence of lines: a rule, and the *form* its ports are written
in. The two programs parse them differently. `portRange` of Windows takes any
number of leading zeros (`000080`), the range `80-80` on a line, and a carriage
return at the end; `ports.awk` takes at most five digits, one number, and no
carriage return: such a line, or such an argument of a command, is `lax`. What
both take is `plain`, what neither does is `junk`. Rules are written out `plain`
(`Encoded`). A line of more than 64 KiB, which only Go's scanner refuses, is
left out.

`GoAdd`, `GoRemove` and `GoValid` are the Windows functions on the rules, which
build a list and validate it; `AwkAdd`, `AwkRemove` and `AwkRead` are the script,
which adds rule after rule and stops at the first that does not fit. `GoLoad`,
`GoAddTo`, `GoRemoveFrom` and their `Awk` counterparts parse first. `SameRules`
compares the programs on a file, for every request and every SSH port: where all
is plain the script does what Windows does; where something is lax it refuses, and
so on macOS and Linux `start` and `ports` refuse a file with `000080` that Windows
accepts (no document promises that one launcher reads what was edited for the
other); and whatever Windows wrote, the script reads as it is. A loop over the
rules is a function defined by recursion over their numbers (`AwkAddAll`,
`Without`): unlike a fold of the library, such a function can be expanded in a
proof.

A launcher process of `UnixLauncher` is a `pc`: from `mkdir control.lock`
through the reading of the rules and QEMU's start to the three files by which
it tells the helper about the VM, or through a change of `ports.conf`. The
files `ports.active`, `ssh-port` and `ports-session` are known by the session
whose `start` wrote them. `Killed` ends a process anywhere and leaves the
directory; a `start` killed while it launches QEMU may leave a QEMU that comes up
untold. (It comes up at once in the model; one that appears only after
`control.lock` was removed and another `start` got as far is left out.)
`RemoveLock` is the operator, who removes the directory only when its process
is dead. The helper waits for its lock, reads the session, dials whatever
monitor listens, and reads `ports.active` and then `ssh-port`, in that order,
without `control.lock`.

Two helpers serve a VM by the session of the former one: the one launched after a
`start` that was killed between QEMU and `ports-session`, and, without any kill,
one that was waiting for its lock and gets it in that interval
(`cmd/voxy-ports/main.go:106-144`). The code does not prevent either;
`HelperKnows` is about helpers whose session is that of the VM they are
connected to.

### OneAtATime, GpuServer and GpuSharing

`srv[s].pc` is the main thread of the `s`-th server ever launched, `conn[c].pc`
the thread of a connection, `files[f]` the server that wrote a state file.
Files are removed *by name*, in the code and in the model, which is why it
matters who wrote them. `threads` is the list of handles as of the last time
the loop forgot the finished ones, so the limit is compared with a number that
may be too high, never too low. A computation is a child process, which may
end while it is given up. `ParseOther` stands for every refusal and for the
requests that only read.

SIGKILL takes a server and its threads, not the child: `left` holds the killed
servers whose last computation goes on until it ends by itself (`LeftEnds`). The
busy lock is that of one process, so the server launched next takes a request
meanwhile, and two GPU operations run at once. `gpu/README.md:45` ("one GPU
operation at a time") speaks of a running server, and line 47 of what SIGKILL
leaves; `OneAtATime` therefore promises one computation for the clients that are
attended to, beside those that killed services left, which nobody gets the result
of (`Crash`, `Fade`). `GpuSharing!Promise` maps connections to it: the running
request is the connection whose child runs, the computed ones those whose child
ended well, replies what their clients were told.

`lau` is the launcher of `GpuSharing`; `enable`, `disable` and the stop of the
VM exclude each other by `control.lock`. It may be killed at every step, also
inside the `rm` of the sweep, which removes the files in the order of its
arguments (`SweepDies`). With `Cut`, it may be killed between the spawn of the
server and the writing of `launcher.pid` too, a window of one line
(`lib/gpu.sh:79`). The next command then does not see that server and sweeps under
it; `gpu_unseen` shows what follows, and the other properties are checked and
proved without that window.

## 3. Runs

| Run | Question | Bounds, and why they suffice | Result |
| --- | --- | --- | --- |
| `recovery_generations` | Can any order and interruption of the six commands boot a mixture, lose a disk, run under a pending restore, lose the source of a restore, or complete one inexactly? Do the files implement `Generations`? | two kernels and one guest write (an older and a newer disk), two points with a retention of one (a point can be removed), one restore, interrupted and retried any number of times, all commands also while it is pending | 1 million states, holds |
| `recovery_pending` | Is the preserved generation complete, does a pending restore complete? | as above with one point; while a restore is pending only `start` is issued | 124 thousand states, holds |
| `recovery_interference` | The same about the preserved generation, with `init` while a restore is pending | as above | violated: see below |
| `autoports_ownership` | Are published rules owned, manual rules kept, engine and QEMU in agreement? | two sessions (a journal can be stale), two ports (a loop can stop half-way), a wildcard and a specific address (overlap) | 1.5 million states, holds |
| `autoports_converges` | Do the rules become the wanted ones? | one port, two sessions | 29 thousand states, holds |
| `autoports_stale_dial` | Manual rules, with the VM replaced under the dial | one port, two sessions | violated: see below |
| `backup` | Are points coherent, skips justified, copies in use kept? Do the newest points survive interrupted retentions? Are leftover jobs reaped? | four attempts that reach a stage directory against a retention of two (a second removal meets what an interrupted one left), two sessions (counters restart), two versions of kernel and initramfs and one guest write, which changes either, both or none (longer upgrades are left to the theorem) | 900 thousand states, holds |
| `workers_handover` | Does every VM that lasts get a worker that serves it, whatever the former one is doing? Do rounds go on? | all three kinds with the code's times; two sessions three seconds apart (longer than a poll of `wait`), three processes (a holder, the one of the new session, a surplus one), `wait` with three polls, an interval of one and a half pauses | 85 thousand states, holds |
| `workers_restart` | The first copy, with a restart right after a stop | backup worker, no gap between sessions, `wait` with eight polls (it must outlast the fifteen seconds of the new worker) | violated: see below |
| `unix_launcher` | Do commands exclude each other and keep each other's changes? Are the rules of QEMU sound, do both platforms agree on what both read, does a helper know its VM? | two processes (symmetric), two sessions, two ports, two rules at most (so that a range, a second rule and the limit meet), two protocols, wildcard and loopback, an SSH port among the rules and one beside them, files left by hand that overlap, are too long, are read by Windows only or by nobody, and a request written as only Windows reads it | 165 thousand states, holds |
| `gpu_sharing` | One computation at a time, orderly ends, no living server swept, true reports? | two clients and the launcher for two threads (the limit is met), two servers and one kill (files and a computation left behind, then met by the next), two QEMU processes | 576 thousand states, holds |
| `gpu_unseen` | Does a server remove only its own files, with the window before `launcher.pid`? | one client, two servers, no kill of a server | violated: see below |

`backup` and the two runs of `GpuSharing` do not check deadlock: the VM may be off for
good, or the servers used up, and nothing is left to do. In the other modules
something can always happen.

What the violated runs say:

- `recovery_interference`. A restore interrupted after it set the disk aside
  leaves no `disk.qcow2`; option 1 of the menu then issues `init`, which
  overwrites the old kernel before the restore has preserved it, and `start`
  files the base image's kernel under `before-restore-*`. The restored system
  is right; the preserved one is a mixture. The property also fails with `stop`
  among `PendingCommands` (it applies a staged update half-way through the
  restore) and with `sync-kernel` (it truncates `kernel.next` before it
  contacts the VM). `resize`, which is not refused either
  (`windows/main_windows.go:510-539`), may grow the half-restored disk; completing
  the restore copies the point again and undoes it, so the restore stays exact
  (`RestoreExact`) and the growth is lost.
- `autoports_stale_dial`. A worker of session 1 removes, in session 2, a rule
  that was automatic in the first and is manual in the second.
- `workers_restart`. `wait` polls whether *a* VM runs and answers. A backup
  worker inside it, whose VM is stopped and started again between two polls,
  goes on waiting for the new VM with `backup-worker.lck` in hand. The new
  worker gives up after fifteen seconds; then the guest answers, the old one
  compares identities and returns. The new VM gets no copy until another
  `start`. With the VM off for longer than a poll (`workers_handover`) the
  property holds.
- `gpu_unseen`. The launcher is killed between the spawn of a server and
  `launcher.pid`. The server has written `server.lock` and not yet its pid, the next
  `enable` sees nobody, sweeps the directory and starts a second server, which
  finds no lock. The first one, when it ends, removes the state files by name:
  those of the second, where `gpu/README.md:47` says "removes only state files
  created by this server".

## 4. Fairness

- `Recovery!Fairness`: a command in progress takes its next step (`WF`), and
  `start` is issued again and again (`SF`), which is what `restore` tells the
  operator to do when one is pending. `PendingCompletes` further supposes that
  interruptions end. It allows the exceptions the code cannot help: a point that
  has decayed, or a QEMU without record that holds the disk.
- `AutoPorts!Fairness`: worker steps and the launch of a worker by `start` are
  not delayed for ever; SSH answers again and again (`SF` on the probe, since
  failing probes alternate with it). `Converges` is about behaviours in which
  disturbances (VM, guest, host, lost replies, dying workers) end.
- `Backup!Fairness`: steps are not delayed for ever, QEMU ends a job it runs
  (at 32 MiB/s of a finite disk), and a copy is asked for again and again, by
  hand or by the worker.
- `Workers!Fairness`: time passes (`SF` on `Tick`, which an action that is due
  disables until it is taken), processes run, rounds end because each of their
  requests has a time limit, and a guest that boots answers in the end. Nothing
  is assumed of the operator: starts, stops and kills are free.
- `GpuServer!ServerFairness`: some server's main thread and some connection's
  thread take their steps; requests are read, computed and answered within time
  limits (`ThreadStep` includes giving up). Clients, launcher and QEMU are free,
  and a computation need not end: the deadline gives it up. `ShutdownEnds` says
  that again and again no server is ending; since a server that ended never comes
  back and there are finitely many, that is that none goes on ending for ever.

## 5. Proofs

A theorem is about every value of the constants that their named assumptions
allow: any number of files, versions, sessions, processes, ports, clients. In
every module the property is not inductive by itself; the modules define the
strengthening (`IInv`, `OwnedInv`, ...) as a conjunction of named parts, prove
that each operation keeps each part it can disturb, and read the properties off
it. The theorems cover every invariant and action property of the passing runs, and
both refinements; liveness is left to TLC (end of this section).

### Recovery

`Recovery_proofs`: `TypeCorrect`, `BootsAreConsistent`, `NoPendingRestoreRuns`,
`PendingSourceIsKept`, `DisksAreNeverLost`, `RestoresAreExact`,
`UpdatesAreApplied`.

A command may be cut short between any two steps, and any other command may
follow. The invariant is therefore in two parts. `Data` speaks of the files
alone, and must hold whatever was interrupted: `Pending` (a pending restore has
its point, its directory, no recorded VM; once it moved the disk aside, what
lies in its place is nothing, the point's disk or a base image), `Coherent`
(points hold the kernel their disk has), `Due` (with no restore pending, the
pair due at the next boot, staged or in place, was delivered together and is no
newer than the disk), `Owed` (`DiskNeverLost`). `Progress` says what the
command in progress has established: the files `applyRestore` has passed equal
the point's, those `applyKernelUpdate` has renamed equal the staged ones, and so
on. `Abort` keeps `Data` and makes `Progress` vacuous; every other step uses one
to establish the other. `RestoresAreExact` is read off it: when the loop of
`applyRestore` has passed every file, every file equals the point's, whatever other
commands did between its interruptions. `Due` is where the orders of renames matter: a mixture
of files is harmless as long as the journal, or `kernel-update.json`, outweighs
it.

The assumption `NoneAssumption` says that the model's "no such file" is not the
content of a file; `BoundsAssumption` that bounds are numbers.

`RecoveryGenerations_proofs`: `RefinesGenerations`, each operation a stutter or a
step of `Generations` under the map `Installed`. While a restore is pending the
live files do not matter; while an update is staged the live kernel and
initramfs do not; `ClearJournal` and `Unstage` are the two steps that must find
the files equal to what they stop outweighing, and `Restoring` and `Updating` say
they are.

`PreviousIsComplete` has a hypothesis: `PendingCommands \subseteq {"start",
"restore"}`. `PendingCommands` is what the operator issues while a restore is
pending. The message of `restore` tells him to issue `start`; the code does not
hold him to it, and `recovery_interference` shows the property fail otherwise. The
hypothesis is about him and leaves every interruption and retry in.

### Backup

`Backup_proofs`: `TypeCorrect`, `PointsAreSound`, `SkipsAreSound`,
`NewestPointsAreKept`, `PartialsInUseAreKept`. `PointSound` follows from `Fetched`:
the kernel was fetched before the disk was frozen and compared after, and versions
only move forward, so *fetched <= in the disk <= at the comparison*; the comparison
finds the two ends equal and closes the chain. The same holds of the initramfs,
with a comparison of its own: neither follows from the other.
`SkipSound` follows from `Marks`: the write counter recorded in a point was read
before its disk was frozen and counts within one session only, so in the same
session an unchanged counter leaves no write in between. `LastKept` follows from
`Ordered`: ids grow in the order of publication, the order the retention deletes
in. `PartialInUseKept` follows from `Job`: no job exists where the attempt thinks
there is none, also when an earlier attempt died and left one.

### AutoPorts

`AutoPorts_proofs`, with or without `DialWindow`: `TypeCorrect`, `OwnedHolds`
(*every automatic rule of the running QEMU is in the journal of its session*) and
`RemovedOnlyIfGoneHolds`; assuming `~DialWindow`: `ManualKeptHolds`,
`NoOverlapHolds`, `SettledExactHolds`.

They rest on three inductive invariants. `OwnedInvariant`: ownership alone is not
inductive, because the engine rewrites the journal from its own list `active`.
The strengthening relates, at each step of the worker, the journal, `active`,
the rule being added and what QEMU has: after recovery the automatic rules lie
within `active` whenever the connection reaches the running session, and no
worker of another session writes a journal while it could still change QEMU.
`ManualInvariant` adds what a worker believes about manual rules: without
`DialWindow` its copy is that of the session its connection reaches, and nothing
in `active`, `wanted` or its journal overlaps them. `GoneInv` adds that what the
journal of a session lists was allowed by the manual rules of that session:
without it a round could remove a rule it heard, because a manual rule refuses
it. The named assumption `RulesAssumption` says only that the wildcard is an
address, `off` is none, manual rules are rules and bounds are numbers.

### Workers

`Workers_proofs`: `TypeCorrect`, for any times and any number of processes. What
matters in it is `Locked`, that the lock is held by the one process that passed
it and by nobody after that process returned, gave up or was killed. It needs
`Serves`: a process past the lock serves a session. The assumption on the
intervals says that there is a longest one.

`NeverAbandonedHolds`, for all times that satisfy `WaitsSuffice`: a VM stays off for
longer than a poll of `wait`, and a wait for the lock, with what `start` takes
before it, is longer than the pause of a backup worker, or than the last round and
the pause of a ports worker less the time the VM was off. `MCWorkers` asserts that
the times of the code do (`MCTimesSuffice`); with `Gap = 0` they do not, which is
the counterexample of `workers_restart`. The proof compares two countdowns: the
seconds until a holder whose VM is gone leaves (`Left`), and those until a process
that waits gives up (`Waits`). While the VM is off, `Left` falls as the time off
grows (`Cooling`). While a holder is of a former session (`Outlasted`) it pauses, if
it is a backup worker, and `Left` is less than what the worker still to be launched
will wait, or than what one that waits already has left. A `Tick` takes one
from both, since the clock goes on only when nobody is due. `ServedByOwn`, that the
journal names the session that runs only once its own worker has the lock, is
why the ports worker's early return (`NotNeeded`) abandons nobody.

### UnixLauncher

`UnixLauncher_proofs` proves, for any number of launcher processes, sessions,
rules and requests, with kills at every step:

- `OneCommandHolds`, from `LockInvariant`. That two processes are not past the
  lock together is not inductive: the directory may exist without a process.
  The strengthening says that whoever is past it made it (`lock = p`); making it
  needs that nobody holds it, and the operator removes it only from a dead
  process.
- `NoLostChangeHolds`: whoever is about to replace `ports.conf` holds the lock,
  and so does whoever would change the file in between.
- `HelperKnowsHolds`. Start and helper share no lock; what carries the proof is
  the order of the writes and of the reads. If `ports-session` names the last
  session, `ports.active` and `ssh-port` do too (`Told`), a start that is telling
  has written those before it (`Telling`), and a helper whose session and
  connection are of the last VM read them after that (`Serving`).

- `TypeCorrect`: in particular, what a command writes to `ports.conf` is a list of
  rules. It needs to know what `Edited` contains (`EditedTyped`).
- `BootSoundHolds`, from `BootInv`: a file that is not refused is plain, read as it is
  and valid for the port of this start (`LoadIsFile`), and until QEMU starts whoever
  would change the file is shut out by `control.lock`.
- `AgreeHolds`: whatever `ports.conf` contains is a list of lines of some form
  (`Typed`), and on every such list `SameRules` holds (`SamePrograms`, below).

`LauncherAssumption` says that 0 names no process, bounds are numbers, and that an
editor leaves lines, and commands ask for rules, in any of the three forms.

### PortRules

`PortRules_proofs`: `SamePrograms`, for any protocols, addresses, number of ports and
limit of rules, and lines and requests of every form. Where all is plain the Windows
functions and the script give the same verdict and write the same file; where
something is not, the script refuses; the script reads whatever Windows wrote; and to
remove what was added gives the rules back.

The two differ in order: one builds the list and looks at all of it, the other
looks at each rule as it comes. `AddAllChecks` is the statement that joins them:
*adding `t` rule by rule to a checked `s` is checking `s` followed by `t`*, also when
`s` or a prefix of it is refused. Its step (`AddOneChecks`) is where the limits must
meet: what the script asks of rule `k + 1` is exactly what makes the first `k + 1`
valid when the first `k` are, and `Clash` must be symmetric, as each program
compares in its own direction. For removal, `KeptSound` says that a list without some
of its rules stays valid and that the two ways of counting what is removed agree;
`RemoveUndoesAdd` that a request that was accepted finds its own rules and no other,
since a rule of the file on one of its ports would have clashed.

The forms come last. `SameAdd` and `SameRemove` are about rules alone. A file that is
plain is the encoding of its rules (`PlainIsEncoded`), and the script reads an encoded
list that is valid as it is (`EncodedRead`), so what Windows wrote, checked by it, is
never refused (`FollowsRules`).

These are inductions over a list. The library's induction theorems take an operator
as a parameter, which the installed provers cannot instantiate; the module
derives induction in terms of sets instead. `WFMin`, for the order `<` on the
numbers, gives a least element of a set (`LeastNat`); the least number outside a set
that contains 0 and is closed under successor would be a contradiction
(`SetInduction`, `UpTo`); and a function by recursion exists up to every `N`, because
the set of the numbers up to which it does is closed (`Recursion`). `PortAssumption`
is used for the bounds; `RefusedAssumption` says that an error is not a list of rules.

### GpuSharing

`GpuSharing_proofs`, however launcher and servers are killed: `TypeCorrect`, which
includes that a server never has more threads than its limit and that its busy
lock is with one of its threads. With `Cut = FALSE`: `ServersAreOrderly`,
`CommandsTellTheTruth`, `TheSweptAreDead`, `ServesOneAtATimeHolds`.

`Base` says of each server and connection that it is well formed, and takes no
assumption. `Counted` is why the limit holds although the server counts its
threads from a list of handles it only prunes at the top of the loop: at the
accept the list contains every thread that runs. `Wrote` ties the files of a
server to how far it got in writing them.

`Succession` says that servers come one after the other: the files of a living
server are its own (`Own`); while one lives no other does, no file is another's,
and the launcher neither sweeps nor spawns, since it would find that server by a
pid (`Alone`); what `enable` reads on its way is of the server it launched
(`Enabling`). It is here that `Cut = FALSE` is needed: a launcher killed between
the spawn and `launcher.pid` leaves a server that nobody finds, and `Alone` fails, as
do `SweepsTheDead` and `WhatItSays`. `TheSweptAreDead` is about the steps between a
look at the pid and the next spawn: the launcher sweeps by what it saw earlier, and a
server whose pid no file names must not exist.

The refinement of `OneAtATime` uses both: by `Alone` at most one server has
threads, so its busy lock, which the thread with a running child holds, is the
lock of the GPU for its clients. `Kill` maps to `Crash`, which moves the killed server to
`left` if a child of it runs, `LeftEnds` to `Fade`, a request that takes the lock to `Begin`,
the end of the child to `End`, giving it up to `GiveUp`, another answer to `Reply`, a
closed connection to `Leave`, everything else to a stutter.

### Only model-checked

- Liveness: `PendingCompletes`, `Converges`, `LeftoversReaped`, `FirstRound`,
  `RoundsRecur`, `ShutdownEnds`. Fairness and `ENABLED` are outside the prover's
  reach.
- That the constants of the code satisfy the hypotheses of the theorems
  (`MCTimesSuffice`) is evaluated by TLC.

## 6. Plan

Built, in this order: `Recovery`, `Backup`, `AutoPorts`, `Workers`, `GpuServer` and
`GpuSharing`, `PortRules` and `UnixLauncher`, each with its proofs. Still to be
modelled: `init`, `resize` and `sync_kernel` of the Unix launcher.

## 7. Not modelled

Console dialogue, terminal modes, firewall and registry integration, SSH
connection set-up and key generation, QEMU's own behaviour beyond the requests
above, shader computation, the cloud wrapper, and build and packaging scripts:
none of them keeps state the modelled components depend on, or they are
pure input and output. Reply framing of QMP and HTTP is taken as given. Free
space, image checks and missing binaries are error returns, which the models
allow at every step. `init`, `resize` and `sync_kernel` of the Unix launcher take
the same `control.lock` as the commands of `UnixLauncher`; the last renames kernel
and initramfs one after the other without a journal, so a kill in between
leaves a mixture, and no document promises otherwise.

A retention of the Windows launcher that dies while it removes a point can leave
a directory with a manifest and without its disk. It is listed until the next
retention removes it, and `validateCheckpoint` refuses to restore it.
