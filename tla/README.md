# shipmunk-runner in TLA+

This directory models `shipmunk-runner`, the program that polls a control plane
for work, runs each attempt in a Docker sandbox under a lease, and reports its
result. What it is about is custody: one attempt at a time, never a sandbox, a
credential home or a copy of the user's source that nobody answers for, never a
result or a "stopped" the control plane should not have been told, whatever
crashes, and never a configuration that mixes two installations.

Every module is translated from `src/`; `PROJECT.json` maps each definition to
its lines. The Docker engine, the control plane, the kernel and the file system
are external: they are modelled by what the code relies on.

## 1. The system

| Component | State it keeps | Operations |
| --- | --- | --- |
| Attempt supervisor (`internal/supervisor`) | the claim, the execution error | `RunOnce`: reconcile, claim, run, cleanup |
| Lease guard (`supervisor/lease.go`) | sandbox id, two pending flags, context, timer, `finished`, the watchdog | `renew`, `reserve`, `createStarted`, `created`, `finishWithoutCreate`, `complete`, `stop` |
| Attempt journal (`internal/attemptstate`) | `active-attempt.json`, its lock | `Load`, `Save`, `Clear` |
| Watchdog (`internal/sandbox/watchdog.go`) | a child process: expiry, `createInFlight` | arm, create phase, renew, disarm; expiry and removal |
| Docker driver (`internal/sandbox`) | the container of the attempt's name | create, start, wait, reconcile |
| Runner loop (`command/runner_runtime.go`) | failure count, pause and its cause | poll, pace, stop |
| Discard (`command/discard_attempt.go`) | none | drops the journal of a stopped runner |
| Installation (`internal/install`) | live files, backups, pending files, `.activation.json` | validate, activate, recover |
| Control-plane client (`internal/protocol`) | none; a budget per call | claim, heartbeat, stopped, completion, artifacts |
| Workspace (`internal/workspace`) | a directory per attempt | prepare, remove |
| Codex executor (`internal/codex/executor.go`, `command/codex_executor.go`) | the active execution, its watchdog lease, `execution.json` of the profile | execute, renew, cleanup |
| Codex transport (`codex/transport.go`) | three containers and a memory volume per execution | start, run native, collect the patch, stop |
| Codex mediation (`codex/mediation.go`, `review_mediation.go`, `containers/codex/codex-mcp.mjs`) | a request and a response file, a sequence number, a budget, a seal | exchange, authorise, execute; list, search, read, diff |
| Codex sessions (`internal/codexsession`) | one session file per run, a lock | select, persist |
| Profile store and lifecycle (`internal/profile`) | journals `pending`, `active`, `completed`, `execution`; a native home; locks | connect, probe, disconnect, recover; reserve and release an execution |
| Profile runtime (`profile/runtime.go`) | a container per operation, a tombstone for a late create | start, run, stop, reconcile a create |
| Setup and launchers (`command/setup*.go`) | none of their own | install, launch under `.launch.lock` |
| Runner log (`internal/runlog`) | `runner.log` and three generations | append, rotate |
| Release packaging, command line | none | build archives, parse options |

How they interact:

- The runner loop calls `RunOnce`, one call at a time. `RunOnce` first recovers
  what the journal names, and only then claims.
- The claim is journaled before anything is started, the container's reserved
  name before the watchdog is armed, the watchdog is armed before the create is
  dispatched, and the container's id is journaled when the create answers.
- A heartbeat goroutine shares the guard with the main flow through one mutex.
  Both save the journal.
- The watchdog is a separate process with a pipe to the runner. It outlives the
  runner, removes the container when the pipe closes or the lease lapses, and
  waits for a create that it was told of.
- The control plane keeps the lease, hands out an attempt, takes one result and
  the stopped acknowledgement, and refuses (409) an attempt it gave away.
- A Codex attempt replaces the one container by an execution: it reserves the
  profile in `execution.json`, mounts the profile's home in its native container,
  and serves that container's tool calls over two files.
- A profile command begins an operation at the control plane, runs the native
  login or check in a container on the same home, and reports the outcome. The
  execution and the commands take turns on the home.
- Setup, launchers, profile commands and the runner exclude each other by file
  locks; a launcher that finds `.activation.json` refuses to start.

What is hard: crashes between any two of those steps, a create that fails here
and succeeds later in the engine, saves that fail after their rename, heartbeats
racing the main flow, two processes acting on one lease or one home, a watchdog
whose runner dies between a phase and its acknowledgement, refusals counted over
several launches, bridge files left by a dead process, and directory entries that a
power loss brings back. Each is listed, at its line,
under `hazards` in `PROJECT.json`.

What makes each component correct:

- *Supervisor, guard, journal, watchdog*: the journal always names what exists;
  a watchdog outlives what may run; stopped means gone; worked means reported,
  released and removed; a completed attempt is silent.
- *Lease*: authority ends within the control plane's lease, and nothing that is
  answered in time is taken away early.
- *Runner loop*: it stops at the third failure of its own, never sooner or
  later; what must not be retried in one process is not.
- *Installation*: a launch sees one generation of files, what the operator was
  told stays true, and an interrupted activation is resolved.
- *Profile lifecycle and runtime*: the home has one owner, who is named on disk
  before anything mounts it; an operation reported as stopped mounts nothing;
  credentials are never removed under a container; ready means usable.
- *Codex execution*: cleanup that succeeds has removed everything; the
  reservation outlives the native container; the tools and the patch see the
  claim's sources, or the patch is empty.
- *Mediation and review*: no command runs twice or over budget, an answer is the
  client's own; a reviewer who follows the hints misses nothing silently.
- *Files and locks*: the journals tell one story after any kill or power loss,
  commands refuse each other and never wait, and the release changes only where
  nothing depends on it.

## 2. Modules

| Module | What it is |
| --- | --- |
| `AttemptSupervisor` | `RunOnce`, the guard and its heartbeats, the watchdog, the engine, the control plane and discard, without time |
| `SandboxCustody` | the abstract promise: one attempt in custody, sandboxes only in custody, stopped only when gone |
| `MCAttemptSupervisor` | sets of attempts and symmetry for TLC |
| `AttemptSupervisorInvariant`, `AttemptSupervisorProofs` | the inductive invariant; the theorems from it, and the proof that the supervisor implements `SandboxCustody` |
| `LeaseClock` | the clocks of one attempt |
| `FailureBreaker` | the loop around `RunOnce`, with every outcome `RunOnce` has |
| `RunnerProofs` | the proofs about the lease and its watchdog, about when the loop stops and how long it pauses |
| `Activation`, `MCActivation`, `ActivationProofs` | activation of the installed files, with crashes and power losses; three theorems |
| `ProfileLifecycle`, `ProfileLifecycleProofs` | connect, probe and disconnect from command line to control plane, with container, watchdog and a competing execution; five theorems |
| `ProfileCustody` | the abstract promise about a credential home, implemented by `ProfileLifecycle` and by `CodexExecution` |
| `CodexExecution`, `CodexExecutionProofs` | one Codex execution, its transport call by call, its cleanup, its watchdog; three theorems |
| `Mediation`, `MediationProofs` | the bridge between native container and host; three theorems |
| `ReviewTools`, `ReviewToolsProofs` | the read-only tools of a review and how a reviewer pages through them; two theorems |
| `MCReviewTools` | the loops of those tools, for TLC to compare |
| `StateFiles`, `StateFilesProofs` | locks, journals, home and release of one installation, shared by all commands, under power losses; five theorems |

Modules are composed by refinement and by abstraction, not by conjunction:
`StateFiles` takes a command as the list of its steps on disk, what the commands
mean is in `AttemptSupervisor`, `ProfileLifecycle` and `Activation`; the
execution is one reservation in `ProfileLifecycle` and in full in
`CodexExecution`, and both implement `ProfileCustody`; an outcome of
`AttemptSupervisor` is a poll of `FailureBreaker`.

### AttemptSupervisor

`pc` is where the main flow is: one value per point of `RunOnce`, `reconcile`
and `cleanup` at which another actor may act, `down` being no process. `claim`
and `failure` are `RunOnce`'s locals; `sandboxID`, `creationPending`,
`reservationPending`, `live`, `finished` and `armed` are the fields of
`leaseGuard`; `heartbeat` is its goroutine, which holds the mutex while it is
`sent`. A stretch of code that holds the mutex over several I/O steps
(`reserve`, `created`, `finishWithoutCreate`) is several phases, listed in
`MutexPhases`, in which no heartbeat starts; all else may interleave.

`journal` is the file. A save or a clear that fails leaves the old or the new
contents (`SaveFails`), as the store renames before it syncs the directory.
`container` and `createRequest` are the engine: a create that is dispatched is
decided later (`DockerDecides`), whatever the client was told. `watchdog` and
`createInFlight` are the child process, one for each attempt: it starts to
clean when its pipe closes, it is told to stop, or its own clock runs out
(`WatchdogExpires`), and leaves only after it has seen what it waits for.

A phase that the runner sends the child waits in the pipe (`unread`) until
`WatchdogReads`, and the runner waits for the acknowledgement with the mutex held
(`StartAck`, `CreatedAck`, `FinishAck`), until it comes, the child ends, or the wait
times out. `piped` are the children whose pipes end in the present process: when a
child reads the phase of a runner that has died, its acknowledgement cannot be
written and it is `lost`, without a cleanup (`watchdog.go:442`). `Stranded` is what
such a child leaves of the direct driver: a container that was never started.

`server` and `result` are the control plane; `Supersede` is the control plane
giving the attempt to another runner.

Time is not in this module. A lease that lapses, a deadline and a signal are
`Revoke`, possible between any two steps. `abandoned` and `rebooted` are kept
for the properties only: discarded without confirmation, and watched by a
watchdog that died with its host.

Left out: the data of events and results, the runner log, and the composite
(`Executor`) path, which is `CodexExecution`. Docker's stop, kill and remove of
one container is one step.

### LeaseClock

One attempt with time in ticks of five seconds: the lease at the control plane,
the guard's timer and ticker, heartbeats with their HTTP budget, the arming of
the watchdog under the mutex, and the child's expiry. A timer that is due acts
before time passes (`Due`, `Tick`); what is due in one tick comes in any order.
`Composite` selects the Codex executor, which arms its watchdog with the claim's
lease and drops renewals before it is armed.

### FailureBreaker

`runSupervised`: `failures` is the streak, `cause` and `pause` the backoff. An
error is the set of causes `errors.As` finds in it. `log` holds the outcomes,
so that properties speak of the history.

### Activation

`file` maps each entry of the directory (live, backup and pending, by name) to
the number of the activation that wrote it, or to `Absent` or `Torn`; `marker`
is `.activation.json`. `fileDisk` and `markerDisk` hold every content an entry
has had since the last directory sync: `PowerLoss` picks one for each. `skipped`
and `revived` are history: `recover` found no journal and did not sync, and a
power loss then brought that journal back (see section 4). `pc` has
one value per failing call of `activateLocked`, `recover`, `finishActivation`,
`abortJournal` and `preparationError`. `Crash` may stop a step halfway
(`Halfway`): a created file without its bytes, a part of the removals. The lock
goes with the process. Validation, whose effect is to refuse, is the step of
`Recovered` that gives up. `promised` is what the operator was last told.

### ProfileLifecycle and ProfileCustody

A command line is `Invoke`; from then on `pc` is the next call of
`OperateLocked` or `recover`, `mem` the `pendingJournal` the process holds and
`pending` the one on disk. The two differ where the code lets them: `recover`
learns a binding without journaling it, a failed save may have taken effect.
`Begin` answers with a binding, a definitive refusal or an error; `Bind`,
`Intend` and `Unintend` are the three journal updates around the container;
`Await` is the create's answer, lost or not; `Stop` removes the container or,
while a create may be in flight, leaves a tombstone in its name. `home` is what
the checks of the native home tell apart. The container of an operation passes
from a request (`inflight`) to `created`, `starting`, `running`; its watchdog
child knows (`told`) of a create that is not confirmed, and may be lost once its
command is gone (`ChildLost`); no safety property relies on it. The execution is
`Reserve`, `Quiesce` and `ReleaseExecution`, with `busy` for its container. The
control plane keeps `server`, `stopping`, `ready`; an administrator may stop an
operation, disconnect or delete the profile at any moment. The process may be
killed and the host rebooted between any two steps.

`ProfileCustody` is the promise in four actions: an owner takes the home when
nobody has it, only the owner's containers enter, and it lets go when none is
left or may come.

Left out: the native commands' dialogue (one step, any outcome), option parsing,
health texts. The details of the files are in `StateFiles`.

### CodexExecution

`Setup` and `Collection` are the Docker calls of `Start` and `CollectPatch` in
their order, for a review and for a change; `todo` is what is left of them. A
call succeeds if the resource is in a state Docker accepts it in, and fails with
or without its effect; `prompt` tells whether Docker ends a create with its
client or may carry it out later (`pending`). `Clean` starts a pass of `cleanup`,
and `purpose` remembers who asked for it, for that decides what follows. A memory
volume has its `content` only while a container that mounts it runs. `child`,
`left` and `told` are the watchdog's own passes, `tries` the breaker's count of
cleanups that failed, `Restart` the next process. The child cleans up from any point
of the attempt on (`ChildExpires`): its lease is the one of the claim, which
heartbeats before the arming did not extend. A phase and its acknowledgement are two
steps here too (`Tell`, `TellAck`, `Settle`, `SettleAck`; `ChildReads`), and a child
that cannot acknowledge is `lost`. Docker makes a volume of its own for a container
whose volume is gone (`Given`): one without labels, that no cleanup removes.

Left out: what the native process does, prompts and charters, the format of the
patch, the repair of the home (in `StateFiles`).

### Mediation

`request` and `response` are the two files of the exchange directory, renamed
into place. The client checks for stale files, posts, polls, takes the response,
and unlinks both; it may die between any two of these, or idle between two exchanges
(`Die`), and come back as another process (`number`), which counts from one. The host looks, reads, authorises the sequence number against
the mediator, executes under a deadline, publishes. `why` is what killed a run,
if anything did.

### ReviewTools

Files, directories, change lists and trees are sequences that stand for what the
code counts: characters with their encoded length, where each entry of a listing
ends in the output, size and matches of each file. `Handle` is
`ReviewMediator.Handle` with its request budget; `Learn` is a reviewer who follows
the hints literally.

`review_read` and `review_list` are modelled whole. Of `review_search` there is the
walk, its limits and its flag, not the matching and not the skip of binary files; of
`review_diff` the list of changed files, not the diff of one path. Frames are counted
for `review_read`, whose text the reviewer chooses the size of: `JSON` is what the
mediator's encoder makes of a text, `EncodedLen` how long `truncateForJSONBudget`
takes it to be, `Wire` what `serviceReviewBridge` makes of it when it encodes the
answer a second time, now with HTML escapes. An answer that is too long for the bridge
fails there (`Fits`).

The code walks over lines and entries. The model says where a walk ends: line n
starts behind n - 1 line feeds (`Skip`), a window takes as many whole lines as fit
(`Collected`), a page as many entries (`Fitting`). `MCReviewTools` has the loops as
they are in `read` and `list`; its assumption `LoopsAgree`, which TLC evaluates
before `Review_safety`, compares both on every file, window, listing and page of
the instance. The walk of `search` over a tree is a recursive function.

### StateFiles

Each process has a list of steps (`todo`), built from the command line as the
code does it: locks, recovery, requirements, the body, unlocking. A journal is a
cell with what it shows (`file`) and what a power loss may leave (`disk`);
writing renames, and the directory's sync is a step of its own (`Renamed`).
`home` is the native tree, entry by entry: pruning, inspection and protection are
separate passes over it, as in the code, while a straggler of a killed container
(`Straggle`) may still write. A native process may remove entries of the home, which
is mounted for it to write, and a power loss may lose them or bring an older state
back, as nothing below the home's directory is ever synced (`Survivors`); such an
entry is `lost`, one that the code removed is `gone`. The home's own name is synced
with the profile's journals (`rooted`). A step that fails ends the command (`Errs`), but
an operation that was authenticating invalidates the home first, after a note of
it in the journal if it was recovering, and a continuous run loads its journals
again. `release` and `undo` are the activation in force
and the one an interrupted setup goes back to; a launched command carries the
`version` it was checked against.

Three variables are history. `relied` has the journals that a process went by
before a sync covered them: `cleanup` finds no `execution.json` and clears the
attempt, `recover` finds no operation or one that is ready. `revived` has those
of them that a power loss then turned back, `abandoned` says that a discard left
a reservation. `ReservationHasAttempt` and `ActiveHasHome` except exactly these
histories, in which the code's files do contradict each other. `ActiveHasHome` says
of a named identity that its home is there and that the code has not begun to remove
it; that all of its entries are there the code does not provide (section 4).

## 3. What is checked

| Run | Question | Distinct states |
| --- | --- | --- |
| `Supervisor_safety` | Is a sandbox or workspace ever lost, or the control plane told a lie about one? Is every step one of `SandboxCustody`? | 2.5 million |
| `Supervisor_liveness` | Does a sandbox disappear without the runner, and does a relaunch let go? | 11 thousand |
| `Breaker_safety` | Does the loop stop, retry and pace as it must, for every history? | 154 thousand |
| `Lease_safety` | Does authority end within the lease, and do answered heartbeats keep guard and watchdog alive? | 8.3 million |
| `Lease_codex` | Does the Codex executor's watchdog keep up with the guard? It does not: see section 4. | violated |
| `Activation_safety` | Does a launch ever see a mixture, or the operator hear an untruth? Does recovery end? | 77 thousand |
| `Profile_safety` | Is the home ever removed, replaced or reported on while a container may use it? | 2.0 million |
| `Profile_liveness` | Is an interrupted operation recovered, and does every watchdog child end? | 23 thousand |
| `Codex_execution` | Does a cleanup that succeeds leave anything, do tools and patch see the sources, and does everything end? | 655 thousand |
| `Bridge_safety` | Can bridge processes that die and come back run a command twice, take the wrong answer, or get a run killed? | 11 thousand |
| `Review_safety` | Does a reviewer who follows the hints miss anything silently, and does an answer fit its frame? | 25 thousand |
| `StateFiles_safety` | Do locks, journals, home and release stay consistent under any two commands, a fault and a power loss? | 2.8 million |

Every run but `Lease_codex` passes. The properties; a run's `TypeOK` is a
conjunct of one of them:

- *Supervisor.* `EverythingJournaled`: a container, a create that may still make
  one, and a workspace are named by the journal (`SandboxJournaled`,
  `WorkspaceJournaled`), and what cleanup removes is what recovery would find
  (`CleanupMatchesJournal`). `SandboxWatched`: an undecided create, and a
  container that was ever started, has a live watchdog.
  `StoppedMeansGone`: after the stopped acknowledgement there is none.
  `CompletionIsFinal`: worked is reported, released and removed, and no heartbeat
  is in flight after an accepted completion. `JournalSettles`: how an attempt
  leaves the journal, and what counts as a refusal. `SandboxEventuallyGone`,
  `RecoveryCompletes`: its liveness, the former but for `Stranded`, the latter but
  for a reserved name (section 4). `ImplementsCustody`: the refinement.
- *Lease.* `AuthorityWithinLease`; `HeartbeatsKeepLease` (`TimerOutlastsBeats`,
  `ArmedWithinLease`); `WatchdogTracksLease`.
- *Loop.* `StopsWhenItMust` (`TripsExactlyAtBound`, `RefusalEndsProcess`),
  `PausesArePaced`.
- *Activation.* `LaunchSeesOneGeneration`; `OutcomeIsTruthful` (`PromiseKept`,
  `TornMarkerChangesNothing`); `BackupsOutliveMarker`; `RecoveryConverges`.
- *Profile.* `StoppedMeansUnmounted`, `ReadyIsUsable`, `RemovedUnused`,
  `ReadyIsDurable`, `RecoveryEndsUnfenced`, `ChildEnds`, and the refinement
  `ImplementsProfileCustody`.
- *Codex.* `StoppedMeansGone` for an execution; `SourcesIntact`
  (`ToolsSeeSources`, `PatchIsSettled`: an empty patch only behind a cleanup of the
  child); `ImplementsProfileCustody` again;
  `ExecutionEnds`, `WatchdogStops`.
- *Bridge.* `RunsAtMostOnce`, `AnswerIsOwn`, `NeverOutOfSequence`.
- *Review.* `ShowsTheSnapshot` (`ReadsEveryLine`, `ListsEveryEntry`,
  `CitesWhatIsReadable`, `FlagIsHonest`), `FitsFrame`.
- *Files.* `JournalsConsistent` (`ReservationHasAttempt`, `ActiveHasHome`);
  `ReleaseIsStable` (`ActivatesWhenResolved`, `LaunchIsCurrent`);
  `NativeStartsReady` (`JournaledBeforeNative`, `NativeStartsProtected`);
  `NeverWaits`; `OnlyInspectedChanges`.

Each has a mutant, a plausible slip in the code, kept beside the definition it
would change (for a conjunction, one for each part that says something of its
own), under which TLC finds the property violated.

### Bounds

- *Supervisor*: two attempts, so that a leftover of the first can meet the
  second (one is enough for liveness, which speaks of each attempt alone). Two
  faults, so that a recovery fails too: a crash and a failed save, a reboot and
  a lost answer. A kill between a phase and its acknowledgement is one of them.
  `RefusalThreshold` is the code's 3. `Discard` and `Supersede`
  are not bounded.
- *Lease*: the code's 10, 45, 5, 30 and 10 seconds in ticks of five. A control
  plane grants leases shorter than, equal to and longer than the runner's own
  (7, 9 and 12 ticks), or also ones that are too short for any heartbeat to save
  (3 ticks); time is enough for three renewals and the deadline.
- *Breaker*: five polls, more than the bound of three: two failures, anything,
  and the third. Pauses are 2, 4, 8 and the cap of 11: doubled twice, then cut.
- *Activation*: two names (a token, and the configuration that goes last), a
  first activation, its replacement and one over what a replacement that was cut
  short left behind, four faults: a failed step, a failed rollback, a crash in
  recovery, a power loss. The proofs do away with these bounds.
- *Profile*: two operations, so that the leftovers of one meet the other, and
  the execution. Two faults: a lost create and the kill of the command that would
  have settled it. Liveness takes one operation; the second adds nothing to it.
- *Codex*: one execution, as the supervisor runs one. Four faults: a failed call
  of setup, one of each cleanup pass that follows, and a crash. The breaker's
  bound is 2 instead of 3, which is enough for a retry and a giving up.
- *Bridge*: a budget of two commands and three bridge processes of up to four
  requests: a command, one refused for its budget, and those after a restart, which
  may itself be followed by one;
  deadlines of three steps, so that a command ends before, at and after them.
- *Review*: an output budget of 4, frames of 8 of which 6 are for the text, a marker
  of 1, an HTML escape of 3, files of up to 5 characters and up to 4 entries of up to 3: smaller, equal and larger than each
  limit, in all combinations; five requests. The proofs do away with these bounds.
- *Files*: two processes, two attempts, two entries of the home, two releases,
  one power loss and one fault before it (`MaxFaults`; `MaxLate` after it is 0, since
  what a failed call leaves is met by the next command either way). Locks are taken by two at a time; a third process
  is refused by the same test. Attempts, releases and processes are symmetric. The
  proofs do away with these bounds.

`CHECK_DEADLOCK FALSE` is said where the system ends or rests: the breaker stops,
the clocks, the bridge and the review end at their bounds, an execution is done,
and a profile or an installation with its faults spent may have nothing left to
do but wait for an operator.

### Fairness

`Supervisor_liveness` assumes that a stopped runner is relaunched and takes its
next step (strong, since a Go mutex does not starve a waiter behind
heartbeats), that a heartbeat ends (it has a budget), that the engine decides a
create, and that a watchdog runs out of its lease and keeps polling.

`Activation_safety` assumes that somebody runs setup or a launcher again and
that a process that is not killed goes on.

`Profile_liveness` assumes that a command that is not killed goes on (each of
its calls has a budget), that the operator repeats an interrupted command with
its operation ID (the README of the runner asks for it), that Docker answers a
request, that the child polls its lease and what it removes, and that an
execution ends.

`Codex_execution` assumes of the specification only that the watchdog's child
polls. `WatchdogStops` needs no more; `ExecutionEnds` states in itself that the
process goes on and is restarted.

None assumes that a call succeeds: failures are bounded by `MaxFaults`, after
which they do.

## 4. Divergences

One is a run that TLC finds violated, with the code's own words as the property:

- *`Lease_codex`.* The Codex executor arms its watchdog with the lease of the
  claim response (`codex/executor.go:146`) and drops the renewals made before
  (`Renew`, line 322). When the workspace download has taken most of that lease,
  the watchdog expires under a live attempt, whereas `supervisor.go:107`
  says that an executor's "cleanup watchdog tracks lease renewal".

The others are kept as configurations beside the modules, each with the one
property TLC refutes. The checked properties are stated so as to hold in spite
of them.

| Configuration, property | What the code does |
| --- | --- |
| `Supervisor_reservation`, `WatchdogResolvesReservation` | `docs/runner/failure-breaker.md:11` and the comment at `supervisor.go:275` leave an uncertain create to "an operator or the original watchdog". `reconcile` looks at the journal only, and the watchdog does not change it: the runner refuses for good, until a discard. |
| `Breaker_same_way`, `StopsOnTheSameWay` | Three runner-classified failures of three different reasons stop the loop; `failure-breaker.md:3` says the same way three times. |
| `Activation_marker`, `BackupsSurvivePower` | `recover` removes backups without a sync when it finds no journal (`install/state.go:446`). After a crash between the journal's removal and its sync, a power loss may bring the journal back without its backups: "activation backup is unavailable" from then on. The test at `state_test.go:298` states the order that is broken. |
| `Activation_mixture`, `LaunchNeverMixes` | The same: if the next activation has begun to write its backups, a torn one or one of another generation is restored over a live file, and the journal is removed as resolved. The properties of `Activation_safety` leave out the histories with this power loss (`revived`), and no others. |
| `Profile_refused`, `RefusedLeavesNothing` | `runner/README.md:55`: "Definitive rejected begins do not leave a local journal." `recover` (`lifecycle.go:475`) keeps the journal of an operation whose begin is refused. |
| `Profile_fenced`, `RecoveryEnds` | The README has an interrupted command repeated until it is reconciled. Where the write of `create_attempted` failed without effect (`lifecycle.go:299`), the tombstone that cleanup leaves is not known to the journal, and `Stop` refuses it (`runtime.go:337`) at every repetition. |
| `Codex_late`, `RemovalFences` | The comment at `watchdog.go:632` takes the removal of the volume for a fence of the pending create. A later create of another resource may still be on its way. What it leaves never runs. |
| `Codex_patch`, `PatchOfSources` | `docs/compatibility/codex.md` has changes collected from a frozen snapshot of the sources. The child, on the lease of the claim (`Lease_codex`), may remove the repository container during the collection: the memory volume empties, and the patch is empty. |
| `Supervisor_orphan`, `WatchedUntilGone` | `watchdog.go` has the child retry cleanup "on EOF or expiry until the exact owned container is absent". A child that reads the phase of a runner killed before the acknowledgement returns from the failed write (`watchdog.go:442`), with nothing removed: the container, never started, waits for the next launch. |
| `Codex_orphan`, `WatchdogCovers` | The same for Codex (`codex/executor.go:166`), where the containers run by then, so that they run on until somebody restarts the runner. `docs/compatibility/codex.md` has independent watchdogs cover them. |
| `Bridge_restart`, `WorkIsKept` | `codex/mediation.go:82` would not kill work that is already done. A bridge that dies idle after an answered exchange is succeeded by one that counts from one again, and the mediator takes its first request for a replay (`mediation.go:73`): the run is killed. |
| `Bridge_deadline`, `AnsweredInTime` | `docs/compatibility/codex.md:40` has a deadline of 10 s for commands against the bridge's 30 s. The default of `CommandTimeout` is 30 s (`transport.go:106`): with equal deadlines the bridge may stop waiting for a command that is allowed to finish. |
| `Review_marker`, `CutIsMarked` | `docs/compatibility/codex.md:13` promises an explicit marker. A change list that is cut, and a search that found nothing in what it scanned, set the flag only. |
| `Review_frame`, `FrameIsEnforced` | `docs/compatibility/codex.md:18` has the frame budget enforced on the encoded size. The mediator counts without HTML escapes; the frame is encoded again by `json.Marshal` (`codex/transport.go:642`), which writes `<`, `>`, `&` and U+2028/9 with six bytes. A window of HTML or TSX may exceed what the bridge reads, and the bridge fails. |
| `Review_plan`, `PlanIsKnown` | The prompt sends the reviewer to `review_diff` with an empty path "for the complete list"; that list is cut at the output budget, without a second page. |
| `StateFiles_home`, `IdentityHasHome` | `active.json` names an identity whose home was confirmed. It is synced; what the home holds never is (`initializeNativeHome`, `profile/lifecycle.go:914`, and the permission pass), and the native process may remove entries. The checks before a run accept a home with fewer entries, so the identity may outlive its credentials; the native command then finds nobody logged in. |
| `StateFiles_discard`, `DiscardReleases` | Discard clears the attempt journal and leaves the profile's `execution.json`. Every later execution, cleanup, profile command and setup refuses, and the message (`setup_launch.go:80`) sends the operator to `run` or discard, neither of which helps. |

## 5. What is proved

For every value of the constants, from the assumptions named in each module
(the constants are numbers or sets of the right kind, null values are no
members, a bound is positive):

| Module | Theorems |
| --- | --- |
| `AttemptSupervisorProofs` | every safety property of `Supervisor_safety`; the last, `CustodyIsKept`, is the refinement of `SandboxCustody` |
| `RunnerProofs` | `AuthorityIsFenced` with both drivers; `LeaseIsKept` and `WatchdogFollows` for the direct driver when `Paced`; `LoopStops` and `LoopIsPaced`: every property of `Lease_safety` and `Breaker_safety` |
| `ActivationProofs` | `LaunchIsWhole`, `OutcomeIsKept`, `BackupsAreThere`: every safety property of `Activation_safety` |
| `ProfileLifecycleProofs` | every property of `Profile_safety`, `HomeHasOneOwner` being the refinement of `ProfileCustody` |
| `CodexExecutionProofs` | `CleanedIsGone`, `SourcesAreIntact` and `HomeIsReserved`, the second refinement of `ProfileCustody`; from `Spec`, without its fairness |
| `MediationProofs` | every property of `Bridge_safety` |
| `StateFilesProofs` | `FilesAgree`, `ReleaseChangesAlone`, `NativesStartReady`, `NobodyWaits`, `OnlyInspectedIsChanged`: every property of `StateFiles_safety` |
| `ReviewToolsProofs` | `SnapshotIsShown`, `AnswerFitsFrame`: every property of `Review_safety` |

**Supervisor.** No property is inductive alone, not even the types: `Claim`
types `claim`, but a journal that is typed needs to know that a supervised claim
exists. The invariant of `AttemptSupervisorInvariant` has four parts.
`ControlInv`: the phase decides who owns the claim, what the guard knows of its
sandbox and when journal and guard agree; a heartbeat holds the mutex only
outside `MutexPhases`; a flag is pending wherever they may differ. `EngineInv`:
nothing exists before the dispatch, an id means that the create is decided, and
a confirmed removal leaves nothing that may come back; these make
`SandboxJournaled` inductive, since the journal forgets a name only in phases
where nothing exists. `WatchdogInv`: an undecided create was announced to a live
child, which waits for it; so no child leaves, or is dismissed, over a sandbox. That
no child is lost over one either rests on the acknowledgements: a create is
dispatched only when nothing is unread (`ReadInOrder`), and as long as something is,
there is no undecided create and no running container (`UnreadBeforeStart`).
`ServerInv`: a supervised attempt is not yet stopped; one is acknowledged only
after its sandbox and workspace are gone. Each part has a lemma, over the whole
next-state relation, which cites the parts it needs; `InductiveStep` puts them
together.

For the refinement, `KeepsIsStep` shows that a step which keeps the journaled
attempt and adds no sandbox is `Remove` or a stutter, and `QuietStep` disposes of
all that touch neither; the steps that move custody (save of a claim, create,
acknowledgement, clear, discard) have a lemma each, which cites what the
invariant says at that phase.

**Lease.** `Fenced` says that the timer never lies past the control plane's
lease and that time does not pass a timer that is due. `PaceInv` bounds, from
when the last heartbeat was sent, the next beat, the timer and the moment in the
watchdog's startup; `CoverInv` says that the leases guard and watchdog go by
cover the timer. They hold when the answers come before the next beat and a
lease covers two intervals, the watchdog's startup and an answer (`Paced`: with
the code's numbers 35 s against 45 s). `Composite` is excluded: for it
`Lease_codex` shows the opposite.

**Loop.** The program keeps a count and the property speaks of the history.
`Tally` says that the count is the size of the streak and that the loop is
stopped exactly where it reaches the bound; `Guarded`, that nothing which must
not be repeated lies behind a loop that goes on. For the pauses, `PacedByCause` has
the delay as the base doubled once for each repetition; the property has a power
of two, about which the provers know nothing, so the power is taken as the number
of subsets of a set and the step from n to n + 1 as one element more
(`CappedDoubles`: to cut and then double is to double and then cut).

**Activation.** A power loss may come at any step, so the invariant is about what
the disk may hold and not about what the directory holds. `DiskInv` says which
contents each journal that may come back stands for: no journal, live files of
one generation; a torn one, those of the generation before; a whole one, durable
backups of it. `PrepareInv`, `RecoverInv` and `FinishInv` say what each step of
`activateLocked`, `recover` and `finishActivation` relies on, and `PromiseInv`
that what the operator was told is on the disk alone. A step that fails changes
staging files only, so `FailsDisk` and `GivesUp` settle every failed step and
every crash at once; `PowerLossKeeps` is where `DiskInv` pays.

**Profile.** `CustodyInv` has the types, what each `pc` implies about the record
in memory and on disk (`ControlInv`, `RecordInv`), who may mount the home
(`MountInv`: only the journaled operation, and a request that no tombstone
answers only while the intent of its create is on disk), and what the control plane was told (`ServerInv`).
The lemma `Shrinks` covers the steps after which no more can mount the home than
before, `Arrivals` and `Departures` the rest. `OutcomeInv` ties the outcome in
memory to the home, `KnownInv` and `OpenInv` the control plane's view to the
journal; `ReadyInv` says on which of these a ready profile rests in each phase.

**Codex.** A pass of the cleanup: what it has looked at and not missed is gone
(`CleanInv`), and nothing comes back, since containers start only in `Start` and
`CollectPatch` and a late create starts nothing; `MarkerInv` keeps the
reservation until the native container is gone. For the sources, the position in
the lists of setup and of patch calls tells what Docker has as long as the child
watches. Once it cleans up, its first removal is the native container: until then
everything is as the position says, after it no native process is left to see the
sources go. A pass that has removed the volume starts over with the native container,
and what setup still creates then never gets its sources, nor a native process.

**Bridge.** The two files tell how far the exchange is (`Exchange`), whichever
process died: the host acts on a request only while there is no response, and
the client removes the request first, so a process that finds either file never
posts. One that finds none carries on the count of its predecessor, or starts at one
behind it (`Successor`), and only the latter's first request is refused
(`Restarted`).

**Files.** The control of a process is data, the steps it has left, so the
invariant is an outline of what such a list assumes. A step needs facts, gives
some and breaks some (`Needs`, `Gives`, `Breaks`); a list `Leads` from a set of
facts if every step finds what it needs. `Known(p)` are the facts that hold of
process p, and the invariant says that they lead along `todo[p]` to its end.
Each list that the code builds is shown to lead once (`Normalizing`, `Beginning`,
`Attempting`, ...). A fact includes the lock that guards it, so what one process
does leaves the facts of the others alone (`OthersKeep`), and each action has a
lemma that only looks at its own process. What recovery goes by is said of the
disk, of every content a power loss may leave (`ReservationLasts`, `ActiveLasts`,
`PendingLasts`); `PowerBackKeeps` and the two recoveries rest on it. With the power
every process goes (`PowerLossKeeps`), and of the home only its name is relied on
(`rooted`): it is on the disk before a journal names the identity. The properties are
then the facts at their steps: `native` needs *saved*, *synced*, *protected* and
*clean*; `install` needs *resolved*; taking the session root needs *profile*.

`Turned`, `Forgotten`, `Settled` and `Unreserved` are where the excepted histories
enter: what recovery concludes from a journal that no sync covers is a fact only
until a power loss, which then puts the journal into `revived`.

**Review.** The invariant is short: the answer is what the request asks for
(`Execute`), it fits the mediator's frame and, unless something in it is escaped for
HTML, the bridge's, and `Reading` and `Listing` say how far the
reviewer is: every line before `next` is known as it is or counted as cut, the
entries known are those before `next`. The work is in the operators. A line
starts behind as many feeds as there are lines before it, and between two starts
there is one feed, the last character (`SkipIs`, `SkipAt`). So a slice of a file that starts where a line starts has the lines of
the file, up to the one it breaks off in (`SliceLines`). What `read` returns is
such a slice, and what `TrimRight` takes off it are blank lines (`ReadIs`); the
frame cuts it to a shorter slice, which breaks off in a line that the reviewer asks
for again (`EncodeIs`, `AnswerIs`). `LearnLinesStep` puts the two together for each
hint. A trimmed window may have fewer lines than its hint says, and no hint may be
the end of a file whose last lines were trimmed: `Shows` has these lines blank,
which is what the reviewer takes a line it was not shown for.

The provers cannot instantiate an induction theorem, but they can take the least
element of a set of numbers. `Least` does, and what would be an induction on a
position, a count of feeds or the files of a tree (`Iterates`, for `search`) is
here the least position at which the claim fails, and a contradiction.

Only model-checked: liveness, since the prover has no rule for it under fairness
(`SandboxEventuallyGone`, `RecoveryCompletes`, `RecoveryConverges`,
`RecoveryEndsUnfenced`, `ChildEnds`, `ExecutionEnds`, `WatchdogStops`), and that
the loops of `MCReviewTools`, which are recursive operators, end where
`ReviewTools` says (`LoopsAgree`). Every other property of every passing run is a
theorem.

## 6. Assumptions

- The control plane never shortens a lease, keeps the first result it takes,
  acknowledges a stopped attempt again when asked again, and has one operation
  of a profile open at a time.
- Runner, watchdog and control plane read one clock.
- The engine makes at most one container per name, and does not make one after
  the host has gone down. A create that it accepts may be carried out at any
  later time; a container that exists under a name makes a create of it fail.
- A memory volume keeps its files while a container that mounts it runs.
- After a power loss each directory entry is, independently, in a state it has
  had since the last sync of the directory. A file is whole once it was synced. Of
  the native home each entry is, independently, as it was at any time, or not there;
  no entry was ever unsafe and then safe again.
- A lock is an flock: it ends with its process and it excludes all processes.

## 7. Not modelled

- *Watchdog pipe*: its sequence numbers, malformed messages and renewals (the last
  are in `LeaseClock`). In `ProfileLifecycle` a phase and its acknowledgement are one
  step, and the child of a dead command may be lost at any moment. The system call
  that ends it with its host.
- *Review*: the matching of `review_search` and its skip of binary files, the diff of
  one path, the frames of search, list and diff.
- *Runner log*: append and rotation, local to one process and tested as such.
- *Workspace*: ownership markers and archive extraction; a workspace exists, in
  part after a failed prepare, or does not.
- *Sessions*: which session a claim selects; only the lock and the write are
  steps of `StateFiles`.
- *Decoding and schemas* (`internal/protocol`), the Codex stream parser, patches,
  evidence, charters, prompts: functions of their input that accept or refuse.
  The models take the verdict as a choice.
- *Setup's questions*, option parsing, release packaging, bundle extraction, the
  images and the fixtures that run in them: no state that outlives the call, or
  not this program's.

## 8. Plan

Done: the modules of section 2 and the theorems of section 5. Left, in this
order: the watchdog's pipe with its sequence numbers and renewals, shown to implement
the child of `AttemptSupervisor`; the diff of one path and the frames of the other
review tools; session selection and the rotation of the runner log as small modules.
