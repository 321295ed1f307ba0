# A TLA+ model of maya-stall

maya-stall runs Scenarios in Autodesk Maya UI Sessions on Windows Hosts. A
controller, or a Host Agent on its behalf, takes the Host Lock, starts Maya,
executes the Scenario and gives everything back. A Control Plane accepts Runs,
queues them, assigns each one to a Windows Host Agent, collects its events and
keeps the durable truth of who owns which Host. This directory holds TLA+
modules of that core, TLC configurations, and TLAPS proofs. All code paths
below are relative to `src/internal/cli/`.

Line numbers in `PROJECT.json` ("map") name the code every definition stands for.

## 1. Inventory

| Component | State it keeps | Operations | Model |
|---|---|---|---|
| Transition store (`host_agent_transition_store.go`, `loadHostAgentState`) | `assignment-transactions/`, `assignments/`, `host-locks/`, Run Ledger record, write-ahead quarantine markers | Commit, Recover, SaveAssignment, startup | `TransitionStore` |
| Assignment protocol (`host_agent.go`) | Agent status and session lease, assignments in memory and on disk, markers; the Agent process | register, heartbeat, poll, confirm, bind, complete, fail, quarantine, restart | `HostAgentFence` |
| Run queue (`run_queue.go`, `runScenarioThroughHostAgent`) | `queuedRuns`, `queued-runs/`, Host reservations, shared Host Lock file | submit, dispatch, assign, roll back, cancel, recover | `RunQueue` |
| Progress checkpoints (`host_agent.go` 1352-1715, 2891-3104) | acknowledged events, log, sequence and digest | checkpoint, merge, terminal merge | `RunEvents` |
| Run Ledger (`run_ledger*.go`) | per Run: record, events, log; a file lock | initialise, update, finalise, stop, prune, remove | `RunEvents` (files), `FreshRun` (states); pruning and listing not |
| Local Host Lock (`host_pool.go`) | lock and mutex files per Host | acquire, mark active or kept, renew, release, stale takeover | `HostLock` |
| Remote Host Lock (`host_lock_ssh.go`) | lock file on the Host, lease version | acquire, reclaim, renew, replace, remove, fence | `HostLock` |
| Fresh Run lifecycle (`fresh_run.go`, `run.go`) | phase, failure layer, evidence, retained session | accept, set up, start, execute, settle, keep, clean up | `FreshRun` |
| Run state and retention (`run_state.go`, `run_retention*.go`) | Run Record, kept-session deadline, stop phase | stop, expire, sweep | `FreshRun` |
| Sessiond broker (`sessiond_broker.go`) | remote session identity and status | start, cancel, stop, retained status and stop | `FreshRun`, `HostLock` (fences) |
| Control Plane API (`control_plane.go`) | Run index, event streams | submit, status, events, attach | `RunEvents` (stream), `RunQueue` (startup) |
| Capabilities (`capabilities.go`) | none (pure) | compatibility decision, Maya build selection | not modelled |
| Publishing, review comments, run-scoped captures and clicks | none shared | upload, upsert, capture | not modelled |
| Evidence, capture, parsing, doctor, SSH transport, platform files, Python helper | none shared | I/O | not modelled |

### How the parts interact

A submission runs in a goroutine of its own: it admits the Run
(`queueHostAgentRun`), waits for the scheduler to select a Host, commits the
assignment (`runScenarioThroughHostAgent`) and then watches the lease of the
Agent until the assignment is finished. The scheduler is one more goroutine. An
Agent is a process on the Windows Host that talks HTTP: it registers, polls,
confirms the Host Lock token, starts Maya, binds the Maya UI Session, and posts
completion, failure or quarantine. Every handler of the Control Plane works
under `handler.mu`, but several let go of it around file or lock operations;
these gaps are separate actions in the modules. All assignment state goes
through the transition store, whose Commit writes a journal, then the ledger,
the Host Lock and the assignment record, removes the journal, and verifies.

The Run itself executes on the Agent, or in the process of a plain
`maya-stall run`, as a `freshRunLifecycle`. It takes the Host Lock (a file on the
Host, in a local work root, or in the checkout), starts Maya through the Session
Broker, and every broker command carries a fence on that lock. `stop`, in a
process of its own, cleans up a Run that was kept or whose controller died. An
Agent sends bounded copies of its events file as checkpoints, which the Control
Plane merges into the Run Ledger and shows to clients that follow the Run.

### What is hard

* A process or machine stop between any two of the files of one transition; a
  write that fails after its rename took effect.
* Leases, takeover and retries: the late request of an old process meets the
  assignment of a new one.
* Reservation, cancellation, lease expiry and rollback interleave in the gaps in
  which the queue holds no mutex.
* Recovery: journals, markers, queue records, Host Locks and ledgers must agree
  at startup, or the Control Plane refuses to start.
* Scripts on a remote Host that timed out may still run, after another client
  has reclaimed the lock; local locks are files whose owner may be dead.
* A Run ends in many ways (failure at each step, cancellation, a lost lease, a
  crash) and each has to leave Host, session, record and ledger consistent for a
  later `stop`.
* Checkpoints are bounded, repeated, late and interrupted, while clients hold
  cursors into the history they produced.

`PROJECT.json` lists these hazards at their lines, with the properties that
would catch them going wrong.

### What makes each part correct

* Transition store: a restart always accepts what is on disk, never forgets or
  invents an acknowledged transition, and never frees a Host before the terminal
  ledger is there.
* Assignment protocol: one Maya per Host; a Host is not given away while a Maya
  may run on it; a quarantine is final; a lost Agent ends its Run.
* Queue: an accepted Run always has a durable owner, gets exactly one outcome,
  in order of acceptance, within the capacity, and no Host is left reserved.
* Host Lock: a Maya UI Session lives only under the lock of its own Run, and the
  lock passes on only when that session is gone.
* Fresh Run: no session outlives its lock; what the ledger says of a Run is true
  of the Host; the state that a `stop` needs goes last.
* Events: what was acknowledged or shown never changes or returns, an honest
  Agent is never refused, and the end of a stream is really its end.

## 2. Modules

The modules `...Proofs` and `...Safety`, and `FreshRunEffects`, hold the theorems
and lemmas about the module they are named after (section 5).

### `TransitionStore`

One module of files. `journal`, `assignment`, `hostLock`, `ledger` are what the
running process sees; `sJournal` and its siblings what a power loss would leave.
`Synced` moves a file from one to the other, as the directory sync at the end of
`writeRunLedgerBytes` does. `op` is the program counter of the one Commit or
Recover in progress (`handler.mu` is held throughout). Its phases are the lines
of `Commit`: persist the journal, apply, remove the journal, on error recover,
at last verify. `Steps` is the order of files in `apply`. `FileStepFails` has
both outcomes of a failing operation, before and after its effect.

`Handlers` start transitions (assign, confirm, bind, finish, resume, quarantine,
and the unjournaled `SaveAssignment` of a checkpoint); the `...Returns` actions
are what callers do with the result, among them the rescue of a failed
assignment and `quarantineHostAgentCleanupFailure`. `RemoveMarker` may fail, or
fail only to sync the directory, when a rescue or a startup removes a marker
(which a startup refuses to go on from); a failing assignment leaves its marker
written. `Crash` is a stop, with `PowerLoss` also the loss of any subset of
unsynced entries. `Startup` is `loadHostAgentState`: status, markers, journals,
then Host Locks one by one.

`acked` and `doubt` are history: the last record Commit reported durable, and
those whose Commit failed or was cut off since. They influence no step.

Left out: the other Host's handlers during the gap at `host_agent.go` 2352-2354,
while a failed assignment is finalised; the content of records beyond state,
owner, binding and terminal flag.

### `HostAgentFence`

The protocol. Here a Commit is one step that succeeds or fails (leaving, for a
restart, the old or the new record), which is what `TransitionStore` shows of
it. A process stands for the session it is given and a Run for its lock token.
`sent` holds what a process has posted: the Control Plane may handle it at any
later time and any number of times, which covers delay, retry and duplication;
`ok` and `no` are the answers, which may be read late or never. Time is
abstracted to `live` (before `sessionExpiresAt`) and `grace` (before
`takeoverNotBefore`), which may end at any moment; a request that renews a
lapsed lease does not exist, since `acceptHostAgentSession` clears it.

A failing Commit of a binding may have bound (`Bind`), a completion whose cleanup
fails is quarantined or, if that Commit fails too, left to the restart
(`Finish`), and a rollback may fail to give the shared Host Lock back
(`Unreserve`).

`Watch` is the loop at `host_agent.go` 2391-2414 and exists only for `watched`
Runs, those submitted to this process. Completion is two actions, `BeginFinish`
and `Finish` or `FinishReset`, because the files are staged without the mutex.
Progress checkpoints (see `RunEvents`) and capabilities are not part of this
module.

### `RunQueue`

`place` is where a submission's goroutine is; `queued`, `dispatching`,
`canceled`, `selected`, `selErr` and `contended` are the fields of
`controlPlaneQueuedRun`; `intent`, `ledger` and `asg` are on disk; `hstate`,
`live` and `lock` belong to the Hosts and the shared Host Lock file. The
scheduler's cycle is four actions: the lock file is acquired between `Visit` and
`Claimed` without the mutex. `FirstLook`, `SecondLook`, `Undo`, `Rollback` and
`Assign` are the segments of `runScenarioThroughHostAgent` between its unlocks.
`Cancel` to `CancelRemove` follow `cancelQueuedRun`; the operator's retry is a
second `Cancel`. `Stop`, `Start`, `Load`, `Resume` are the restart, record by
record, with `Refuse` for every error return of `loadControlPlaneQueue` that
depends on state. Capabilities are the constant `Fits`.

These three modules overlap on purpose at the assignment: `TransitionStore`
explains its files, `HostAgentFence` what follows it, `RunQueue` what precedes
it. Each treats the other two's part as atomic.

### `HostOwnership` and `HostLock`

`HostOwnership` is the promise of a Host Lock: one owner, a lease, and a Maya UI
Session that starts and stops only under its owner's unexpired or kept lock.
`HostLock` is the code: two controllers and one lock `file` with its content
(Run, revision, state), `version` (its modification time) and lease. `place`
selects where the lock lives. Over SSH an operation is one script, atomic under
the mutex of the Host; its answer may be lost (`AnswerLost`), and a script whose
caller gave up may run later (`TimedOut`, `RunLate`), before or after its repeat.
Locally an operation runs between `Link` and `Exit` of a mutex file, and a
process that finds the mutex stale removes it (`Examine`, `Steal`). In a checkout
the lock belongs to a process instead of a lease. `Launch`, `StopSession` and
their continuation are the broker commands behind the fence; a reclaim first
asks the broker whether a session is alive (`SessionInactive`).

`Ownership` is the refinement mapping: the lock file names the owner and the
lease, `maya` the session.

A stop is `StopRetained`, which ends the recorded session of a Run behind the
fence on a kept lock, and `ReleaseForRun`, which removes the lock that names the
Run, as kept or as active. `known` holds the Runs whose session identity has been
recorded (`Record`): a stop looks for no other session. `MayStop` says with which
Runs a stop goes on; one of them is a Run whose session was stopped by a
controller that is still alive. The controller's own move to a kept lock
(`MarkKept`) compares the lock it replaces over SSH and in a local work root, and
overwrites whatever is there in a checkout, as `replaceHostLockOwner` does.

`broken` records what the code takes from the living, and `HostOwnership` promises
nothing after that (`sound`):

* `"mutex"` - the mutex file of a live process was removed. `isStaleHostLock`
  reports a path that has just vanished as stale (`host_pool.go` 1153-1155), and
  the caller then removes whatever another process has linked there in the
  meantime (1079);
* `"lock"` - a stop released the active lock of a checkout while the controller
  was alive (`run_state.go` 529-531;
  `LiveRunOwnsLock` in `src/verification/embedded-ledger`). On other Hosts the
  release alone breaks nothing, because the controller's next write compares;
* `"session"` - a stop released the lock of a Run whose Maya is alive but was never
  recorded (`sessiond_broker.go` 508-511, 559-563); `FreshRun` calls it `blind`.

A start that fails leaves the session `unsure` only if it has no identity. One
that brings Maya up and is then found wanting has an identity, and is stopped and
released like one that worked.

### `FreshRun`

One Run from `newFreshRun` to its terminal ledger. `run.pc` is where the
controller is; each action is one function of `fresh_run.go`, cut where a call
leaves the process, and each such call may fail (`Try`). `inflight` holds broker
calls that a cancelled Run no longer waits for. The files are `manifest` and
`record` (state directory), `bundle`, `ledger` and `mirror`; `lock`, `expired`,
`maya` and `workspace` are on the Host. `Stops` are processes that run
`stop <run>` or the sweep of overdue Kept Sessions, with each of their writes a
step. A Run of another checkout takes the lock over when the lease has run out
(`RivalTakes`). What the lock itself guarantees is `HostLock`'s subject; here it
is one variable, and a broker command is fenced on it.

Two exceptions are named by history variables. `blind`: the controller dies
after Maya started and before its identity was recorded; a later `stop` finds no
session and releases the lock. `raced`: a `stop` passed its checks of the
controller while the controller was alive, in the window in which the Run is
being kept. Also visible in the model, and allowed by its properties: a Run whose
cancellation the Agent had sent may be recovered as passed from its bundle; a
`stop` killed after it reconciled a Run without Run Record leaves the ledger at
`kept`; a Host Agent outlives its Runs, so that `stop` refuses to recover one of
them until the Agent restarts (`requireStaleSubmittedRunController`).

### `RunEvents`

One Run's events, from the process that records them to one client that follows
them. `source` is the Agent's events file, `transient` the Control Plane's own,
`ledger` the Run Ledger with `events` and `rec` as separate files, `asg` and
`disk` the assignment in memory and on disk, `reader` the client with its cursor
and what it has been sent. An event is its sequence number and its kind; a gap
stands for what a bounded copy omitted. `copyBoundedLedgerEvents`, `mergeable`
with `merged`, `sanitized` and `preserveAcknowledgedFailure` are the pure parts.
`mergeable` says declaratively what `mergeHostAgentProgressEvents` computes in
its passes.

Requests that write hold `checkpointMu`; `writer` is the request between its two
steps, so that leases, crashes and readers come in between. A failed write or a
crash leaves any prefix of a step's writes (`Written`). Commits of the
transition store are atomic here, which is what `TransitionStore` shows. After a
restart no session is accepted, hence a confirmed Run can only be quarantined.
In mode `local` the Control Plane executes the Run and followers copy its events
into the ledger (`Refresh`).

`early` is a second follower, one that attached while the Agent's Run was queued.
Whether a stream refreshes the ledger is decided once, when it begins
(`control_plane.go` 679, 950-952), and then the Run has no assignment yet; so this
follower goes on syncing the Control Plane's own events file for its whole stream.
`EarlyReads` and `EarlySaves` are the two ends of that read-modify-write
(`run_ledger.go` 1608-1628). In between, requests that take the ledger's lock wait
(`Held`), and the Commits of the transition store, whose Replace takes no lock,
do not. The constant `Attached` says whether there may be such a follower; the
theorems allow both.

`torn` records three windows the code leaves open, after which nothing is
claimed of what followers and acknowledged checkpoints have:
`FinalizeAcknowledgedFailure` cut off between finalizing with the Control
Plane's own events and putting the acknowledged ones back (`run_ledger_store.go`
244-247); an early follower's refresh that replaced the ledger's events; and a
late checkpoint merged over a record that such an unfinished failure left
terminal, which `serveHostAgentProgress` copies into the visible record
(`host_agent.go` 1448).

Left out: byte limits, the log (copied and bounded the same way), and events too
large to keep.

## 3. Runs

| Run | Instance | What it shows |
|---|---|---|
| `TransitionStore` | 2 Runs, 2 Hosts, no failing operation, power loss | any stop leaves files that startup accepts; no acknowledged commit is lost; an assigned Run owns its Host in the seen and in the synced files; a free Host means a terminal ledger |
| `TransitionStoreFaults` | 2 Runs, 1 Host, 2 failing operations, process stops | one failure is always repaired; acknowledged records survive; a durable quarantine keeps its Host |
| `HostAgentFence` | 1 Agent, 2 processes, 2 Runs, 1 failure, 1 restart | `ExclusiveMaya`, `MayaKeepsHost`, `OneOwner`, `QuarantineFences`, `QuarantineIsFinal` |
| `HostAgentFenceLive` | 1 Run, 1 failure, no restart, fair | a lost Agent ends its Run |
| `HostAgentFenceRestart` | 1 Run, 1 restart, fair | finding 1 (expected violation) |
| `RunQueue` | 2 Runs, 1 Host, capacity 1, 1 failure, 1 stop, 1 lost lease | ownership, single outcome, cancellation, capacity, startup, no stranded Host |
| `RunQueueLive` | 2 Runs, 1 Host, capacity 2, 1 lost lease, fair | FIFO, one Run per Host, the queue drains |
| `RunQueueCancel` | 2 Runs, 1 failure | finding 2 (expected violation) |
| `HostLock` | 2 controllers, the three places, revisions up to 3 (2 over SSH), 1 lost answer or late script (and any failed reads after it), 1 killed process, stops | `SessionUnderLock`, `OneHolder`, refinement of `HostOwnership` |
| `FreshRun` | 4 stop policies, 2 stops, 1 failed call, 1 killed process, a rival Run | `OwnSessionHeld`, `FinishedIsFree`, `KeptIsReal`, `StateGoesLast`, `ForeignUntouched` |
| `FreshRunRecovery` | 1 stop, no failure, 1 killed process, fair | finding 3 (expected violation) |
| `RunEvents` | both modes, 5 lines, 2 checkpoints of 3 events, a ledger of 4, 2 failures of which one may be a crash; with an early follower 4 lines, 1 checkpoint, 1 failure | `HistoryKept`, `EndIsComplete`, `HonestAgentAccepted` |

### Bounds, and why they suffice

Two Runs and one Host are the smallest instance in which Runs compete; a second
Host matters where the journals of two Hosts meet in one Recover, and
`TransitionStore` has it. Two processes are a predecessor and its successor;
a third is covered by the proof. `MaxFaults = 2` is the first value at which
Commit's own repair can fail. `MaxStops`, `MaxRestarts` and `MaxChanges` bound
how often, never when. `MaxQueue` replaces `maximumControlPlaneQueuedRuns`
(1,000): at 1 the queue is full as soon as one Run waits. `Unwanted` is the set
of Runs an operator may cancel. Symmetry is used in safety runs only.

With two failing operations in one Commit, or power loss and a failing sync
together, the code can be brought to refuse to start (section 4, "Known limits");
`StartupAccepts` is therefore checked with stops and power loss, and
`OneFaultIsRepaired` with failures.

`HostLock`: revisions 0 to 2 are a claim, an activation and a keep or a renewal, so
that every content a script may compare with exists in an older version; where a
broker claim renews the lease by writing, a Run needs one more (`ShorterOverSSH`).
Two controllers suffice for a lock that passes from one to the other while a script
of the first is still on its way. `UntilBroken` cuts behaviours off where `broken`
ends the claims.

`FreshRun`: one failed call and one killed process, at every step; two stops are
an operator and the sweep. `UntilRaced` cuts behaviours off where `raced` ends
the claims.

`RunEvents`: a checkpoint of 3 has a gap from 4 events on and a ledger of 4 from
5 on, so 5 lines give a widening gap, a terminal history that still has events
the ledger has given up, and a failure event that makes the ledger drop one.
Two failures are a failure of a request and of its retry. `UntilTorn` cuts
behaviours off where `torn` ends the claims about histories; the theorems about
the types and `HonestAgentAccepted` go on after it. An instance with 6 lines, 3
checkpoints and a single failure was checked as well (8.4 million states), and so
was one with an early follower and 2 failures (2.8 million). With an early follower
one checkpoint and 4 lines suffice for a gap and for an event that only one of the
two files has (`ShorterWhenEarly`).

Deadlock is not checked for the modules other than `TransitionStore`: processes
end and a queue may be idle for ever. The process of `TransitionStore` can
always be stopped or started.

In `RunQueue` several invariants speak of states in which no write has failed
(`faults = 0`). The code does not promise more: a failed release after the first
look, or a failed load of a resumed Run, leaves states the hazard list
describes. `NeverCanceledAndAssigned`, `OneRunPerHost`, `WithinCapacity`, `Fifo`
and `TypeOK` hold with failures too, as their theorems show.

### Fairness

`HostAgentFence`: the Control Plane's watch loop runs every heartbeat interval,
handlers that have begun return, a stopped Control Plane is started again, and
the lease of a process that has gone runs out because nobody renews it. Nothing
is assumed of Agents or operators.

`RunQueue`: goroutines that have begun go on, the scheduler's ticker fires,
begun cancellations continue, Agents come back and assignments end. `Assign(r)`
is strongly fair. With weak fairness TLC shows a livelock: the rollback
(`host_agent.go` 2301-2316) resets a Host that is `reserving` without comparing
whose reservation it is, so two Runs whose leases were lost can take the
reservation from each other for ever. Between the unlock at 2275 and the lock at
2278 the goroutine does not block, so a schedule that hits this window every
time is excluded.

`FreshRun` (`FreshRunRecovery` only): the controller and a stop that has begun go
on unless they are killed, and an operator repeats `stop` as long as the ledger
shows something to stop. This is more than the code needs to show the finding:
every repetition fails.

## 4. Findings

1. **`HostAgentFenceRestart`** - the lease of a confirmed assignment is watched
   by the submitting goroutine only. After a Control Plane restart, a lost Agent
   leaves its Run confirmed until another process registers.
   `docs/commands/control-plane.md` lines 51-52: "Loss after confirmation
   quarantines the assignment."
2. **`RunQueueCancel`** - the `canceling` record is renamed, the sync fails, and
   the handler takes the cancellation back in memory only; the scheduler then
   dispatches a Run whose durable record says `canceling`. ADR 0050 lines 35-37
   and the comment at `run_queue.go` 980 exclude this.
3. **`FreshRunRecovery`** - `stop` accepts a Run whose controller died with an
   active session, but `StopRetainedRun` (`sessiond_broker.go` 558) fences its
   commands on a lock that names the Run as kept. The lock says active, the
   fence refuses, and so does every repetition: the Host is never freed.
   `run_ledger_test.go` 1212-1262 expects this stop to succeed (with a broker
   that has no fence), and `docs/commands/stop.md` lines 13-16 call stop
   authoritative cleanup that makes the Host selectable again.

### Known limits

What the models show of the code besides, each excepted by name in a property or
stated as a precondition, and listed at its line under "hazards":

* two failures in one Commit (the sync after the journal's removal, then the
  directory read of the repair) put memory behind the disk; the next checkpoint
  writes the old record beside the new Host Lock, and startup refuses it
  (`host_agent.go` 1343, 1455, 585; ADR 0046 lines 27-31 exclude this);
* power loss after a failed sync: when the sync that follows the removal of a
  journal fails, Commit finds no journal to replay, verifies the files and reports
  success, but the journal may be back after the machine went down. A later
  startup replays it over newer records: a stale completed journal unlocks a Host
  that was quarantined for the next Run since, a stale confirmed one follows a
  completion (`host_agent_transition_store.go` 80-85).
  TLC finds this with `PowerLoss` and one failure; the theorems exclude it by
  `Reliable`;
* a failed assignment removes its marker but the sync of the directory fails, the
  rewrite of the marker (`host_agent.go` 2343) fails too, and the process stops
  before the rescue Commit: the Run comes back as assigned. The models have each
  of the failures but not the two together;
* `broken`: the mutex file of a live process can be removed; a stop can release the
  active lock of a living controller of a checkout, whose `markKept` then overwrites
  the lock of a Run that has taken the Host since
  (`src/verification/embedded-ledger/MC.tla` line 13 notes it as `LiveRunOwnsLock`);
  and a stop can release a lock under a live session that was never recorded
  (`HostLock`);
* `blind` and `raced`: a stop that finds no session, or a living controller
  (`FreshRun`);
* `torn`: an acknowledged failure cut off between its writes, and a refresh by a
  follower that attached early, which puts the Control Plane's own events in the
  place of the Agent's once two attempts to end the Run have recorded failures
  (`RunEvents`; `src/verification/run-ledger` lists it as `IdentityStable`);
* the record of an ended Run: the same refresh can read `run.json` before the
  completing Commit and write the old state back after it, since Replace takes no
  ledger lock; the Run then never ends for its readers (`CompletedTerminal` there).
  `RunEvents` has that step, and claims only what follows for the events.

## 5. Proofs

Everything in this section is proved for every value of the constants, from the
named assumptions of the modules (`None` is no value, bounds are naturals, sets
of names are disjoint where the code's are), which TLC evaluates on every run.

| Module | Theorem | States |
|---|---|---|
| `HostAgentFenceProofs` | `Invariance`, `TypeCorrect` | `Spec => []IInv`, `Spec => []TypeOK` |
| | `MayaKeepsItsHost` | `Spec => []MayaKeepsHost` |
| | `Exclusion` | `Spec => []ExclusiveMaya` |
| | `OwnerUnique` | `Spec => []OneOwner` |
| | `Fencing` | `Spec => []QuarantineFences` |
| | `QuarantineForever` | `Spec => QuarantineIsFinal` |
| `HostLockProofs` | `Invariance`, `TypeCorrect` | `Spec => []IInv`, `Spec => []TypeOK` |
| | `SessionsUnderLock` | `Spec => []SessionUnderLock` |
| | `HoldersExclude` | `Spec => []OneHolder` |
| | `Refinement` | `Spec => ImplementsOwnership` |
| `RunQueueProofs` | `Invariance`, `TypeCorrect` | `Spec => []IInv`, `Spec => []TypeOK` |
| | `HostsApart` | `Spec => []OneRunPerHost` |
| | `CanceledStaysOut` | `Spec => []NeverCanceledAndAssigned` |
| | `QueueBounded` | `Spec => []WithinCapacity` |
| | `FirstComeFirstServed` | `Spec => Fifo` |
| | `FaultFreeInvariance` | `Spec => []FaultFree` |
| | `AcceptedOwned`, `CancelWins` | `Spec => []AcceptedIsOwned`, `Spec => []CancelCannotReturn` |
| | `StartupGoesOn`, `NoHostStranded` | `Spec => []StartupAccepts`, `Spec => []NoStrandedHost` |
| | `OutcomeFinal` | `Spec => OutcomeIsFinal` |
| `FreshRunProofs` | `CoreInvariant`, `TypeCorrect` | `Spec => []Core`, `Spec => []TypeOK` |
| | `ForeignSafe` | `Spec => ForeignUntouched` |
| | `Invariant` | `Spec => []IInv` |
| | `SessionIsHeld` | `Spec => []OwnSessionHeld` |
| | `FinishedFree` | `Spec => []FinishedIsFree` |
| | `KeptReal` | `Spec => []KeptIsReal` |
| | `StateLast` | `Spec => StateGoesLast` |
| `RunEventsProofs` | `StreamInvariant`, `TypeCorrect` | `Spec => []Streams`, `Spec => []TypeOK` |
| | `HonestIsAccepted` | `Spec => []HonestAgentAccepted` |
| | `EndInvariant`, `EndComplete` | `Spec => []Ended`, `Spec => []EndIsComplete` |
| | `ToldInvariant`, `HistoryIsKept` | `Spec => [](Ended /\ Told)`, `Spec => []HistoryKept` |
| `TransitionStoreProofs` | `Invariance`, `TypeCorrect` | `Spec => []Base`, `Spec => []TypeOK` |
| `TransitionStoreSafety` | `SafeInvariance` | `Reliable` gives `Spec => [](Base /\ Safe)` |
| | `AssignedOwns` | `Reliable` gives `Spec => []AssignedOwnsHost` |
| | `QuarantineKeeps` | `Reliable` gives `Spec => []QuarantineKeepsHost` |
| | `TerminalFirst` | `Reliable` gives `Spec => []TerminalBeforeRelease` |
| | `CommitSurvives` | `Reliable` gives `Spec => []LastCommitSurvives` |
| | `OneFaultRepaired` | `Reliable` gives `Spec => []OneFaultIsRepaired` |
| | `StartupNeverRefuses` | `MaxFaults = 0` gives `Spec => []StartupAccepts` |

Each inductive invariant was checked with TLC on small instances before it was
proved.

### The Agent fence

`ExclusiveMaya` is not inductive: that two processes do not both
run Maya depends on the confirmation of the first still being recorded when the
second asks, and on the second being unable to get a session or a fresh
assignment in the meantime. `IInv` says this:

* `ProcInv` - what a process's position says about its requests and its Maya;
* `ConfirmedInv` - the Run of a process with an answered confirmation is on that
  process's Host and durably confirmed or later; while it is confirmed, only
  that process, or nobody, has the session;
* `SingleConfirm` - at most one process has an answered confirmation for a Run;
* `SlotInv` - Agent status and assignments name each other;
* `DurableInv` - memory follows the disk, and a quarantine is in the record or in
  the marker;
* `QueueInv`, `MarkerInv` - a queued Run owns nothing; a marker names the Run
  that owns the Host or is about to.

With them, `MayRun(p)` and `MayRun(q)` on one Host give two Runs recorded on that
Host, hence the same Run, hence the same process. The proof has one lemma per
group of actions; `Quiet`, `Local`, `Quarantine` and `Ending` are the shapes most
actions share. `LoadedFacts` says what a restart reads from markers and records.

### The Host Lock

The difficulty is a script that runs after its controller gave up on it: it
carries contents that were right when it was sent. `IInv` therefore says what a
script on its way can still match.

* `Ctl` - what a controller's position says of the operation it is in, of what
  it writes and what it compares with;
* `SettledInv` - a Run that stopped its session, or will start none, has none;
* `RemoteInv` - `LateInv`: a late script is one its controller asked for and
  gave up on; `Fresh`: as long as the first lock of a Run may still be written,
  the file is not that Run's; `Judged`, `Reclaiming`: a takeover was decided on
  a lock that had expired, and `MovedOn`: since then its owner has changed the
  revision or touched the file, or it is still expired;
* `LocalInv` - what a process saw behind the mutex file is still so;
* `HolderInv` - in a checkout the lock names the process that holds it.

The last two, and the claim about sessions, hold until `broken`; the others hold
after it as well. A stop that releases a lock leaves only what a late script or a
takeover no longer matches.

`Refinement` takes the steps of the remote and of the local protocol one by one
to a step of `HostOwnership` or a stutter; it needs `IInv` for the compare and
swap of a late takeover.

### The Run queue

Two invariants. `IInv` holds whatever writes fail: a goroutine on its way to an
assignment has the Host's lock (`Route`), a process that is not serving has
nothing under way (`AtRest`), admission is exclusive and leaves no trace before
it (`Entrance`), a marker or an assignment names the state its other records and
its Host must be in (`Recorded`), a claim is of a free Run (`ClaimFresh`), a Run
whose cancellation began has left dispatch (`CanceledIsOut`). `OneRunPerHost`,
the bound of the queue and the order of acceptance (`Time`) follow and are part
of it. `FaultFree` holds besides as long as no write failed: goroutines, queue,
queue records and ledgers agree (`Places`, `Cancelings`, `Loaded`, `OnDisk`),
and the Runs startup puts back fit the queue (`Room`), which is what makes
startup possible after every stop. The code does not promise more (section 3).

### The Fresh Run

The controller's record has 21 fields and some forty actions, so the proof has
two layers. `FreshRunEffects` says once what each action does, field by field
(the lemmas `...Is`). `FreshRunProofs` then shows for each part of the
invariant, with one step per action, that it is kept, from those lemmas alone.
`TypedStep`, for the types, is one of them.

`Core`, proved first, is about the controller while it lives:

* `Account`, `Failure`, `Policy` - which of its flags go together at which step:
  a session that counts as settled was stopped or retained, and only such a one
  reaches the cleanup; a failure counts as settled early only if no session was
  attempted; a Run with an unsettled session keeps none;
* `Asked`, `Untouched` - a stop past its checks has found the ledger record and
  the Run Record, and there is none as long as the controller is going, because
  the files it reads say running and submitted;
* `Shown` - a session of the Run is on the Host only after its start, and a
  settled one that was not retained is down; the live session of another Run is
  under that Run's lock. `ForeignUntouched` follows: who starts or stops a
  session holds the lock, or knows the session to be its own.

`IInv` adds what the files and the stopping processes have
to do with it:

* `Filed` - a stop phase in the ledger or in the Run Record tells the truth
  (`Truthful`): no late call brings back what it calls stopped or released, and
  the identity of the session is in the state directory as soon as the
  controller has it;
* `StopsDone` - a stop has done what comes before the step it is at, whatever
  other stops and late broker calls did in between, and what it read of the
  session's identity is still what there is to know;
* `GivesBack` - an accepted Run has given its lock back, is about to, retains its
  session, or says that its cleanup is incomplete. This is what makes
  `FinishedIsFree` inductive for the record the controller writes, and
  `StopsFree`, that a stop without an error found the lock gone, for the one a
  stop writes;
* `Keeps` - lock, mirror, manifest and Run Record of a kept Run are there until
  the files say how far its stop has come (`Intact`, `Whole`).

All but the types, `Core` and `ForeignUntouched` are claimed until `raced`, and
`OwnSessionHeld`, `FinishedIsFree` and `StateGoesLast` except for what `blind`
names, as in the properties TLC checks.

### The events of a Run

The proof is for files of any length and for any limits (a checkpoint of at
least 3 events, a ledger of at least as many), so it cannot look at single
entries. Every stream in the system is described by two values instead:
`Stream(l, g)` is the history `l`, a sequence of kinds, of which the events from
the second to number `g` are given up for a gap. On such streams the pure parts
of the code become short. A bounded copy keeps the history and widens `g` as far
as the limit asks (`CopyIs`); a checkpoint is accepted if and only if it has a
longer history with the same events and gives up no less (`MergeableIs`); the
terminal history gets the wider of the two gaps (`SanitizedIs`); a failure of the
Control Plane is one more event (`PreservedIs`). `Following` and `sanitized` take
their parts by position; `PartsAreFiltered` shows that these are the lines that
the code's passes leave.

`Grows` says that one stream says what another said: no event of the first
changes, and none comes back from its gap. `LedgerStep` says it of every step,
unless the step tears the ledger; it is shown action by action, together with the
parts of `Core`, the types and who has what of which file. Three invariants
follow.

* `Streams` - `ViewOK`: the ledger of an Agent's Run holds a stream of the
  Agent's file, no longer than the checkpoint that is pending, or it shows a
  failure; `LocalOK`: that of a local Run is a copy of its file. It gives the
  types and `HonestAgentAccepted`, which is not inductive: it needs to be known
  that everything ever sent is a copy of one file.
* `Ended` - `OpenOK`: the record of a confirmed assignment is not terminal, nor is
  the one a checkpoint is about to save (this is where an unfinished failure
  could enter, see `torn`); `FollowerEnd`: a follower that has read a terminal
  record reads a Run that is `Settled`, whose assignment accepts nothing and for
  which no request still writes; `LocalEnd`: a local Run becomes terminal with its
  whole file in the ledger, so that a late refresh finds nothing newer.
* `Told` - `Delivered`: the follower has, or was told of, everything up to its
  cursor, and the ledger still says it; `Covered`: the same of the checkpoint
  that was acknowledged last, in memory and on disk.

An early follower's refresh is covered by `EarlyOK`: the Control Plane's own events
file has nothing after its first two events but failures, so a refresh that finds it
newer brings a failure into the ledger, which `HonestAgentAccepted` excepts, and a
refresh that replaces events tears the ledger.

`Ended` and `Told` are claimed until `torn`; the types and `HonestAgentAccepted`
hold after it as well.

### The transition store

`Base` holds without any restriction: what the operation in flight holds in each
phase (`OpInv`), that the journal of the record being applied is there until it
is removed (`JournalInv`), that Recover replays the journals that are there and
no others (`TodoInv`), and what startup has still to load (`UnreadInv`).

`Safe` adds, for a machine that is `Reliable`: if it can lose power
(`PowerLoss`), no file operation fails (`MaxFaults = 0`). Both configurations
that TLC checks satisfy it. Without it the properties are false of the code, see
"Known limits". Its parts:

* `TwinInv` - what is seen is durable, up to the journal whose removal is not
  synced yet;
* `HistoryInv`, `CoherentInv`, `HomeInv` - every file and memory hold one of the
  records a Run may have (the last acknowledged one and those in doubt), and
  these are of one Host;
* `Exclusive` - marker, quarantine, Host Lock, journals, memory and the
  operation in flight name one Run per Host;
* `KindInv`, `KnownInv` - the record in memory a transition starts from; a
  serving process knows the Run behind every file, a starting one the Runs whose
  locks it has read;
* `LevelInv`, `MarkerInv` - a Run that began to complete has nothing left of its
  earlier life, one with a marker has not been confirmed. They exclude that a
  stale journal undoes a later transition;
* `AckedInv`, `QuarantineInv` - an acknowledged quarantine is on disk and
  nothing in flight can change it (`Settled`); an Agent is quarantined for such a
  Run or for one whose marker is there (`Kept`), also when the removal of a marker
  failed;
* `ProgressInv`, `ReplayInv` - how far the files of the operation in flight are;
* `CustodyInv`, `ReleaseInv` - who must have the Host Lock, and until when;
* `RepairInv` - after at most one failure a Host Lock without a journal agrees
  with its assignment record, and memory with the Host Lock: the failure is the
  one that sent Commit into Recover, so Recover cannot fail too.

Each part has one lemma, with one step per action (`TwinStep`, `HistoryStep`
and so on); most of the work is in `FileStep`, `FileStepFails`, `PickJournal` and
`LoadLock`.

### Only model-checked

All liveness (`LossEndsRun`, `QueueDrains`, and `StopFrees`, which the code
violates) stays with TLC: fairness and ENABLED are outside the prover's reach.
The transition store with power loss and failing operations together has no
theorem besides `Base`.

## 6. Plan

Modelling is complete as far as the following list, and every safety property
that the passing runs check is proved. What a change of the code would touch
first: the windows named by `broken`, `blind`, `raced` and `torn` and the
findings of section 4. A version of the code that closes one of them should drop
the exception from the model and be proved again without it.

### Not modelled

* Capabilities: a pure decision over parsed versions, tested by tables; the queue
  takes its result as the constant `Fits`.
* Pruning and listing of the Run Ledger, printing of status, history and logs:
  they read, or remove Runs that have ended.
* Run-scoped captures and clicks: one broker command each on a kept session. A
  click is not fenced (`run_scoped_ops.go` 272, listed as a hazard).
* Evidence formats, desktop capture, publishing, review comments, command-line
  and configuration parsing, doctor, SSH transport, the plugin allowlist,
  platform wrappers and the Python helper: I/O or pure parsing, without shared
  state whose interleavings a model would explore.
