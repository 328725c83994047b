# Dysflow: formal models of its execution core

Dysflow lets an agent or a user work on Microsoft Access databases: it exports,
imports, compiles and tests VBA, runs queries, and inspects forms. A Node process
(MCP server, HTTP server or command line) hands each request to a PowerShell
script, which drives Access through COM. Several Node processes may serve the same
database at the same time, any of them may die, Access processes outlive the
scripts that started them, and all coordination happens through directories and
files. That coordination is what these models are about.

Paths below are relative to the repository root.

## 1. The system

### 1.1 Components, their state and operations

| Component | Source | State | Operations |
|---|---|---|---|
| Operation registry | `src/core/operations/access-operation-registry.ts`, `src/core/utils/lock-errors.ts`, file-system port and adapter | a JSON file with one record per operation; a lock directory with an owner file beside it; per process a chain of promises and a health flag | create, update, get, listRecent, getHealth |
| Cross-process lock | `src/core/runner/cross-process-lock.ts` | per database a lock directory with an owner record and, during an eviction, a claim directory | acquire, heartbeat, release, evict a stale lock, recover a leaked claim |
| Execution queue | same file | a Map from database to the last caller's promise | run under the lock, run under the read variant |
| Preflight cleanup | `src/core/operations/access-operation-preflight.ts` | none of its own: registry records, operating-system processes | cleanup |
| Access runner | `src/core/runner/access-runner.ts` | the local record of one operation | run |
| PowerShell executor | `src/adapters/powershell/default-executor.ts` | one child process, a timer, a marker on stderr | execute |
| Startup suppression | `scripts/dysflow-access-runner.ps1`, `scripts/dysflow-vba-manager.ps1` | the macro AutoExec and the property StartupForm of the database, a sentinel file | suppress, restore, recover |
| Tracked VBA run, run-owned reap | `src/adapters/vba-sync/vba-sync-adapter.ts`, `src/core/operations/run-owned-access-reap.ts` | a marker file with the pid of the run's Access, a polling timer | start, poll, end, reap |
| Explicit and orphan cleanup | `src/core/operations/access-operation-cleanup.ts`, `access-orphan-cleanup.ts` | registry records, processes | clean an operation, kill an orphan |
| Write gate, stale markers | `src/adapters/config/project-config-diagnostic.ts`, `src/core/operations/stale-marker-cleanup.ts` | the registry file, read and rewritten without its lock | reap old records, refuse a write |
| Transactional write | `src/core/services/transactional-write.ts`, `vba-modules-adapter.ts` | a staging directory per call under a common root | sweep, copy, execute, commit, roll back |
| VBA import | `src/core/services/vba-import-orchestration.ts`, `scripts/lib/dysflow-vba-import-transport.psm1`, `scripts/dysflow-vba-manager.ps1` | results per module, pass counter, rollback journal, the session's unsaved content | pass, save, roll back, close |
| Bulk import | `src/core/services/import-modules-bulk.ts` | counters | chunk |
| Relink directory | `src/core/services/relink-directory-orchestration.ts`, `scripts/dysflow-access-runner.ps1` | links per file | inspect, plan, apply |
| Runtime update | `src/cli/commands/install/updater.ts`, `extractor.ts`, `channel.ts`, `install-state.ts` | the files of the runtime, the install state with its channel pin | update, refresh the agents |
| Pointer rollout | `src/cli/commands/install/pointer-rollout.ts` | the agents' instruction files, which the user edits too, and their backups | roll out, roll back |
| Write policy | `src/core/runtime/write-execution-policy.ts` | none | decide |
| Transports, configuration, analyses | `src/adapters/mcp`, `src/adapters/http`, `src/cli`, `src/core/config`, form and VBA text services | | |

`PROJECT.json` lists every component with its status.

### 1.2 How they interact

`run` of the Access runner asks the execution queue for its turn. The queue chains
the calls of one process, and a call that may write also takes the cross-process
lock; a read-only call does not. Once it has its turn, the runner lets the
preflight clean up what earlier operations left, creates a record in the registry,
spawns PowerShell, updates the record when the script reports the pid of the
Access it opened, and updates it again with the outcome. The script suppresses the
database's startup code, opens Access, works, and restores the startup code. When
the operation times out the executor kills the script with its process tree: the
restoration does not run, and Access, which COM started, survives. The next
operation's preflight kills that Access, on the evidence of the record, and the
next session of the script restores the startup code, on the evidence of the
sentinel or of the renamed macro.

A VBA tool runs the other script as a tracked run: it records itself, learns the pid
of its Access from a marker file, and reaps that Access when it ends. Two tools let
a user clean up from another session. Before any write, the gate at the end of the
configuration diagnostic looks into the registry file for running operations. A write
may ask for a transaction, which works on a copy of the database and renames it into
place; an import is a conversation between the script, which holds the Access session
and the rollback journal, and a Node process that decides. Apart from all this, the
installer overwrites the runtime in place and edits the agents' instruction files.

### 1.3 What is hard here

- Two processes take, evict and release the same directories, each file-system
  call a step of its own.
- Read-only operations run their preflight and their script beside a live writer.
- Lists of records and of processes are snapshots; pids are reused.
- Any process may die between two steps, and so may the one that cleans up after it.
- Calls time out and may still take effect; a marker may arrive after its timeout.
- Every call may fail, and a failure must neither block the calls behind it nor
  leave half of its effect.
- Several files are rewritten without a lock: the registry by the write gate, the
  database by the commit of a transaction, the instruction files by a rollout.
- What was imported is only in memory until it is saved, and Access may be killed or
  closed before.
- An inspection of processes may be degraded, and then shows less than its callers
  expect.

The hazards, each with its source line and the properties that cover it, are in
`PROJECT.json`.

### 1.4 What makes the components correct

- Registry: mutations are indivisible, across processes; a failed one changes
  nothing; every call settles; the file stays bounded; a valid file is not moved
  away by a mutation.
- Cross-process lock: exclusive; an eviction removes only the stale lock it looked
  at; whoever waits is served although holders and evictors die.
- Queue: calls of a process never overlap, nor do writers of different processes;
  every call ends; nothing is left in the Map.
- Runner and preflight: no live operation loses its Access; a kill hits the
  process that was decided about; a preflight that reports nothing has done its
  duty; every call returns.
- Startup suppression: Access never runs startup code unattended, and the database
  keeps its startup code.
- Executor: it settles once, tells how the child ended, and has captured every marker
  that arrived.
- Tracked runs and cleanup tools: as long as inspections tell the truth, a live run
  keeps its Access, strangers that got a pid are spared and "cleaned" means gone; an
  Access that is left over stays listed or is lost for a known reason.
- Write gate: it takes no record of a live operation, and a dead one never blocks for
  good.
- Transactional write: a failed call leaves no trace; an edit is lost only to a call
  that overlapped it; nobody's young staging directory is swept.
- Import: what is reported ok after a save without warning is in the file, and a batch
  that fails on a lock in a pass or without its deciding process is undone.
- Relink: links lead to native tables that exist, or have no end, never into a cycle,
  and only links without an end are removed.
- Rollout and update: the user's text survives, failures are undone, and the recorded
  version and channel are those of the bytes installed, or there is a known reason.

## 2. The modules

| Module | Models | Extends |
|---|---|---|
| `RegistryRecords` | the record map and the pure part of create and update | |
| `AtomicRegistry` | abstract specification: each mutation one indivisible step | `RegistryRecords` |
| `FileRegistry` | the file registry, one file-system call per step | `RegistryRecords`; instance of `AtomicRegistry` |
| `FileRegistryProofs` | theorems about `FileRegistry` | `FileRegistry` |
| `DatabaseLock` | abstract specification: one writer of a database at a time, only an abandoned lock is taken away | |
| `CrossProcessLock` | the lock directory, its eviction and claim | instance of `DatabaseLock` |
| `ExecutionQueue` | the promise chain, over the cross-process lock | instance of `DatabaseLock` |
| `ScriptExecution` | abstract specification: one execution as the runner sees it | |
| `PowerShellExecutor` | one execution: chunks, markers, timer, abort, taskkill | instance of `ScriptExecution` |
| `WriteGate` | the gate's reap and verdict against the registry's mutations | |
| `TransactionalWrite` | staging, commit, rollback and sweep of overlapping calls | |
| `VbaImport` | one import call: core, transport, script and Access session | |
| `RelinkDirectory` | classification, plans and application of relinks | |
| `TrackedAccess` | a tracked run, its reap, and the two cleanup tools over one pid | |
| `PointerRollout` | rollouts into files the user edits | |
| `RuntimeUpdate` | updates of one runtime, with channels | |
| `AccessPreflight` | the preflight cleanup, one await per step | |
| `AccessRunner` | `run`, the executor, the operating system | `AccessPreflight` |
| `StartupSuppression` | the startup protocol of both scripts | |
| `StartupSuppressionProofs` | theorems about `StartupSuppression` | `StartupSuppression` |
| `ExecutionProofs` | theorems about the queue and the executor | `ExecutionQueue`, `PowerShellExecutor` |
| `CrossProcessLockProofs` | theorems about the lock | `CrossProcessLock` |
| `OperationProofs` | theorems about the gate and the tracked run | `WriteGate`, `TrackedAccess` |
| `DatabaseWriteProofs` | theorems about the three ways to change a database | `TransactionalWrite`, `VbaImport`, `RelinkDirectory` |
| `InstallProofs` | theorems about update and rollout | `RuntimeUpdate`, `PointerRollout` |
| `AccessRunnerProofs` | theorems about the runner and its preflight | `AccessRunner` |
| `MCParts` | the instances of the modules that share no state: `ExecutionQueue` and those from `PowerShellExecutor` to `RuntimeUpdate` | those modules |
| other `MC...` | model values for TLC | the module they are named after |

`FileRegistry` is composed with the rest through its abstraction: `AccessPreflight`
and `AccessRunner` use a registry whose create and update are atomic or fail, which
is what `Refinement` proves of the file registry; `TrackedAccess` uses it in the same
way, and `WriteGate` takes from it that mutations are serialised. `ExecutionQueue`
takes the cross-process lock as one variable; both it and `CrossProcessLock` implement
`DatabaseLock` (`QueueUsesLock`; `LockIsALock`, under the conditions of section 4), so
what the queue takes for granted is what the directories provide. The step `Turn` of
`AccessRunner` relies on the same. An execution is a few steps in `AccessRunner` and one
protocol in `PowerShellExecutor`, which implements `ScriptExecution`
(`ExecutorRunsScript`): a marker is learned once and after it was written, the result
comes once, and with a script that ended by itself all its markers are known by then.
These are the steps `Capture`, `Execution` and `LateCapture` of `AccessRunner`. They
are not an instance of `ScriptExecution`: there an execution has one marker, its pid.

Operators whose comment begins "Mutant of X" are deliberately wrong variants of
X. No specification uses them; each shows that some property fails when the code is
changed in that way. Where a property conjoins several parts, its mutant breaks at
least one of them, not each.

### 2.1 FileRegistry

`file`, `quarantined` are what is on disk; `lockDir`, `owner`, `lockStale` the lock
directory, its owner file and whether its age exceeds `staleLockMs`; `queue` is
`fileLocks`, the promise chain per process; `pc`, `req`, `local`, `outcome`, `fatal`
belong to one call of create or update; `rpc` and `health` to the readers of one
process. Actions follow `withFileLock` (`WithFileLock`, `StartAcquire`, `Settle`),
`acquireRegistryMutationLock` (`MkdirLock`, `WriteOwner`, `OwnRead`, `OwnRmdir`,
`RemoveLockIfStale`, `Retry`, `TimeOut`), the mutation (`ReadRecords`,
`WriteRecords`) and `releaseRegistryMutationLock` (`ReleaseRead`, `ReleaseRm`,
`ReleaseRmdir`). `FaultyNext` adds damaged files, failing reads, the quarantine and
the lock-free readers. Of a record, the status and `updatedAt` are kept, since only
they drive the registry's decisions. `writeRecords` is one step because it writes a
temporary file and renames it. Stamps that are equal may be evicted in any order.

### 2.2 CrossProcessLock

`lock` and `claim` are the two directories with age and owner; `observed` and
`claimAge` are the local variables of `evictStaleLock`. Ages are counted in
heartbeat intervals, half of the stale threshold; the recovery ceiling is four. One
action per file-system call: `EvStat` to `Unclaim` are the lines of
`evictStaleLock` and of the recovery of a claim, in order. Switches say which
assumptions a run makes: `TimelyHeartbeats` (a living holder refreshes its lock in
every interval), `QuickEvictions` (an eviction takes less than an interval),
`CrashInEviction` (an evictor may die), `MayTimeOut` (waiting callers give up).

### 2.3 ExecutionQueue

`tail` is the Map entry, `previous` the promise a caller awaits, `resolved` the
promises that are resolved. `Enqueue` is the synchronous prefix of
`executeWithLock`, `Turn` the end of `await previous`, then the acquisition, which
may throw, the work, the release, and `Finally`. The release is best-effort: a lock
whose removal failed, like that of a dead process, stays until somebody evicts it.

### 2.4 AccessPreflight and AccessRunner

`procs` maps pids to processes (an operation's Access, a user's, another program),
`starts` numbers them and serves as their start time; `rec` is the registry; `aged`
the records past the grace window for starting operations; `pre` the local
variables of each preflight, with the snapshot of records (`todo`) and of processes
(`list`). In `pre`, the field `owed` remembers what the listing owed, for the
property `QuietPreflightReaps`. The preflight's actions are named after its methods.
`AccessRunner` adds `Turn` (queue and lock in one guarded step), `Create`,
`Capture`, `Execution`, `RecordWorkerPid`, `updateOperationFromExecution`,
`LateCapture`, `LockRefused` (the lock is not got in time), and the environment:
processes start and exit, pids are reused, records age, hosts die, and a PowerShell
that outlives its host opens Access afterwards (`LateOpen`). `Inspection` and `Listing`
are what the two process queries may answer: the truth, or nothing when their output
cannot be parsed.

### 2.5 StartupSuppression

`autoExec` and `form` are the database, `sentinel` the file, `info` the
`$startupInfo` of each session. A session of `dysflow-access-runner.ps1` first
restores from a sentinel it finds, suppresses, writes its own sentinel, opens,
closes, restores and removes the sentinel; one of `dysflow-vba-manager.ps1` has no
sentinel. A diagnostics session does all of that except that it never opens Access.
The removal of the sentinel and of the pending file is best-effort, and the suppression
may throw at each of its steps. `clean` and `hurt` record faults and kills for the
properties.

### 2.6 PowerShellExecutor

A line of stderr is three pieces (a first part, the rest, the newline) and a chunk is
any run of pieces, so that every cut happens; `consumed` is what has left the buffer
`pending`. `capturing` are the registry updates under way and `awaited` those that
`allSettled` waits for. `Close`, `SpawnError`, `Terminate` (timer or abort),
`KillReturns` and `FinishAfterKill` race for the one `Settle`; `Return` is the end of
the promise chain.

### 2.7 WriteGate

`ledger` is the registry file and `torn` says that it is truncated; `handles` are the
gates that have this very file open, since a rename by the registry leaves them
writing to nobody's file. Operations follow the registry's protocol (`BeginMutation`
reads, `EndMutation` renames), gates read (`ReapRead`), truncate (`ReapOpen`), write
(`ReapWrite`) and list (`FindRunning`). `overlap` records that a rewrite and a mutation
met: only then may a record be lost.

### 2.8 TransactionalWrite

The content of a file is the set of edits it holds, so that a lost edit is visible.
A call sweeps (`SweepList`, `SweepStat`, `SweepRemove`), reads the original for its
hash, makes its staging directory, copies, executes, commits by rename or rolls back,
and removes the root when it is empty. Every file-system call may fail and a process
may be killed between any two; `DirectWrite` is an ordinary write of the binary.

### 2.9 VbaImport

`session` is what the open project shows and `file` what is on disk; Access keeps or
drops every unsaved change when it is closed or killed. The decisions
(`PassCompleted`, `SaveCompleted`, `RollbackCompleted`, `FailBatchOnLock`) are those of
the TypeScript core, the rest is the script: one module (`ImportSucceeds`,
`ImportFails`), the save, the rollback journal, the failing core process
(`BridgeFails`) and the close. `damaged` are the modules that a failed attempt or
rollback left broken.

### 2.10 RelinkDirectory

A table is a node and a link leads to the table it names; what `classifyBackend` says
of a link is its kind. `Chain` is `resolveChain`, `Classify` and `ActionOf` the
planning, `ApplyFile` the script's application of one file's plan, with a backup or
an open that fails, actions that fail, and links that are lost between delete and
append. `unread` are the databases that could not be inspected.

### 2.11 TrackedAccess

One pid: `occupant` is the process that has it, which may be the run's own Access, one
of another session started in the same second (`twin`) or later, one with the database
on its command line, or one with a window. `ProcessInfo` is what a full inspection
tells, `Degraded` what the fallback tells. The run starts, polls its marker
(`PollRead`, `PollWrite`), ends, reaps and records; `Cleanup...` and `Orphan...` are
the awaits of the two tools; the retirement of a record without a process is a scan
(`CleanupRetire`) and an update (`CleanupUnlist`). A call remembers which process it
checked and whether its inspections were clear, for the properties.

### 2.12 PointerRollout and RuntimeUpdate

Of an instruction file, the edition of the user's text and the state of the block are
kept. A rollout reads, backs up, empties, fills and verifies one file after the other,
and undoes all of them when one failed; a file that is written back is emptied
(`Rollback`) and filled (`WriteBack`). Of the runtime, the build each part comes from
is kept. `Steps` is the order in which an update overwrites the parts;
`InstalledVersion` is what `package.json` says, `state` the install state. Faults and
kills happen between and inside the parts. A run that is up to date refreshes the agents
from the package it runs from, which may not be the installed one (`RefreshAgents`).

## 3. The runs

| Run | Instance | Checks | Shows |
|---|---|---|---|
| `registry_data` | 3 calls, 2 processes, 2 ids, maxRecords 1 | `NoLostUpdate`, `FailureChangesNothing`, `RecordsBounded`, `Linearizable` | mutations are atomic and bounded |
| `registry_lock_faults` | 2 calls, 2 processes, damage, read errors, readers | `RegistryLockSafe` (`TypeOK`, `MutualExclusion`, `HolderOwnsLock`), `OnlyOwnerReleases`, `WriterQuarantinesCorrupt` | the lock holds under every fault |
| `registry_live` | 3 calls, 2 processes | `EveryCallSettles` | no call blocks another |
| `lock_safety` | 3 processes, 2 acquisitions each | `LockSafe` (`TypeOK`, `MutualExclusion`, `HolderKeepsLock`), `ReplacementSurvives`, `ImplementsDatabaseLock` | exclusive, with holders that die; the lock of `DatabaseLock` |
| `lock_live` | 2 processes, one acquires twice, evictors that die, slow evictions, 1 failing call | `WaiterServed` | a leaked claim is recovered |
| `lock_leaked_claim` | 4 processes, 1 acquisition, an evictor dies | `ReplacementSurvives` (violated) | see 3.1 |
| `runner_interleaved` | a mortal writer and 2 readers in 3 processes, 1 pid used twice | `RunnerInvariant` (`TypeOK`, `QuietPreflightReaps`), `KillsAreSafe` (`KillsWhatItDecided`, `LiveOperationSafe`) | preflights beside live operations |
| `runner_faults` | a writer and a reader, both mortal, 2 pids, 1 failing call | the same and `EveryCallReturns` | the same with failures |
| `runner_command_line_kill` | as `runner_interleaved` | `KillsOnlyOwned` (violated) | see 3.1 |
| `startup_sessions` | 5 sessions, 1 kill, 1 fault | `TypeOK`, `GivesBackWhatItTook`, `AutoExecRecovered`, `LockedOpensAreQuiet` | the startup code survives |
| `startup_diagnostics` | a writer and a diagnostics | `NoUnattendedStartup` (violated) | see 3.1 |
| `parts` | one instance per component, table below | the properties below, and `EveryPartEnds` | each component on its own |

`parts` checks the components that share no state in one run: the initial state picks
the component, whose actions alone are taken afterwards, under its own fairness. The
state space is the sum of theirs, about 335,000 states.

| Component | Instance | Properties, with the parts they conjoin |
|---|---|---|
| `ExecutionQueue` | 5 calls in 2 processes, readers and writers | `QueueSafe` (`InProcessExclusion`, `WritersExclusive`, `NoLeak`), `QueueUsesDatabaseLock` |
| `PowerShellExecutor` | 3 lines, the first and the last markers | `ExecutorSafe` (`ResultTellsCause`, `CapturesKnownAtReturn`), `ExecutesScript` |
| `WriteGate` | 2 gates and 1 operation, or 1 gate and 2 operations; 1 fault | `GateSafe` (`RunningKeepsRecord`), `EveryBlockerClears` |
| `TransactionalWrite` | 2 transactions, 1 direct write | `TransactionSafe` (`FailureLeavesNoTrace`, `StagingAccounted`, `NoStrayRoot`), `LostOnlyToOverlap`, `SweepSparesYoung` |
| `VbaImport` | batches of two of an existing and a new module, an existing and a new form, and the empty batch | `OkIsPersisted`, `ImportSafe` (`RetriesShrink`, `LockedBatchUndone`, `BridgeFailureUndone`) |
| `RelinkDirectory` | 4 tables in 4 databases, limit of 3 hops, at most `MaxUnread` = 1 database unreadable | `RelinkSafe` (`NativeEndpointReached`, `NoShortCycleApplied`, `DanglingIsExplained`, `RemovedHadNoEndpoint`) |
| `TrackedAccess` | a run beside either tool, or both tools; 1 reuse of the pid, 2 faults (beside `cleanupOrphan` 1) | `TrackedSafe` (`LiveRunSpared`, `StrangersSpared`, `TerminalStatusStays`), `LeftoversKnown` (`CleanedMeansGone`, `LeakIsExplained`) |
| `PointerRollout` | 2 files; a rollout with 1 edit and 1 fault, or two rollouts | `RolloutSafe` (`UserTextKept`), `RolloutHonest` (`FailedRolloutUndone`, `OkIsInstalled`) |
| `RuntimeUpdate` | 2 updates, 2 channels, 2 versions, 1 fault | `UpdateHonest` (`RecordTellsBytes`, `UpdatedIsWhole`, `UpToDateIsExplained`), `PinHeld` |

`EveryPartEnds` conjoins `EveryCallEnds`, `EveryExecutionReturns`,
`EveryTransactionEnds`, `EveryImportEnds`, `EveryTrackedCallEnds` and
`EveryRolloutEnds`. One safety property of each component also conjoins its type
invariant with its bounds: at most one record per operation, no more to undo than
there are targets, and the like.

The properties with an exception ("unless an inspection was degraded", "unless an
update was cut short") were first checked without it; each exception stands for a
counterexample. Section 6 tells what the code does in those cases, and the hazards
they leave uncovered are listed in `PROJECT.json` without a property.

Deadlock checking is off in all of them: calls, operations and sessions are finite in
number and the system may come to rest.

### 3.1 Disagreements

- `lock_leaked_claim`. After an evictor died under its claim, two waiters can both
  find the claim recoverable. The slower one removes the faster one's new claim,
  both compare the owner of the same stale lock, and the slower `rm` deletes the
  lock another process has taken after the faster one's. The comment in
  `evictStaleLock` says that such a lock "must survive".
- `runner_command_line_kill`. The orphan scan kills a headless Access that no
  operation started because its command line names the database. `README.md` says
  that a command line "is not ownership and must report/block instead of
  terminating Access".
- `startup_diagnostics`. A diagnostics takes no lock, takes the sentinel of a
  running writer for that of a killed run and restores AutoExec; the writer then
  opens Access with it in place, which its own guard is there to prevent.

### 3.2 Bounds and why they are enough

Two processes are enough for every race between a holder and a waiter; a third is
what it takes for an eviction to meet a replacement lock, and a fourth for two
recoverers to meet one. A lock is acquired twice, by each process in the safety run
and by one of the two in the liveness run, so that a process meets traces of its own
earlier acquisition. Ages are capped one above the largest
threshold. `maxRecords` is 1 so that two ids force an eviction. In
`runner_interleaved` there is one pid and two starts: the second process always
reuses the pid of the first, which is the case that matters; `runner_faults` has
two pids, so that two Access processes are alive at once, and no late markers, which
`runner_interleaved` has. Sessions of the startup
protocol come in all four kinds (with and without lock, both scripts), and the
theorems of section 5 cover any number.

In `parts`: two gates meet on the file's handle and two operations on its content, so
each is doubled once. Two transactions and a direct write are every overlap of two
commits with an edit from outside. A batch of two has a pass with and one without
progress, and the four kinds of modules meet in pairs. The hop limit is 3 instead of 5
so that four tables suffice for a chain of exactly the limit, a shorter one, and
cycles below and at the limit; one of the databases may be unreadable (`MaxUnread`,
any number in the proofs). The process that gets a pid after the run's Access may be
of every kind, and two faults let both inspections of one call, or one inspection and
a kill, go wrong; a run beside `cleanupOrphan` has one fault, which keeps the run
short, and any number in the proofs. Two rollouts run without faults and edits, and a
single one with them; in the update only one channel publishes, since the other then
is the one that is behind.

Symmetry is used for interchangeable processes and readers in runs without liveness.

### 3.3 Fairness

- Registry: a call keeps taking steps while its process lives, and its deadline
  passes (strong fairness of `TimeOut`: the clock passes the deadline even when the
  lock is freed and retaken in the meantime).
- Cross-process lock: each process runs its loop, its timer fires, the work under
  the lock ends, and time passes.
- Queue: ready continuations run; the work ends because the executor has a timeout
  and the acquisition because it has a deadline.
- Runner: every await of a live call settles, since process calls run under
  `withTimeout`, the executor under its own timeout and the registry under its lock
  timeout; the queue serves in turn.
- Executor: the timer, the guard beside taskkill and the capture updates end; neither
  the script nor taskkill need to.
- Gate: it is synchronous, every write calls it, a mutation under way ends, and records
  age.
- Transactions, imports, tracked runs, cleanup calls and rollouts: every await of a
  live call settles, since each runs under the executor's or the inspector's timeout or
  is a file-system call. A killed process is exempt.

`PartsFairness` conjoins these conditions, each for behaviours of its own component. No
liveness is stated of `RuntimeUpdate`, which waits for the network.

Nothing is assumed about crashes, faults or the environment.

## 4. What the models assume

- `TimelyHeartbeats`: a holder that is suspended for longer than the stale
  threshold loses the lock and goes on. That is inherent in a lock with a
  time-out, and is left out of the runs.
- `QuickEvictions`, no death inside an eviction and no failing call in
  `lock_safety`. With a death, see `lock_leaked_claim`. A failing `rm` of the stale
  lock leads to the same end without a death: a waiter that found the claim gone
  between its `mkdir` and its `stat` takes it for recoverable, so two evictors are
  past the claim while the stale lock is still there.
- `QuickKills`: no pid changes hands between the last check and the kill, and a kill
  that takes effect does so before its timeout; the one gap no code can close. So
  `KillsAreSafe` is about pids that were reused before the check. `QuickStarts`: a
  live Access reports its pid within the grace window for starting records.
  `LateMarkers` allows the marker after the timeout.
- Start times are unique; the code compares whole seconds.
- A query that cannot be parsed answers nothing at all; a list is never half of the
  truth.
- One database, one project root. The scanner is always configured. An Access
  activated through COM never names the database on its command line, and the
  inspector only returns Access processes.
- The preflight visits records in any order; the cap of the registry is not reached
  in `AccessRunner`.
- `TrackedAccess`: start times have a resolution of one second, as in the code; two
  processes with the pid in the same second (`twin`) are told apart by nobody. The
  inspector only returns Access processes.
- `PowerShellExecutor`: the platform is Windows; stdout has no control of its own.
- `WriteGate`: marker files carry a byte-order mark that the gate's parser rejects, so
  they name nobody.
- `VbaImport`: Access keeps or drops each unsaved change for itself; modules are
  imported in any order.
- `RuntimeUpdate`: a download is complete or fails; commands that are refused change
  nothing and are left out.
- In `StartupSuppression` a kill is one step, AppIcon goes with StartupForm, and
  AllowBypassKey, `--allow-startup-execution` and the closing of an open database
  are left out.

## 5. What is proved

Every invariant and every action property that a passing run checks, and each of the
four refinements, is also a theorem: it holds for every value of the
constants that satisfies the named assumptions, hence for any number of processes,
calls, records, modules, tables and faults. Each proof has the same shape. The property
alone is not inductive; an invariant that adds what a process still knows between two
of its steps is; and there is one step per action. The invariants were checked with TLC
on the instances of section 3 before they were proved.

### 5.1 The assumptions

- Sizes and bounds are natural numbers, maps from calls to processes have the right
  domain, and the values that stand for "nothing" differ from everything else
  (`NoOwnerAssumption`, `NobodyAssumption`, `NoDirAssumption`, `NothingAssumption`,
  `NoInfoAssumption`, `BuildsAssumption` and the like). In the code these are null,
  undefined or a missing file.
- `OpsAssumption`: no operation id is the word that stands for a user's process.
- `TargetsAssumption`: the targets of a rollout form a non-empty list without repetition.
- `RelinkAssumption`: the hop limit is at least 2 (5 in the code). With a limit of 1
  the walk would end before it has looked at the first target, and a link to a missing
  table would be applied.
- `Punctual`, a hypothesis of `LockIsSafe`, `ReplacementsSurvive` and `LockIsALock`:
  heartbeats and evictions in time, no death and no failing call inside an eviction.
  Without it a holder can lose its lock to an eviction (section 3.1).
- `QuickKills` and `QuickStarts`, hypotheses of `PreflightKillsAreSafe` (section 4).

### 5.2 The theorems

`FileRegistryProofs`:

- `LockInvariant`, and from it `RegistryLockHolds` for `RegistryLockSafe`, with
  damaged files, read errors and crashes (`FaultySpec`). Mutual exclusion is not
  inductive. `LockInv` adds that the owner file names the holder, that it lies in an
  existing directory (so that `rmdir` of the directory fails while it is there) and
  that only the head of a process's chain runs (so that two calls of one process
  cannot meet).
- `OnlyOwnerReleasesHolds`: an action property, from `LockInv`.
- `RecordsBoundedHolds`: the file never holds more than `maxRecords` records. What a
  call is about to write is bounded as well as the file (`BoundInv`), by lemmas on the
  cardinality of what `evictOldestRecords` keeps.
- `WriterQuarantinesCorruptHolds`: what a mutation moves aside never parsed.
- `DataInvariant`, and from it `NoLostUpdateHolds` and `FailureChangesNothingHolds`,
  on a readable file (`Spec`): a call about to write has read the current content
  (`Fresh`), and a call that has not yet decided its outcome has changed nothing
  (`Undecided`). Mutual exclusion is what keeps `Fresh` true while others run.
- `Refinement`: every step of the file registry is a step of `AtomicRegistry` or
  leaves it unchanged; the file is the abstract map, and the effective step is the
  one that writes it, or that finds nothing to write.

`CrossProcessLockProofs`:

- `LockTypes`, under any timing.
- `LockIsSafe` for `LockSafe`: a holder's directory is fresh and its own (`HeldFresh`);
  while the lock is stale one evictor at most is past the claim, and all that look at
  the lock have observed the same owner (`OneEvictor`); so an evictor that is about to
  remove the lock still sees the stale one (`Removing`).
- `ReplacementsSurvive` for `ReplacementSurvives`, from the same invariant.
- `LockIsALock` for `ImplementsDatabaseLock`: the holders are the processes from their
  `mkdir` to their release, and the lock is abandoned while there is a directory without
  a holder. Only four steps change that: the `mkdir` that finds no directory takes the
  lock, the release gives it back, a death abandons it, and the `rm` of an evictor takes
  it away. The last one needs the invariant: what that `rm` finds is the stale lock it
  has observed, and a stale lock is held by nobody.

`ExecutionProofs`:

- `QueueIsSafe` for `QueueSafe`. The Map knows only the last promise of the chain, so
  the invariant `Chained` says that the active calls of a process can be numbered along
  it: the lowest number is the one whose turn it is, the highest one is the Map entry.
- `QueueUsesLock` for `QueueUsesDatabaseLock`: between its acquisition and its release a
  writing call is the only one among all processes, whichever way its work ends.
- `ExecutorIsSafe` for `ExecutorSafe`: while the call is open every marker before the
  buffered partial line is captured (`Buffered`), and after an end of its own nothing
  more can arrive (`Over`).
- `ExecutorRunsScript` for `ExecutesScript`: a marker is written when its last piece
  leaves the script, and known when its update is over. A marker is captured only after
  it was written whole, and once; when the call settles with an end of the script's own
  the pipe is drained and no capture is open.

`AccessRunnerProofs`:

- `RunnerIsInductive`: at every await, what a preflight holds in its local variables is
  still true. Start times identify processes (`ProcessesTell`); a record, listed or in
  the registry, names only a process of its own operation, and under `QuickStarts` an
  eligible one is of a call that has ended (`RecordTells`); the process in hand is a
  user's, or that of the record in hand (`HandKnows`); and an eligible record that was
  listed is still to be visited, or in hand, or retired with its process gone, unless
  an error is reported (`Owes`). Other operations change none of this, because
  processes only end or start under ids that nobody is about to kill (`ProcsStep`).
- `PreflightsReap` for `RunnerInvariant`, without a hypothesis: the records are retired
  whatever failed, the processes are gone if nothing did.
- `PreflightKillsAreSafe` for `KillsAreSafe`.

`OperationProofs`:

- `RunningRecordsAreKept` for `GateSafe`: records past the threshold and a torn file
  aside, and as long as no gate's read and write overlapped a mutation, the file, what
  a mutation has read and what a gate plans to write all have the records of live
  operations (`GateInv`).
- `TrackedIsInductive`, and from it `LeftoversAreKnown` and `CleanupsAreSafe` for
  `LeftoversKnown` and `TrackedSafe`, both with exceptions for degraded inspections
  and for a pid that changed hands after the check: what each call knows of its target
  between its inspection and its kill (`CleanupKnows`, `OrphanKnows`), what a record
  can say at all (`RecordTells`), and what the run knows of its own Access
  (`RunKnows`). That the registry has one record per operation is part of
  `LeftoversKnown`: the calls that create one have none before (`CreatedOnce`).

`DatabaseWriteProofs`:

- `TransactionsAreSafe`, `LossNeedsOverlap` and `SweepsSpareYoung`: a copy in use lacks
  only what reached the binary after it was taken (`CopyCurrent`), success is reported
  by the commit alone (`ReportsLast`), and sweeps judge only what is overdue.
- `OkModulesArePersisted` and `ImportsAreSafe`: until the save the file is untouched;
  the journal has the original content of every imported module (`JournalTells`); a
  rollback has it for what is still to be undone, and the rest is intact
  (`RollbackKnows`). That the passes end is an argument on the cardinality of what is
  still pending. Reports with a save warning and a lock met by the save are left out of
  what the two promise.
- `RelinksAreSafe` for `RelinkSafe`: the walk of `resolveChain` exists and follows
  every path of links (`WalkFacts`, `WalkFollows`), it ends at the first hop at which
  one of its returns applies (`ChainFacts`), and a table is as it was inspected,
  relinked, removed or lost (`TableTells`). A link whose table is missing afterwards
  was left by the walk, which found no end, at a link of the same directory that is
  gone. A cycle of links after the call is one that was there before it
  (`CycleWasThere`). The inductions on the number of hops are arguments on the least
  counterexample (`LeastNumber`, from the well-foundedness of the naturals).

`InstallProofs`:

- `UpdatesAreHonest` and `PinsAreHeld`: an updater that overlapped no other is alone,
  what it has copied so far is its build (`CopiedSoFar`), and unless something broke the
  runtime is in one piece whenever nobody copies, and what an updater read still holds
  (`ReadIsCurrent`). A refresh from another package counts as broken.
- `UserTextIsKept` for `RolloutSafe`: a rollout that writes a file, or may write it
  back, has saved the user's text of it before (`HasSaved`), and what it remembers for
  the rollback is at most one mutation for each target it has reached (`Remembered`).
- `RolloutsAreHonest`: an undisturbed rollout is alone, remembers every file it touched
  as it was, and leaves the others as they were (`Undisturbed`).

`StartupSuppressionProofs`:

- `TypeCorrect`.
- `GivesBack` for `GivesBackWhatItTook`: while no session was killed and no
  restoration failed, startup code that is missing is owed by some session that is
  still active and remembers it (`Owed`).
- `OpensOnlySuppressed` for `LockedOpensAreQuiet`: without lock-free sessions the
  active session is the holder of the lock (`Alone`), and at its opening the startup
  code is out of the way (`Suppressed`).
- `RecoversAutoExec` for `AutoExecRecovered`: in a fault-free session AutoExec is
  either still to be suppressed, or remembered (`Taken`), or given back
  (`GivenBack`), and an idle database is intact (`IdleIntact`).

### 5.3 Only model-checked

- Liveness: `EveryCallSettles`, `WaiterServed`, `EveryCallReturns`,
  `EveryBlockerClears`, `EveryPartEnds`. Fairness and ENABLED are out of the prover's
  reach.
- The three disagreements, which are counterexamples.

## 6. Seen while modelling, outside the runs

- A lock-free reader that saw a damaged file may quarantine the valid file a writer
  has put there since.
- A read error other than a missing file counts as an empty registry, and the next
  write drops the records it could not read.
- The registry's health stays degraded after a quarantine.
- A registry lock whose holder died with its owner file written is never evicted;
  mutations then time out.
- A record retired as interrupted becomes a failed record without pid, and the next
  preflight uses such a record for a kill by command line.
- StartupForm is deleted before the sentinel that remembers it is written, so a
  kill in between loses it; a failed restoration loses it too, because the sentinel
  is removed all the same.
- The write gate rewrites the registry file without its lock: a mutation between its
  read and its write loses its record, and an operation running then is listed nowhere.
  Its marker half has no effect, because it does not strip the byte-order mark.
- The commit of a transaction does not compare the binary with the hash it took, so an
  edit made meanwhile is lost.
- An import whose save only warns completes as a success with every module `ok`, which
  the architecture document says and the comment "a module is `ok` only once its save
  succeeded" does not. A lock met by the save comes after some modules were saved, so
  that their rollback is in the session only.
- A chain of links of exactly five hops is not followed to its end, although the
  architecture document says "up to five hops": the limit is tested first and the link
  is led to its first target.
- A link whose chain ends nowhere, at a link that is not resolved, at a database that
  could not be read or past the hop limit, is led to its first target, although that
  target may be a link which the same call removes as unresolved, or loses: it then
  dangles, and is reported as relinked.
- The end of a tracked run takes the pid from the last reading of the marker alone: when
  that is torn, the pid the poll recorded is overwritten with null and Access leaks. A
  failed or degraded inspection does not count as survival either, so the record of a
  completed run is purged; and the reap does not verify its kill.
- The fallback of the process query reports the name `MSACCESS`, not `MSACCESS.EXE`: the
  explicit cleanup refuses such a process, the reap and the verification after a kill
  take it for gone. With a first inspection of that kind the gate of `force` passes and
  a running operation's Access may be killed.
- The explicit cleanup refuses an Access started by COM while its command line can be
  read, since that names no database. After the death of a host neither tool cleans its
  Access while the record says running.
- A user's edit between the reading and the writing of an instruction file is lost; a
  rollout that reads the file another has just emptied leaves the user's text only in
  the backup; a file that cannot be examined is overwritten without one.
- An update cut short after `package.json` leaves a runtime of two builds that the next
  update calls up to date and records as new. After a forced change of channel cut short
  there, that update spreads the other channel's bundle to the agents. A run that finds
  the runtime up to date gives the agents the skills of the package it is run from, also
  when that is another build than the installed one. `--channel` on a
  runtime without install state is recorded although nothing of it was installed.

## 7. Not modelled

Text processing (form IR, lint, VBA comparison, SQL classification), transports,
schemas, path resolution, downloads and telemetry: they compute or copy data and keep
no state that interleavings could harm. The write policy is one synchronous decision,
and the bulk import a loop over import calls. The COM actions of the scripts are
behaviour of Access. Formatting, logging and sanitising are left out everywhere. These
parts are most of the repository's lines, which is why the models cover a small share
of them.

## 8. Plan

Done are the modules of section 2 and the theorems of section 5. What is left, in this
order:

1. The bulk import as a loop of calls of `VbaImport`.
2. The lock-free readers of the registry together with the quarantine (section 6), as a
   property of `FileRegistry` that says what such a reader may lose.
