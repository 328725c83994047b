----------------------------- MODULE AccessRunner -----------------------------
(***************************************************************************)
(* AccessPowerShellRunner.run against one database: an operation waits for *)
(* its turn, cleans up after its predecessors (AccessPreflight), records   *)
(* itself as starting, lets PowerShell open Access, records the process it *)
(* is told about, and records the outcome.                                 *)
(*                                                                         *)
(* Operations of one host process run one at a time, and the operations    *)
(* that may write hold the cross-process lock; a read-only operation does  *)
(* not (run takes the read variant of the lock), so its preflight runs     *)
(* beside another process's operation.  ExecutionQueue is the module of    *)
(* that queue; here it is one guarded step.                                *)
(***************************************************************************)
EXTENDS AccessPreflight

CONSTANTS
    Hosts,        \* Node processes
    HostOf,       \* the process an operation runs in
    ReadOnly,     \* operations on the read-only path
    Mortal,       \* processes that may die
    QuickKills,   \* no pid is reused between a check and the kill it allows
    QuickStarts,  \* Access reports its pid within DEFAULT_STARTING_STALE_MS
    LateMarkers   \* stderr may deliver the marker after the timeout's kill

ASSUME HostAssumption ==
    HostOf \in [Ops -> Hosts] /\ ReadOnly \subseteq Ops /\ Mortal \subseteq Hosts
ASSUME SwitchAssumption == {QuickKills, QuickStarts, LateMarkers} \subseteq BOOLEAN

VARIABLES
    lock,       \* the operation that holds the cross-process lock
    mine,       \* pid and start time in the local variable "record"
    outcome,    \* the PowerShellExecutionResult
    late        \* operations whose marker is still to be delivered, or whose
                \* PowerShell has outlived its host and not opened Access yet

vars == <<procs, starts, rec, aged, faults, pc, pre, lock, mine, outcome, late>>
runner == <<lock, mine, outcome, late>>

Outcomes == {"exit0", "failed", "timedOut", "aborted"}
RunnerPoints == {"queued", "create", "spawned", "opened", "running",
                 "workerPid", "finalize", "returned", "dead"}
Ended == {"returned", "dead"}
Active(o) == pc[o] \notin {"queued"} \cup Ended

Owner == [pid : Pids \cup {Nothing}, start : Times \cup {Nothing}]
NoOwner == [pid |-> Nothing, start |-> Nothing]

TypeOK ==
    /\ procs \in [Pids -> Process \cup {Nothing}]
    /\ starts \in 0..MaxStarts
    /\ rec \in [Ops -> Record \cup {Nothing}]
    /\ aged \subseteq Ops
    /\ faults \in 0..MaxFaults
    /\ pc \in [Ops -> PreflightPoints \cup RunnerPoints]
    /\ pre \in [Ops -> Locals]
    /\ lock \in Ops \cup {Nothing}
    /\ mine \in [Ops -> Owner]
    /\ outcome \in [Ops -> Outcomes \cup {Nothing}]
    /\ late \subseteq Ops

Init ==
    /\ procs = [p \in Pids |-> Nothing]
    /\ starts = 0
    /\ rec = [o \in Ops |-> Nothing]
    /\ aged = {}
    /\ faults = 0
    /\ pc = [o \in Ops |-> "queued"]
    /\ pre = [o \in Ops |-> NoLocals]
    /\ lock = Nothing
    /\ mine = [o \in Ops |-> NoOwner]
    /\ outcome = [o \in Ops |-> Nothing]
    /\ late = {}

\* The lock is released, and the call settles, when the locked function ends.
Return(o) ==
    /\ Goto(o, "returned")
    /\ lock' = IF lock = o THEN Nothing ELSE lock
    /\ Set(o, NoLocals)
    /\ mine' = [mine EXCEPT ![o] = NoOwner]
    /\ outcome' = [outcome EXCEPT ![o] = Nothing]

\* The calls of its process before it are over.
HasTurn(o) ==
    /\ pc[o] = "queued"
    /\ \A i \in Ops : HostOf[i] = HostOf[o] => pc[i] # "dead" /\ ~Active(i)

\* run: the operation gets its turn.
Turn(o) ==
    /\ HasTurn(o)
    /\ IF o \in ReadOnly THEN UNCHANGED lock
                         ELSE lock = Nothing /\ lock' = o
    /\ Goto(o, "preflight")
    /\ UNCHANGED <<world, rec, faults, pre, mine, outcome, late>>

\* The lock is not got in time, or its acquisition throws.
LockRefused(o) ==
    /\ HasTurn(o) /\ o \notin ReadOnly
    /\ Return(o)
    /\ UNCHANGED <<world, rec, faults, late>>

\* The call ends before it has a record: it was aborted (looked at before and
\* after each await), its query preflight failed, or create threw.
Reject(o) ==
    /\ pc[o] \in {"preflight", "create"}
    /\ Return(o)
    /\ UNCHANGED <<world, rec, faults, late>>

Create(o) ==
    /\ pc[o] = "create"
    /\ rec' = [rec EXCEPT ![o] = [status |-> "starting", pid |-> Nothing,
                                  start |-> Nothing]]
    /\ Goto(o, "spawned")
    /\ Set(o, NoLocals)
    /\ UNCHANGED <<world, faults, runner>>

\* No process comes or goes under a pid that was checked and is being killed.
Quiet(p) ==
    QuickKills => \A o \in Ops : pc[o] \in KillPoints => pre[o].target.pid # p

Started(p, by, named, window) ==
    /\ starts < MaxStarts /\ procs[p] = Nothing /\ Quiet(p)
    /\ starts' = starts + 1
    /\ procs' = [procs EXCEPT ![p] = [by |-> by, start |-> starts + 1,
                                      named |-> named, window |-> window]]

\* PowerShell activates Access through COM.
OpenAccess(o) ==
    /\ pc[o] = "spawned"
    /\ \E p \in Pids : Started(p, o, FALSE, "hidden")
    /\ Goto(o, "opened")
    /\ UNCHANGED <<rec, aged, faults, pre, runner>>

\* The pid under which operation o's Access runs, if it still does.
AccessOf(o) == {p \in Pids : procs[p] # Nothing /\ procs[p].by = o}

\* The marker names the process; its start time is null when Get-Process did
\* not find it.
Markers(o) == {[pid |-> p, start |-> procs[p].start] : p \in AccessOf(o)}
StartlessMarkers(o) == {[pid |-> p, start |-> Nothing] : p \in AccessOf(o)}

\* The update of onAccessProcessCaptured; its result replaces the local record
\* unless the registry no longer has it.
StoreOwner(o, m) == rec' = Updated(o, "running", m.pid, m.start)

RecordOwner(o, m) ==
    /\ StoreOwner(o, m)
    /\ mine' = IF rec[o] = Nothing THEN mine ELSE [mine EXCEPT ![o] = m]

\* onAccessProcessCaptured, while PowerShell runs; an update that throws
\* becomes a diagnostic.
Capture(o) ==
    /\ pc[o] = "opened"
    /\ Goto(o, "running")
    /\ \/ \E m \in Markers(o) : RecordOwner(o, m) /\ UNCHANGED faults
       \/ Fault /\ \E m \in StartlessMarkers(o) : RecordOwner(o, m)
       \/ Fault /\ UNCHANGED <<rec, mine>>
    /\ UNCHANGED <<world, pre, lock, outcome, late>>

\* The executor's promise resolves.  A script that ends by itself closes its
\* Access, unless it failed before it could; PowerShell killed by the timeout
\* leaves it behind, as does a cancelled read that never opened one.  The
\* marker may be missing, or come after a timeout.
Execution(o) ==
    /\ pc[o] \in {"spawned", "opened", "running"}
    /\ \E r \in Outcomes :
        /\ r = "aborted" => pc[o] = "spawned"
        /\ outcome' = [outcome EXCEPT ![o] = r]
        /\ procs' \in {[p \in Pids |-> IF p \in AccessOf(o) /\ Quiet(p)
                                       THEN Nothing ELSE procs[p]]}
                      \cup (IF r = "exit0" THEN {} ELSE {procs})
        /\ late' = IF LateMarkers /\ r = "timedOut" /\ pc[o] = "opened"
                   THEN late \cup {o} ELSE late
    /\ Goto(o, "workerPid")
    /\ UNCHANGED <<starts, aged, rec, faults, pre, lock, mine>>

\* The update that records the PowerShell worker's pid refreshes the local
\* record from the registry; a failure is only a diagnostic.
RecordWorkerPid(o) ==
    /\ pc[o] = "workerPid"
    /\ Goto(o, "finalize")
    /\ \/ /\ mine' = IF rec[o] = Nothing THEN mine
                     ELSE [mine EXCEPT ![o] = [pid |-> rec[o].pid, start |-> rec[o].start]]
          /\ UNCHANGED faults
       \/ Fault /\ UNCHANGED mine
    /\ UNCHANGED <<world, rec, pre, lock, outcome, late>>

FinalStatus(o) ==
    IF outcome[o] = "aborted" THEN "failed"
    ELSE IF outcome[o] = "timedOut" THEN "timed_out"
    ELSE IF mine[o].pid = Nothing THEN "pid_unknown"
    ELSE IF outcome[o] = "exit0" THEN "completed" ELSE "failed"

\* updateOperationFromExecution.  A throw here rejects the whole call.
updateOperationFromExecution(o) ==
    /\ pc[o] = "finalize"
    /\ \/ /\ rec' = Updated(o, FinalStatus(o), mine[o].pid, mine[o].start)
          /\ UNCHANGED faults
       \/ Fault /\ UNCHANGED rec
    /\ Return(o)
    /\ UNCHANGED <<world, late>>

\* stderr data that the pipe still held when the timeout's kill had settled the
\* call: the marker is captured after the outcome was recorded.
LateCapture(o) ==
    /\ o \in late /\ pc[o] = "returned"
    /\ late' = late \ {o}
    /\ \E m \in Markers(o) : StoreOwner(o, m)
    /\ UNCHANGED <<world, faults, pc, pre, lock, mine, outcome>>

\* A host dies: its operations end where they are; the cross-process lock is
\* evicted.  Access and the PowerShell that drives it live on, and a PowerShell
\* that was just spawned may open Access afterwards.
Crash(h) ==
    /\ h \in Mortal
    /\ \E o \in Ops : HostOf[o] = h /\ Active(o)
    /\ pc' = [o \in Ops |-> IF HostOf[o] = h /\ Active(o) THEN "dead" ELSE pc[o]]
    /\ pre' = [o \in Ops |-> IF HostOf[o] = h THEN NoLocals ELSE pre[o]]
    /\ lock' = IF lock # Nothing /\ HostOf[lock] = h THEN Nothing ELSE lock
    /\ late' = (late \ {o \in Ops : HostOf[o] = h})
               \cup {o \in Ops : HostOf[o] = h /\ pc[o] = "spawned"}
    /\ mine' = [o \in Ops |-> IF HostOf[o] = h THEN NoOwner ELSE mine[o]]
    /\ outcome' = [o \in Ops |-> IF HostOf[o] = h THEN Nothing ELSE outcome[o]]
    /\ UNCHANGED <<world, rec, faults>>

LateOpen(o) ==
    /\ o \in late /\ pc[o] = "dead"
    /\ late' = late \ {o}
    /\ \E p \in Pids : Started(p, o, FALSE, "hidden")
    /\ UNCHANGED <<rec, aged, faults, pc, pre, lock, mine, outcome>>

\* Somebody opens Access on the database, or any other program starts.
OtherStarts(p) ==
    /\ \/ \E w \in {"hidden", "shown"} : Started(p, "user", TRUE, w)
       \/ Started(p, "other", FALSE, "shown")
    /\ UNCHANGED <<rec, aged, faults, pc, pre, runner>>

ProcessExits(p) ==
    /\ procs[p] # Nothing /\ Quiet(p)
    /\ procs' = [procs EXCEPT ![p] = Nothing]
    /\ UNCHANGED <<starts, aged, rec, faults, pc, pre, runner>>

\* Time passes: a creation stamp leaves the grace window.
Age(o) ==
    /\ rec[o] # Nothing /\ rec[o].status = "starting" /\ o \notin aged
    /\ QuickStarts => pc[o] \in Ended
    /\ aged' = aged \cup {o}
    /\ UNCHANGED <<procs, starts, rec, faults, pc, pre, runner>>

Run(o) ==
    \/ Preflight(o) /\ UNCHANGED runner
    \/ Create(o) \/ Capture(o) \/ Execution(o)
    \/ RecordWorkerPid(o) \/ updateOperationFromExecution(o)

Next ==
    \/ \E o \in Ops : \/ Turn(o) \/ LockRefused(o) \/ Run(o)
                      \/ Reject(o) \/ OpenAccess(o) \/ LateCapture(o) \/ LateOpen(o) \/ Age(o)
    \/ \E h \in Hosts : Crash(h)
    \/ \E p \in Pids : OtherStarts(p) \/ ProcessExits(p)

Spec == Init /\ [][Next]_vars

\* Fairness: every await of a live call settles (processes are inspected and
\* killed under withTimeout, the executor under its own timeout, the registry
\* under its lock timeout), and the lock queue serves in turn.
LiveSpec == Spec /\ \A o \in Ops : WF_vars(Run(o)) /\ SF_vars(Turn(o))

-----------------------------------------------------------------------------
\* A kill that ends a process, by operation o's preflight.
Kills(o) ==
    /\ pc[o] \in KillPoints /\ pc'[o] # pc[o]
    /\ procs'[pre[o].target.pid] # procs[pre[o].target.pid]
Victim(o) == procs[pre[o].target.pid]

(***************************************************************************)
(* The process a preflight kills is the one it decided about: the one with *)
(* the recorded start time, or the very process of its scan, whatever was  *)
(* started and ended under that pid since the record or the scan.          *)
(***************************************************************************)
KillsWhatItDecided ==
    [][\A o \in Ops : Kills(o) => Victim(o).start = pre[o].target.start]_vars

(***************************************************************************)
(* A preflight never kills the Access of an operation that is still at     *)
(* work, although it runs beside the operations of other processes and     *)
(* decides from a list of records that they keep changing.                 *)
(***************************************************************************)
LiveOperationSafe ==
    [][\A o, i \in Ops : Kills(o) /\ Victim(o).by = i
                            => pc[i] \notin {"opened", "running"}]_vars

\* What a preflight may kill: the very process it decided on, and never the
\* Access of an operation that is still at work.
KillsAreSafe == KillsWhatItDecided /\ LiveOperationSafe

(***************************************************************************)
(* A preflight that reports no error has retired every eligible record it  *)
(* listed, and the Access process each of them owned is gone, unless some  *)
(* call failed: one that answers nothing is not told from one that finds   *)
(* nothing.                                                                *)
(***************************************************************************)
QuietPreflightReaps ==
    \A o, i \in Ops :
        LET owed == pre[o].owed[i] IN
        pc[o] = "create" /\ ~pre[o].errors /\ owed # Nothing /\ pc[i] \in Ended =>
            /\ rec[i] # Nothing => rec[i].status \notin ELIGIBLE_STATUSES
            /\ isOwned(owed) /\ faults = 0 =>
                 \A p \in Pids : procs[p] # Nothing =>
                    <<p, procs[p].start>> # <<owed.pid, owed.start>>

\* The records stay within what the registry can hold, and a preflight that
\* reports no error has done its work.
RunnerInvariant == TypeOK /\ QuietPreflightReaps

(***************************************************************************)
(* Every call that is given its turn settles, unless its process dies.     *)
(***************************************************************************)
EveryCallReturns == \A o \in Ops : pc[o] = "preflight" ~> pc[o] \in Ended

(***************************************************************************)
(* README.md on the safety model: matching by process name, database path  *)
(* or command line alone "is not ownership and must report/block instead   *)
(* of terminating Access".  So a killed process is one that an operation   *)
(* started.                                                                *)
(***************************************************************************)
KillsOnlyOwned ==
    [][\A o \in Ops : Kills(o) => Victim(o).by \in Ops]_vars
=============================================================================
