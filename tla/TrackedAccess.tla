----------------------------- MODULE TrackedAccess -----------------------------
(***************************************************************************)
(* The Access process of one tracked VBA manager run, seen through its pid *)
(* (adapters/vba-sync/vba-sync-adapter.ts), and the two tools that may     *)
(* kill it from another session: cleanup_access_operation                  *)
(* (core/operations/access-operation-cleanup.ts) and                       *)
(* access_force_cleanup_orphaned (core/operations/access-orphan-cleanup.ts) *)
(*                                                                         *)
(* The run learns the pid from a marker file that PowerShell writes, polls *)
(* it into the registry, and reaps that Access when it ends.  One pid is   *)
(* modelled: the system may give it to another process at any time, and    *)
(* every await of a call is a step.  The registry is used as               *)
(* AtomicRegistry specifies it; a call may also fail.                      *)
(***************************************************************************)
EXTENDS Naturals, Sequences

CONSTANTS
    Cleanups,          \* calls of cleanup_access_operation
    Orphans,           \* calls of access_force_cleanup_orphaned for the pid
    TrackedRun,        \* the operation id of the run
    MaxReuses,         \* bound on the other processes that get the pid
    MaxTrackedFaults   \* bound on failed calls and degraded inspections

ASSUME TrackedAssumption ==
    /\ TrackedRun \notin Orphans /\ Cleanups \cap Orphans = {}
    /\ MaxReuses \in Nat /\ MaxTrackedFaults \in Nat

VARIABLES
    occupant,    \* the process that has the pid
    reuses,      \* other processes that got it so far
    registry,    \* the records, the most recently updated last
    marker,      \* what the run's marker file tells
    runAt,       \* where the run is
    poll,        \* the marker poll: "idle" or about to write
    polled,      \* what the poll read in the marker
    outcome,     \* the status the run will record
    opened,      \* the script has started its Access
    reap,        \* the RunOwnedAccessReapResult, and what it was based on
    call,        \* the local state of each cleanup call
    trackedFaults   \* of the faults allowed, those that have happened

trackedVars == <<occupant, reuses, registry, marker, runAt, poll, polled,
                 outcome, opened, reap, call, trackedFaults>>
world == <<occupant, reuses>>
runVars == <<marker, runAt, poll, polled, outcome, opened, reap>>

-----------------------------------------------------------------------------
(* Processes and what an inspection tells of them.                         *)

\* own is the run's Access.  twin is another session's, started in the same
\* second; later is another session's too.  named is a headless Access with the
\* database on its command line, shown has a window as well.
ProcessInfo(p) ==
    CASE p = "own"   -> [name |-> "MSACCESS.EXE", second |-> 1, line |-> "bare", headless |-> TRUE]
      [] p = "twin"  -> [name |-> "MSACCESS.EXE", second |-> 1, line |-> "bare", headless |-> TRUE]
      [] p = "later" -> [name |-> "MSACCESS.EXE", second |-> 3, line |-> "bare", headless |-> TRUE]
      [] p = "named" -> [name |-> "MSACCESS.EXE", second |-> 2, line |-> "path", headless |-> TRUE]
      [] p = "shown" -> [name |-> "MSACCESS.EXE", second |-> 3, line |-> "path", headless |-> FALSE]
      [] OTHER       -> [name |-> "none", second |-> 0, line |-> "none", headless |-> FALSE]

Strangers == {"twin", "later", "named", "shown", "other"}

NoProcess == ProcessInfo("gone")

IsAccess(info) == info.name = "MSACCESS.EXE"

\* What may be missing: the command line where the system hides it, and more
\* when the query is slow or unreadable.  The Get-Process fallback reports the
\* name without its extension, so the process passes for another program.
Complete(p) == {ProcessInfo(p), [ProcessInfo(p) EXCEPT !.line = "none"]}
Degraded(p) == {NoProcess, [ProcessInfo(p) EXCEPT !.name = "MSACCESS", !.line = "none"],
                [ProcessInfo(p) EXCEPT !.second = 0]}
Infos == UNION {Complete(p) \cup Degraded(p) : p \in Strangers \cup {"own"}}

TrackedFault == trackedFaults < MaxTrackedFaults /\ trackedFaults' = trackedFaults + 1

\* getProcess of WindowsMsAccessProcessInspector, which looks for an Access
\* only.  clear: the answer is not degraded.
GetProcess(info, clear) ==
    IF IsAccess(ProcessInfo(occupant))
    THEN \/ clear /\ info \in Complete(occupant) /\ UNCHANGED trackedFaults
         \/ ~clear /\ info \in Degraded(occupant) /\ TrackedFault
    ELSE clear /\ info = NoProcess /\ UNCHANGED trackedFaults

\* sameProcessStartTime: whole seconds, and never for an unknown time.
SameProcessStartTime(seconds, start) == seconds # 0 /\ seconds = start

\* kill of WindowsProcessKiller: whoever has the pid dies, or survives a call
\* that reports success; or the call fails, on a free pid always.
Kill(returns) ==
    \/ returns /\ occupant # "gone" /\ occupant' = "gone" /\ UNCHANGED <<reuses, trackedFaults>>
    \/ returns /\ occupant # "gone" /\ UNCHANGED world /\ TrackedFault
    \/ ~returns /\ occupant = "gone" /\ UNCHANGED <<world, trackedFaults>>
    \/ ~returns /\ occupant # "gone" /\ occupant' \in {occupant, "gone"}
       /\ UNCHANGED reuses /\ TrackedFault

-----------------------------------------------------------------------------
(* The registry.                                                           *)

LiveStatuses == {"starting", "running"}
EligibleStatuses == {"timed_out", "failed", "cleanup_pending"}

OperationRecord == [op : Orphans \cup {TrackedRun}, status : LiveStatuses \cup EligibleStatuses,
                    pid : BOOLEAN, start : 0..3, line : {"none", "bare", "path"}]

Records == {registry[i] : i \in DOMAIN registry}
RecordsOf(op) == {r \in Records : r.op = op}

\* The registry without the record of op; there is one record per operation.
Others(op) ==
    LET i == CHOOSE i \in DOMAIN registry : registry[i].op = op
    IN  SubSeq(registry, 1, i - 1) \o SubSeq(registry, i + 1, Len(registry))

\* update: merges into a record that is still there; completed and cleaned
\* records are purged.
UpdatedRecord(op, status, pid, start) ==
    IF RecordsOf(op) = {} THEN registry
    ELSE IF status \in {"completed", "cleaned"} THEN Others(op)
    ELSE Append(Others(op), [op |-> op, status |-> status, pid |-> pid, start |-> start,
                             line |-> (CHOOSE r \in RecordsOf(op) : TRUE).line])

-----------------------------------------------------------------------------
(* The run.                                                                *)

NoMarker == [pid |-> FALSE, start |-> 0]
Markers == {NoMarker, [pid |-> TRUE, start |-> 0], [pid |-> TRUE, start |-> 1]}

RunGoto(to) == runAt' = to

\* The run is over: its local variables are gone and its marker is not read again.
RunOver(how) ==
    /\ RunGoto(how) /\ marker' = NoMarker /\ outcome' = "completed"

\* startTrackedOperation.  transitionToRunning, which follows, finds no marker
\* before PowerShell has started and does nothing.
StartTracked ==
    /\ runAt = "idle"
    /\ \/ /\ registry' = Append(registry, [op |-> TrackedRun, status |-> "starting",
                                           pid |-> FALSE, start |-> 0, line |-> "none"])
          /\ RunGoto("executing") /\ UNCHANGED trackedFaults
       \/ TrackedFault /\ RunGoto("ended") /\ UNCHANGED registry
    /\ UNCHANGED <<world, marker, poll, polled, outcome, opened, reap, call>>

\* Open-CanonicalAccess: the script starts its Access, once.
OpenAccess ==
    /\ runAt = "executing" /\ ~opened /\ occupant = "gone"
    /\ occupant' = "own" /\ opened' = TRUE
    /\ UNCHANGED <<reuses, registry, marker, runAt, poll, polled, outcome, reap, call, trackedFaults>>

\* Write-DysflowOperationMarker; the start time is missing when Get-Process fails.
WriteMarker ==
    /\ runAt = "executing" /\ occupant = "own" /\ marker = NoMarker
    /\ \/ marker' = [pid |-> TRUE, start |-> 1] /\ UNCHANGED trackedFaults
       \/ marker' = [pid |-> TRUE, start |-> 0] /\ TrackedFault
    /\ UNCHANGED <<world, registry, runAt, poll, polled, outcome, opened, reap, call>>

\* watchOperationMarker reads the marker and, unless the watch was stopped
\* meanwhile, goes on to an update; new test progress makes it write again
\* although the pid has not changed.
PollRead ==
    /\ runAt = "executing" /\ poll = "idle" /\ marker # NoMarker
    /\ poll' = "write" /\ polled' = marker
    /\ UNCHANGED <<world, registry, marker, runAt, outcome, opened, reap, call, trackedFaults>>

\* A failed update is logged.
PollWrite ==
    /\ poll = "write" /\ poll' = "idle" /\ polled' = NoMarker
    /\ \/ /\ registry' = UpdatedRecord(TrackedRun, "running", TRUE, polled.start)
          /\ UNCHANGED trackedFaults
       \/ TrackedFault /\ UNCHANGED registry
    /\ UNCHANGED <<world, marker, runAt, outcome, opened, reap, call>>

\* The executor returns or throws.  A tree killed by a timeout may have been
\* rewriting the marker, which then cannot be parsed.
ExecutorEnds ==
    /\ runAt = "executing"
    /\ RunGoto("stopping")
    /\ outcome' \in {"completed", "failed", "timed_out"}
    /\ \/ UNCHANGED <<marker, trackedFaults>>
       \/ outcome' = "timed_out" /\ marker # NoMarker /\ marker' = NoMarker /\ TrackedFault
    /\ UNCHANGED <<world, registry, poll, polled, opened, reap, call>>

\* stopWatching waits for the poll in flight.
StopWatching ==
    /\ runAt = "stopping" /\ poll = "idle"
    /\ RunGoto("reaping")
    /\ UNCHANGED <<world, registry, marker, poll, polled, outcome, opened, reap, call, trackedFaults>>

NoReap == [result |-> "none", clear |-> TRUE, target |-> "gone"]

\* reapRunOwnedAccess up to the kill.
ReapInspect ==
    /\ runAt = "reaping"
    /\ \/ /\ ~marker.pid /\ reap' = [NoReap EXCEPT !.result = "not_recorded"]
          /\ RunGoto("finishing") /\ UNCHANGED trackedFaults
       \/ /\ marker.pid
          /\ \/ /\ TrackedFault /\ RunGoto("finishing")
                /\ reap' = [NoReap EXCEPT !.result = "inspect_failed"]
             \/ \E info \in Infos, clear \in BOOLEAN :
                  LET exited == \/ ~IsAccess(info)
                                \/ marker.start # 0 /\ ~SameProcessStartTime(info.second, marker.start)
                  IN /\ GetProcess(info, clear)
                     /\ reap' = [clear |-> clear, target |-> occupant,
                                 result |-> IF exited THEN "exited"
                                            ELSE IF marker.start = 0 THEN "refused" ELSE "none"]
                     /\ RunGoto(IF exited \/ marker.start = 0 THEN "finishing" ELSE "killing")
    /\ UNCHANGED <<world, registry, marker, poll, polled, outcome, opened, call>>

ReapKill ==
    /\ runAt = "killing"
    /\ \E returns \in BOOLEAN :
         Kill(returns) /\ reap' = [reap EXCEPT !.result = IF returns THEN "killed" ELSE "kill_failed"]
    /\ RunGoto("finishing")
    /\ UNCHANGED <<registry, marker, poll, polled, outcome, opened, call>>

\* The rest of finishTrackedOperation.  What the marker does not tell is taken
\* from the record of startTrackedOperation, which knows nothing.
FinishTracked ==
    /\ runAt = "finishing" /\ RunOver("ended")
    /\ \/ /\ registry' = UpdatedRecord(TrackedRun,
                 IF outcome = "completed" /\ reap.result \in {"kill_failed", "refused"}
                 THEN "cleanup_pending" ELSE outcome, marker.pid, marker.start)
          /\ UNCHANGED trackedFaults
       \/ TrackedFault /\ UNCHANGED registry
    /\ reap' = [reap EXCEPT !.target = "gone"]
    /\ UNCHANGED <<world, poll, polled, opened, call>>

HostDies ==
    /\ runAt \notin {"idle", "ended", "dead"}
    /\ RunOver("dead") /\ reap' = NoReap
    /\ poll' = "idle" /\ polled' = NoMarker
    /\ UNCHANGED <<world, registry, opened, call, trackedFaults>>

-----------------------------------------------------------------------------
(* cleanup_access_operation.                                               *)

NoCall == [at |-> "idle", op |-> TrackedRun, start |-> 0, line |-> "none",
           target |-> "none", clear |-> TRUE]

\* A call that has returned or thrown keeps no local variables.
Becomes(c, locals) ==
    call' = [call EXCEPT ![c] =
        CASE locals.at \in {"failed", "retired", "killed"} -> [NoCall EXCEPT !.at = locals.at]
          [] locals.at = "cleaned" -> [NoCall EXCEPT !.at = "cleaned", !.op = locals.op,
                                                     !.clear = locals.clear]
          [] OTHER -> locals]
CallGoto(c, to) == Becomes(c, [call[c] EXCEPT !.at = to])
Fails(c) == CallGoto(c, "failed")

\* Mutant of CleanupRead: a running operation is not spared.
CleanupReadUngated(c, op, force) ==
    /\ call[c].at = "idle"
    /\ \E r \in RecordsOf(op) :
         Becomes(c, [NoCall EXCEPT !.op = op, !.start = r.start, !.line = r.line,
                                   !.at = IF ~r.pid THEN "retire" ELSE "inspect"])
    /\ UNCHANGED <<world, registry, runVars, trackedFaults>>

\* cleanup up to its first inspection.  A record of another database is refused
\* like one that is not there.  stale: a starting record is past its grace.
CleanupRead(c, op, force) ==
    /\ call[c].at = "idle"
    /\ IF RecordsOf(op) = {} THEN Fails(c)
       ELSE \E r \in RecordsOf(op), stale \in BOOLEAN :
            Becomes(c, [NoCall EXCEPT !.op = op, !.start = r.start, !.line = r.line,
               !.at = IF r.status = "starting" /\ ~r.pid /\ r.start = 0 /\ stale THEN "retire"
                      ELSE IF ~r.pid \/ r.start = 0
                           THEN IF force THEN "retire" ELSE "failed"
                      ELSE IF force /\ r.status = "running" THEN "gate"
                      ELSE IF ~force /\ r.status \notin EligibleStatuses THEN "failed"
                      ELSE "inspect"])
    /\ UNCHANGED <<world, registry, runVars, trackedFaults>>

\* #620: force does not reach a running operation whose process is alive.
CleanupGate(c) ==
    /\ call[c].at = "gate"
    /\ \/ \E info \in Infos, clear \in BOOLEAN :
            /\ GetProcess(info, clear)
            /\ Becomes(c, [call[c] EXCEPT !.clear = clear,
                  !.at = IF IsAccess(info) /\ SameProcessStartTime(info.second, call[c].start)
                         THEN "failed" ELSE "inspect"])
       \/ TrackedFault /\ Fails(c)
    /\ UNCHANGED <<world, registry, runVars>>

\* The process must be the recorded one, and a command line that is known must
\* name the database.
CleanupInspect(c) ==
    /\ call[c].at = "inspect"
    /\ \/ \E info \in Infos, clear \in BOOLEAN :
            LET line == IF info.line = "none" THEN call[c].line ELSE info.line
            IN /\ GetProcess(info, clear)
               /\ Becomes(c, [call[c] EXCEPT !.clear = @ /\ clear, !.target = occupant,
                     !.at = IF info = NoProcess THEN "mark"
                            ELSE IF /\ IsAccess(info)
                                    /\ SameProcessStartTime(info.second, call[c].start)
                                    /\ line # "bare"
                            THEN "kill" ELSE "failed"])
       \/ TrackedFault /\ Fails(c)
    /\ UNCHANGED <<world, registry, runVars>>

\* Mutant of CleanupKill: the kill is believed.
CleanupKillTrusted(c) ==
    /\ call[c].at = "kill"
    /\ \E returns \in BOOLEAN : Kill(returns) /\ CallGoto(c, IF returns THEN "mark" ELSE "failed")
    /\ UNCHANGED <<registry, runVars>>

CleanupKill(c) ==
    /\ call[c].at = "kill"
    /\ \E returns \in BOOLEAN : Kill(returns) /\ CallGoto(c, IF returns THEN "verify" ELSE "failed")
    /\ UNCHANGED <<registry, runVars>>

\* #1016: the pid must not be an Access any more.
CleanupVerify(c) ==
    /\ call[c].at = "verify"
    /\ \/ \E info \in Infos, clear \in BOOLEAN :
            /\ GetProcess(info, clear)
            /\ Becomes(c, [call[c] EXCEPT !.clear = @ /\ clear,
                                          !.at = IF IsAccess(info) THEN "failed" ELSE "mark"])
       \/ TrackedFault /\ Fails(c)
    /\ UNCHANGED <<world, registry, runVars>>

CleanupMark(c) ==
    /\ call[c].at = "mark"
    /\ \/ /\ registry' = UpdatedRecord(call[c].op, "cleaned", FALSE, 0)
          /\ CallGoto(c, "cleaned") /\ UNCHANGED trackedFaults
       \/ TrackedFault /\ Fails(c) /\ UNCHANGED registry
    /\ UNCHANGED <<world, runVars>>

\* The scan of retireUnownedOperation: refused when a scanned Access names the
\* database; a scan that fails is only a warning.
CleanupRetire(c) ==
    /\ call[c].at = "retire"
    /\ \/ /\ ProcessInfo(occupant).line = "path"
          /\ Fails(c) /\ UNCHANGED trackedFaults
       \/ /\ \/ ProcessInfo(occupant).line # "path" /\ UNCHANGED trackedFaults
             \/ ProcessInfo(occupant).line = "path" /\ TrackedFault
          /\ CallGoto(c, "unlist")
    /\ UNCHANGED <<world, registry, runVars>>

\* Its update, an await later.
CleanupUnlist(c) ==
    /\ call[c].at = "unlist"
    /\ \/ /\ registry' = UpdatedRecord(call[c].op, "cleaned", FALSE, 0)
          /\ CallGoto(c, "retired") /\ UNCHANGED trackedFaults
       \/ TrackedFault /\ Fails(c) /\ UNCHANGED registry
    /\ UNCHANGED <<world, runVars>>

-----------------------------------------------------------------------------
(* access_force_cleanup_orphaned, for the pid.                             *)

\* cleanupOrphan up to the window test.
OrphanInspect(c) ==
    /\ call[c].at = "idle"
    /\ \/ \E info \in Infos, clear \in BOOLEAN :
            /\ GetProcess(info, clear)
            /\ Becomes(c, [call[c] EXCEPT !.target = occupant, !.clear = clear,
                  !.start = info.second, !.line = info.line,
                  !.at = IF IsAccess(info) /\ info.headless THEN "attribute" ELSE "failed"])
       \/ TrackedFault /\ Fails(c)
    /\ UNCHANGED <<world, registry, runVars>>

\* isPidOwnedByLiveOperation and attributeAccessProcess: the command line names
\* the database, or the latest record of the pid saw this very process.
Attributed(second, line) ==
    /\ \A r \in Records : r.pid => r.status \notin LiveStatuses
    /\ \/ line = "path"
       \/ \E i \in DOMAIN registry :
            /\ registry[i].pid /\ \A j \in DOMAIN registry : j > i => ~registry[j].pid
            /\ SameProcessStartTime(second, registry[i].start)

OrphanAttribute(c) ==
    /\ call[c].at = "attribute"
    /\ \/ /\ CallGoto(c, IF Attributed(call[c].start, call[c].line) THEN "create" ELSE "failed")
          /\ UNCHANGED trackedFaults
       \/ TrackedFault /\ Fails(c)
    /\ UNCHANGED <<world, registry, runVars>>

\* The synthetic record is written before the kill.
OrphanCreate(c) ==
    /\ call[c].at = "create"
    /\ \/ /\ registry' = Append(registry, [op |-> c, status |-> "cleanup_pending", pid |-> TRUE,
                                           start |-> call[c].start, line |-> call[c].line])
          /\ CallGoto(c, "kill") /\ UNCHANGED trackedFaults
       \/ TrackedFault /\ Fails(c) /\ UNCHANGED registry
    /\ UNCHANGED <<world, runVars>>

OrphanKill(c) ==
    /\ call[c].at = "kill"
    /\ \E returns \in BOOLEAN : Kill(returns) /\ CallGoto(c, IF returns THEN "mark" ELSE "failed")
    /\ UNCHANGED <<registry, runVars>>

\* A failed update is not reported.
OrphanMark(c) ==
    /\ call[c].at = "mark" /\ CallGoto(c, "killed")
    /\ \/ registry' = UpdatedRecord(c, "cleaned", FALSE, 0) /\ UNCHANGED trackedFaults
       \/ TrackedFault /\ UNCHANGED registry
    /\ UNCHANGED <<world, runVars>>

-----------------------------------------------------------------------------
\* The process that has the pid ends.
ProcessExits ==
    /\ occupant # "gone" /\ occupant' = "gone"
    /\ UNCHANGED <<reuses, registry, runVars, call, trackedFaults>>

\* The system gives the pid to another process.
PidReused ==
    /\ occupant = "gone" /\ reuses < MaxReuses
    /\ occupant' \in Strangers /\ reuses' = reuses + 1
    /\ UNCHANGED <<registry, runVars, call, trackedFaults>>

TrackedInit ==
    /\ occupant \in {"gone", "named"} /\ reuses = 0
    /\ registry = <<>> /\ marker = NoMarker
    /\ runAt = "idle" /\ poll = "idle" /\ polled = NoMarker
    /\ outcome = "completed" /\ opened = FALSE /\ reap = NoReap
    /\ call = [c \in Cleanups \cup Orphans |-> NoCall]
    /\ trackedFaults \in 0..MaxTrackedFaults

RunStep ==
    \/ ExecutorEnds \/ StopWatching \/ ReapInspect \/ ReapKill \/ FinishTracked

CallStep(c) ==
    \/ /\ c \in Cleanups
       /\ \/ CleanupGate(c) \/ CleanupInspect(c) \/ CleanupKill(c) \/ CleanupVerify(c)
          \/ CleanupMark(c) \/ CleanupRetire(c) \/ CleanupUnlist(c)
    \/ /\ c \in Orphans
       /\ OrphanAttribute(c) \/ OrphanCreate(c) \/ OrphanKill(c) \/ OrphanMark(c)

TrackedRunNext ==
    StartTracked \/ RunStep \/ OpenAccess \/ WriteMarker \/ PollRead \/ PollWrite \/ HostDies

\* The calls of a set, and the operating system.
CallsNext(calls) ==
    \/ \E c \in calls \cap Cleanups, op \in Orphans \cup {TrackedRun}, force \in BOOLEAN :
         CleanupRead(c, op, force)
    \/ \E c \in calls \cap Orphans : OrphanInspect(c)
    \/ \E c \in calls : CallStep(c)
    \/ ProcessExits \/ PidReused

TrackedNext == TrackedRunNext \/ CallsNext(Cleanups \cup Orphans)

\* The executor's own deadline ends every execution (PowerShellExecutor), and a
\* call that has begun runs on; nobody has to call.
TrackedSpec ==
    /\ TrackedInit /\ [][TrackedNext]_trackedVars
    /\ WF_trackedVars(RunStep) /\ WF_trackedVars(PollWrite)
    /\ \A c \in Cleanups \cup Orphans : WF_trackedVars(CallStep(c))

-----------------------------------------------------------------------------
\* The values the variables take.
TrackedTypeOK ==
    /\ occupant \in Strangers \cup {"own", "gone"} /\ reuses \in 0..MaxReuses
    /\ Records \subseteq OperationRecord
    /\ \A i, j \in DOMAIN registry : registry[i].op = registry[j].op => i = j
    /\ {marker, polled} \subseteq Markers
    /\ runAt \in {"idle", "executing", "stopping", "reaping", "killing", "finishing",
                 "ended", "dead"}
    /\ poll \in {"idle", "write"}
    /\ outcome \in {"completed", "failed", "timed_out"} /\ opened \in BOOLEAN
    /\ reap.result \in {"none", "not_recorded", "exited", "killed", "refused",
                       "inspect_failed", "kill_failed"}
    /\ trackedFaults \in 0..MaxTrackedFaults

Driving == runAt \in {"executing", "stopping", "reaping", "killing", "finishing"}

\* Call c asks for the death of whoever has the pid.
Kills(c) == call[c].at = "kill" /\ call[c].at # call'[c].at

\* While a run drives its Access no cleanup call kills it: neither with force
\* (#620: "force:true cannot become a back-door kill switch",
\* access-operation-cleanup.ts) nor as an orphan (#1991).  Two ways remain: the
\* call checked another process that had the pid before, or one of its
\* inspections was degraded.
LiveRunSpared ==
    [][\A c \in Cleanups \cup Orphans :
          Kills(c) /\ occupant = "own" /\ Driving
            => call[c].target # "own" \/ ~call[c].clear]_trackedVars

\* An Access of another session that started in another second, and one with a
\* window, dies only when it got the pid after the check: the start time and
\* the window tests keep a reused pid safe, also one that a synthetic record of
\* cleanupOrphan names.
StrangersSpared ==
    [][(occupant \in {"later", "shown"}) =>
          /\ \A c \in Cleanups \cup Orphans : ~(Kills(c) /\ call[c].target = occupant)
          /\ ~(runAt = "killing" /\ runAt' = "finishing" /\ reap.target = occupant)]_trackedVars

\* cleanup_access_operation answers "cleaned" for a run whose process it knows
\* only when that process is gone (#1016), unless an inspection was degraded.
CleanedMeansGone ==
    \A c \in Cleanups :
        call[c].at = "cleaned" /\ call[c].op = TrackedRun /\ call[c].clear
          => occupant # "own"

\* "No poll can land after the terminal update" (watchOperationMarker): a run
\* that has ended is not recorded as running again.
TerminalStatusStays ==
    [][runAt = "ended" /\ (\E r \in RecordsOf(TrackedRun)' : r.status \in LiveStatuses)
         => \E r \in RecordsOf(TrackedRun) : r.status \in LiveStatuses]_trackedVars

\* What the steps of the reap and of the cleanup tools never do: kill the Access
\* of a run at work or of another session, or bring an ended run back to life.
TrackedSafe == LiveRunSpared /\ StrangersSpared /\ TerminalStatusStays

\* An Access that outlives its run keeps the run's record listed
\* (finishTrackedOperation), so that a cleanup can find it.  The exceptions are
\* all there are: the marker did not tell the pid, the inspection failed or was
\* degraded, a kill that reported success had no effect, or a call took the
\* record away.
LeakIsExplained ==
    runAt = "ended" /\ occupant = "own" /\ RecordsOf(TrackedRun) = {}
      => \/ reap.result \in {"not_recorded", "inspect_failed", "killed"}
         \/ ~reap.clear
         \/ \E c \in Cleanups : call[c].at \in {"cleaned", "retired"}

\* What is known of an Access that may be left over: "cleaned" means gone, and one
\* that is not gone is listed unless one of the known exceptions took the record.
LeftoversKnown == TrackedTypeOK /\ CleanedMeansGone /\ LeakIsExplained

\* Every run and every cleanup call that begins comes to an end.
EveryTrackedCallEnds ==
    <>[](/\ runAt \in {"idle", "ended", "dead"}
         /\ \A c \in Cleanups \cup Orphans :
              call[c].at \in {"idle", "failed", "cleaned", "retired", "killed"})
=============================================================================
