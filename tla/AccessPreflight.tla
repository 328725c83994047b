---------------------------- MODULE AccessPreflight ----------------------------
(***************************************************************************)
(* AccessOperationPreflightCleanupService.cleanup: before an operation     *)
(* starts Access it walks the records that earlier operations left in the  *)
(* registry, retires the dead ones, kills the Access processes they still  *)
(* own, and finally scans for headless Access processes whose command line *)
(* names the database.  Every await of the code is a step of its own, so   *)
(* the operating system, the other operations and their preflights act in  *)
(* between: the list of records and the list of processes are snapshots.   *)
(*                                                                         *)
(* One database is modelled.  The registry is used as AtomicRegistry       *)
(* specifies it: get, create and update are indivisible or fail.           *)
(***************************************************************************)
EXTENDS Naturals, FiniteSets

CONSTANTS
    Ops,        \* operations: calls of run(), each with its operation id
    RootOf,     \* projectRoot of an operation, the scope of its preflight
    Pids,       \* process ids, which the operating system reuses
    MaxStarts,  \* bound on the processes ever started
    MaxFaults,  \* bound on failed or timed out registry and process calls
    Nothing     \* null, undefined, no process, no record

ASSUME OpsAssumption == Ops # {} /\ {Nothing, "user", "other"} \cap Ops = {}
ASSUME BoundsAssumption == MaxStarts \in Nat /\ MaxFaults \in Nat
ASSUME PidsAssumption == Nothing \notin Pids

VARIABLES
    procs,      \* the process under each id
    starts,     \* number of processes started: the start time of the last one
    rec,        \* the registry: the record of each operation
    aged,       \* operations whose creation stamp is past DEFAULT_STARTING_STALE_MS
    faults,     \* failed calls so far
    pc,         \* where each operation is
    pre         \* the local variables of each operation's preflight

world == <<procs, starts, aged>>

Times == 1..MaxStarts

\* A process: an operation's Access, an Access started by somebody else, or
\* any other program.  named: its command line names the database, which that
\* of an Access activated through COM never does.  window: "hidden" when
\* mainWindowHandle is known and 0.
Process == [by : Ops \cup {"user", "other"}, start : Times,
            named : BOOLEAN, window : {"hidden", "shown"}]

ELIGIBLE_STATUSES == {"timed_out", "failed", "cleanup_pending", "pid_unknown"}

PURGED_PERSISTENT_STATUSES == {"completed", "cleaned"}

\* A record as the file keeps it; completed and cleaned records are purged.
Record == [status : {"starting", "running"} \cup ELIGIBLE_STATUSES,
           pid : Pids \cup {Nothing}, start : Times \cup {Nothing}]

ASSUME NothingAssumption == Nothing \notin Process \cup Record \cup Times

\* registry.update: merges the patch into a record that is still there.
Updated(o, status, pid, start) ==
    IF rec[o] = Nothing THEN rec
    ELSE IF status \in PURGED_PERSISTENT_STATUSES
         THEN [rec EXCEPT ![o] = Nothing]
         ELSE [rec EXCEPT ![o] = [status |-> status, pid |-> pid, start |-> start]]

\* A call that fails or times out, within the bound.
Fault == faults < MaxFaults /\ faults' = faults + 1

OsInfo == [pid : Pids, start : Times, named : BOOLEAN,
           window : {"hidden", "shown"}]

ASSUME NoInfoAssumption == Nothing \notin OsInfo

IsAccess(p) == procs[p] # Nothing /\ procs[p].by # "other"

Info(p) == [pid |-> p, start |-> procs[p].start, named |-> procs[p].named,
            window |-> procs[p].window]

\* ProcessInspector.getProcess: the Access process under a pid, if any.
getProcess(p) == IF IsAccess(p) THEN Info(p) ELSE Nothing

\* ProcessScanner.listProcesses
listProcesses == {Info(p) : p \in {q \in Pids : IsAccess(q)}}

\* ProcessKiller.kill: whatever process has the id now.
Killed(p) == [procs EXCEPT ![p] = Nothing]

\* The local variables of cleanup(): the records still to visit, the one being
\* visited, the process about to be killed, the scanned processes still to
\* visit, handledPids, and whether result.errors has an entry.
\* owed: the visited records that were eligible (a history variable).
Locals == [todo : [Ops -> Record \cup {Nothing}], cur : Ops \cup {Nothing},
           target : OsInfo \cup {Nothing}, list : SUBSET OsInfo,
           handled : SUBSET Pids, errors : BOOLEAN, owed : [Ops -> Record \cup {Nothing}]]

NoLocals == [todo |-> [i \in Ops |-> Nothing], cur |-> Nothing,
             target |-> Nothing, list |-> {}, handled |-> {}, errors |-> FALSE,
             owed |-> [i \in Ops |-> Nothing]]

PreflightPoints == {"preflight", "records", "markCleaned", "killOwned",
                    "revalidate", "killHeadless", "orphans"}
KillPoints == {"killOwned", "killHeadless"}

Goto(o, to) == pc' = [pc EXCEPT ![o] = to]
Set(o, locals) == pre' = [pre EXCEPT ![o] = locals]

Visited(o, i) == [pre[o] EXCEPT !.todo[i] = Nothing]
VisitedWithError(o, i) == [Visited(o, i) EXCEPT !.errors = TRUE]

\* registry.listRecent, keeping the records of the request's scope.  A failure
\* to list ends the preflight.
ListRecords(o) ==
    /\ pc[o] = "preflight"
    /\ \/ /\ Goto(o, "records")
          /\ LET listed == [i \in Ops |-> IF RootOf[i] = RootOf[o] THEN rec[i]
                                                                 ELSE Nothing]
             IN Set(o, [NoLocals EXCEPT !.todo = listed,
                        !.owed = [i \in Ops |->
                            IF listed[i] # Nothing
                            THEN IF listed[i].status \in ELIGIBLE_STATUSES
                                 THEN listed[i] ELSE Nothing
                            ELSE Nothing]])
          /\ UNCHANGED faults
       \/ /\ Goto(o, "create")
          /\ Set(o, [NoLocals EXCEPT !.errors = TRUE])
          /\ Fault
    /\ UNCHANGED <<world, rec>>

At(o, i) == pc[o] = "records" /\ pre[o].todo[i] # Nothing

\* Mutant of isInterruptedStartingRecord: the grace window is not applied.
isInterruptedWithoutGrace(o, i) ==
    LET r == pre[o].todo[i] IN r.status = "starting" /\ r.pid = Nothing /\ r.start = Nothing

isInterruptedStartingRecord(o, i) ==
    LET r == pre[o].todo[i]
    IN r.status = "starting" /\ r.pid = Nothing /\ r.start = Nothing /\ i \in aged

isTrackedRunning(r) == r.status = "running" /\ r.pid # Nothing

\* Mutant of SkipRecord: the loop waits for an operation that is starting.
SkipSettledRecord(o, i) ==
    /\ At(o, i)
    /\ pre[o].todo[i].status = "running" /\ pre[o].todo[i].pid = Nothing
    /\ Set(o, Visited(o, i))
    /\ UNCHANGED <<world, rec, faults, pc>>

\* The loop passes over a record of another status.
SkipRecord(o, i) ==
    /\ At(o, i)
    /\ ~isInterruptedStartingRecord(o, i)
    /\ ~isTrackedRunning(pre[o].todo[i])
    /\ pre[o].todo[i].status \notin ELIGIBLE_STATUSES
    /\ Set(o, Visited(o, i))
    /\ UNCHANGED <<world, rec, faults, pc>>

\* markInterruptedStartingFailed: the patch leaves the record's pid alone.
markInterruptedStartingFailed(o, i) ==
    /\ At(o, i)
    /\ isInterruptedStartingRecord(o, i)
    /\ \/ /\ rec' = IF rec[i] = Nothing THEN rec
                    ELSE Updated(i, "failed", rec[i].pid, rec[i].start)
          /\ Set(o, Visited(o, i))
          /\ UNCHANGED faults
       \/ Fault /\ Set(o, VisitedWithError(o, i)) /\ UNCHANGED rec
    /\ UNCHANGED <<world, pc>>

\* What an inspection returns: the truth, or nothing when the query's output
\* could not be parsed (normalizeProcessList swallows that).
Inspection(p, seen) ==
    \/ seen = getProcess(p) /\ UNCHANGED faults
    \/ seen = Nothing /\ getProcess(p) # Nothing /\ Fault

\* What a listing returns, likewise: a query that fell back to Get-Process names
\* no database either.
Listing(seen) ==
    \/ seen = listProcesses /\ UNCHANGED faults
    \/ seen = {} /\ listProcesses # {} /\ Fault

\* reconcileRunningRecord: a running record whose process is gone is cleaned; a
\* live one is left alone and its pid is protected from the scan.
reconcileRunningRecord(o, i) ==
    LET r == pre[o].todo[i] IN
    /\ At(o, i) /\ isTrackedRunning(r)
    /\ \/ \E seen \in {getProcess(r.pid), Nothing} :
            /\ Inspection(r.pid, seen)
            /\ IF IF seen = Nothing THEN TRUE ELSE seen.start # r.start
               THEN Set(o, [Visited(o, i) EXCEPT !.cur = i]) /\ Goto(o, "markCleaned")
               ELSE Set(o, [Visited(o, i) EXCEPT !.handled = @ \cup {r.pid}]) /\ UNCHANGED pc
       \/ Fault /\ Set(o, VisitedWithError(o, i)) /\ UNCHANGED pc
    /\ UNCHANGED <<world, rec>>

isOwned(r) == r.pid # Nothing /\ r.start # Nothing

\* Mutant of cleanupRecord: the start time is not compared.
cleanupRecordByPid(o, i) ==
    LET r == pre[o].todo[i] IN
    /\ At(o, i) /\ r.status \in ELIGIBLE_STATUSES /\ isOwned(r)
    /\ IF getProcess(r.pid) = Nothing
       THEN Set(o, [Visited(o, i) EXCEPT !.cur = i]) /\ Goto(o, "markCleaned")
       ELSE /\ Set(o, [Visited(o, i) EXCEPT !.cur = i,
                           !.target = [getProcess(r.pid) EXCEPT !.start = r.start]])
            /\ Goto(o, "killOwned")
    /\ UNCHANGED <<world, rec, faults>>

\* cleanupRecord, up to the kill: the process must be the recorded one.
cleanupRecord(o, i) ==
    LET r == pre[o].todo[i] IN
    /\ At(o, i) /\ r.status \in ELIGIBLE_STATUSES /\ isOwned(r)
    /\ \/ \E seen \in {getProcess(r.pid), Nothing} :
            /\ Inspection(r.pid, seen)
            /\ IF seen = Nothing
               THEN Set(o, [Visited(o, i) EXCEPT !.cur = i]) /\ Goto(o, "markCleaned")
               ELSE IF seen.start # r.start
               THEN Set(o, VisitedWithError(o, i)) /\ UNCHANGED pc
               ELSE /\ Set(o, [Visited(o, i) EXCEPT !.cur = i, !.target = seen,
                                                    !.handled = @ \cup {r.pid}])
                    /\ Goto(o, "killOwned")
       \/ Fault /\ Set(o, VisitedWithError(o, i)) /\ UNCHANGED pc
    /\ UNCHANGED <<world, rec>>

\* A kill as its caller sees it: done; failed because nothing has the id any
\* more; or timed out, when the process may die all the same.
KillSucceeds(p) == procs[p] # Nothing /\ procs' = Killed(p) /\ UNCHANGED faults
KillFails(p) ==
    \/ procs[p] = Nothing /\ UNCHANGED <<procs, faults>>
    \/ Fault /\ procs' \in {procs, Killed(p)}

GiveUp(o) == [pre[o] EXCEPT !.cur = Nothing, !.target = Nothing, !.errors = TRUE]

\* Mutant of KillOwned: the record is not retired after the kill.
KillOwnedOnly(o) ==
    /\ pc[o] = "killOwned"
    /\ procs' = Killed(pre[o].target.pid)
    /\ Goto(o, "records")
    /\ Set(o, [pre[o] EXCEPT !.cur = Nothing, !.target = Nothing])
    /\ UNCHANGED <<starts, aged, rec, faults>>

KillOwned(o) ==
    /\ pc[o] = "killOwned"
    /\ \/ /\ KillSucceeds(pre[o].target.pid)
          /\ Goto(o, "markCleaned") /\ Set(o, [pre[o] EXCEPT !.target = Nothing])
       \/ /\ KillFails(pre[o].target.pid)
          /\ Goto(o, "records") /\ Set(o, GiveUp(o))
    /\ UNCHANGED <<starts, aged, rec>>

markCleaned(o) ==
    /\ pc[o] = "markCleaned"
    /\ \/ /\ rec' = Updated(pre[o].cur, "cleaned", Nothing, Nothing)
          /\ Set(o, [pre[o] EXCEPT !.cur = Nothing])
          /\ UNCHANGED faults
       \/ Fault /\ Set(o, GiveUp(o)) /\ UNCHANGED rec
    /\ Goto(o, "records")
    /\ UNCHANGED world

\* retireUnownedRecord, up to the window test of killIfHeadlessAccess: a record
\* without an owned process is retired unless an Access names its database.
retireUnownedRecord(o, i) ==
    LET r == pre[o].todo[i] IN
    /\ At(o, i) /\ r.status \in ELIGIBLE_STATUSES /\ ~isOwned(r)
    /\ \/ \E seen \in {listProcesses, {}} :
            LET matching == {m \in seen : m.named} IN
            /\ Listing(seen)
            /\ \/ /\ matching = {}
                  /\ Set(o, [Visited(o, i) EXCEPT !.cur = i])
                  /\ Goto(o, "markCleaned")
               \/ \E m \in matching :
                   IF m.window = "hidden"
                   THEN /\ Set(o, [Visited(o, i) EXCEPT !.cur = i, !.target = m,
                                                        !.handled = @ \cup {m.pid}])
                        /\ Goto(o, "revalidate")
                   ELSE /\ Set(o, [VisitedWithError(o, i) EXCEPT
                                       !.handled = @ \cup {m.pid}])
                        /\ UNCHANGED pc
       \/ Fault /\ Set(o, VisitedWithError(o, i)) /\ UNCHANGED pc
    /\ UNCHANGED <<world, rec>>

\* The records are done: scanAndCleanOrphans lists the processes.
scanAndCleanOrphans(o) ==
    /\ pc[o] = "records"
    /\ \A i \in Ops : pre[o].todo[i] = Nothing
    /\ \/ /\ \E seen \in {listProcesses, {}} :
               /\ Listing(seen)
               /\ Set(o, [pre[o] EXCEPT !.list = {m \in seen : m.named}])
          /\ Goto(o, "orphans")
       \/ /\ Fault /\ Set(o, [pre[o] EXCEPT !.errors = TRUE])
          /\ Goto(o, "create")
    /\ UNCHANGED <<world, rec>>

\* The next process of the scan: skipped, refused by the window test, or taken
\* to the revalidation.
VisitOrphan(o, m) ==
    /\ pc[o] = "orphans" /\ m \in pre[o].list
    /\ LET rest == [pre[o] EXCEPT !.list = @ \ {m}]
       IN IF m.pid \in pre[o].handled THEN Set(o, rest) /\ UNCHANGED pc
          ELSE IF m.window # "hidden"
          THEN Set(o, [rest EXCEPT !.errors = TRUE]) /\ UNCHANGED pc
          ELSE Set(o, [rest EXCEPT !.target = m]) /\ Goto(o, "revalidate")
    /\ UNCHANGED <<world, rec, faults>>

EndPreflight(o) ==
    /\ pc[o] = "orphans" /\ pre[o].list = {}
    /\ Goto(o, "create")
    /\ UNCHANGED <<world, rec, faults, pre>>

\* Back to the loop that called killIfHeadlessAccess.
Caller(o) == IF pre[o].cur = Nothing THEN "orphans" ELSE "records"

\* killIfHeadlessAccess looks again right before the kill.
Revalidate(o) ==
    /\ pc[o] = "revalidate"
    /\ \/ \E seen \in {getProcess(pre[o].target.pid), Nothing} :
            /\ Inspection(pre[o].target.pid, seen)
            /\ IF IF seen = Nothing THEN FALSE ELSE seen.start = pre[o].target.start
               THEN Goto(o, "killHeadless") /\ UNCHANGED pre
               ELSE Goto(o, Caller(o)) /\ Set(o, GiveUp(o))
       \/ Fault /\ Goto(o, Caller(o)) /\ Set(o, GiveUp(o))
    /\ UNCHANGED <<world, rec>>

KillHeadless(o) ==
    LET p == pre[o].target.pid IN
    /\ pc[o] = "killHeadless"
    /\ \/ /\ KillSucceeds(p)
          /\ Goto(o, IF pre[o].cur = Nothing THEN "orphans" ELSE "markCleaned")
          /\ Set(o, [pre[o] EXCEPT !.target = Nothing, !.handled = @ \cup {p}])
       \/ /\ KillFails(p)
          /\ Goto(o, Caller(o)) /\ Set(o, GiveUp(o))
    /\ UNCHANGED <<starts, aged, rec>>

Preflight(o) ==
    \/ ListRecords(o)
    \/ \E i \in Ops : \/ SkipRecord(o, i)
                      \/ markInterruptedStartingFailed(o, i)
                      \/ reconcileRunningRecord(o, i)
                      \/ cleanupRecord(o, i)
                      \/ retireUnownedRecord(o, i)
    \/ KillOwned(o) \/ markCleaned(o)
    \/ scanAndCleanOrphans(o)
    \/ \E m \in pre[o].list : VisitOrphan(o, m)
    \/ EndPreflight(o)
    \/ Revalidate(o) \/ KillHeadless(o)
=============================================================================
