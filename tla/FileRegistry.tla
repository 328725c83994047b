----------------------------- MODULE FileRegistry -----------------------------
(***************************************************************************)
(* FileAccessOperationRegistry: the registry file shared by every dysflow  *)
(* process of a project, its mutation lock, and its readers.               *)
(*                                                                         *)
(* The lock is a directory plus an owner file created inside it with the   *)
(* exclusive "wx" flag.  Each filesystem call of the code is one step here, *)
(* so calls of different processes interleave between any two of them.     *)
(* A mutation is one call of create or update; its owner token is unique   *)
(* (pid and uuid), so the mutation itself stands for its token.            *)
(*                                                                         *)
(* Time is abstracted away: the lock directory's mtime may become older    *)
(* than staleLockMs at any moment (LockAges), and a waiting call may find  *)
(* its deadline passed at any deadline check.                              *)
(***************************************************************************)
EXTENDS RegistryRecords, Sequences

CONSTANTS
    Mutations,   \* calls of create and update
    Processes,   \* operating-system processes sharing the file
    ProcOf,      \* the process each call runs in
    NoOwner,     \* there is no owner file
    Corrupt      \* file content that JSON.parse rejects

ASSUME ProcOfAssumption == ProcOf \in [Mutations -> Processes]
ASSUME NoOwnerAssumption == NoOwner \notin Mutations
ASSUME CorruptAssumption == Corrupt \notin RecordMaps

VARIABLES
    file,         \* content of operations.json; a missing file reads as NoRecords
    quarantined,  \* contents moved to .quarantine-<ISO>.json sidecars
    lockDir,      \* does the lock directory exist?
    lockStale,    \* is its mtime at least staleLockMs old?
    owner,        \* whose token the owner file holds
    queue,        \* fileLocks: per process, the chain of calls not yet settled
    alive,        \* processes that have not crashed
    pc,           \* where each call is
    req,          \* its request
    local,        \* the records map it read
    fatal,        \* it met an error that it will rethrow
    outcome,      \* what its read-modify-write decided
    rpc,          \* per process, where its lock-free reader (get, listRecent) is
    health        \* per process, lastHealth of its registry instance

lockVars == <<lockDir, lockStale, owner>>
dataVars == <<file, quarantined, local, outcome>>
readVars == <<rpc, health>>
vars == <<file, quarantined, lockDir, lockStale, owner, queue, alive,
          pc, req, local, fatal, outcome, rpc, health>>

Outcomes == {"pending", "stored", "undefined"}

\* Program points between two filesystem calls.
Acquiring == {"mkdir", "staleRead1", "staleStat", "staleRead2", "staleRead3",
              "staleRmdir", "deadline", "writeOwner", "ownRead", "ownRmdir"}
Holding == {"readRecords", "quarantine", "writeRecords", "relRead1",
            "relRead2", "relRm"}
Settled == {"done", "failed", "crashed"}
Points == {"idle", "queued"} \cup Acquiring \cup Holding
              \cup {"relRmdir", "settling", "failing"} \cup Settled

TypeOK ==
    /\ file \in RecordMaps \cup {Corrupt}
    /\ quarantined \subseteq RecordMaps \cup {Corrupt}
    /\ lockDir \in BOOLEAN
    /\ lockStale \in BOOLEAN
    /\ owner \in Mutations \cup {NoOwner}
    /\ queue \in [Processes -> Seq(Mutations)]
    /\ alive \subseteq Processes
    /\ pc \in [Mutations -> Points]
    /\ req \in [Mutations -> Requests]
    /\ local \in [Mutations -> RecordMaps]
    /\ fatal \in [Mutations -> BOOLEAN]
    /\ outcome \in [Mutations -> Outcomes]
    /\ rpc \in [Processes -> {"idle", "sawCorrupt"}]
    /\ health \in [Processes -> {"ok", "degraded"}]

Init ==
    /\ file = NoRecords
    /\ quarantined = {}
    /\ lockDir = FALSE
    /\ lockStale = FALSE
    /\ owner = NoOwner
    /\ queue = [p \in Processes |-> <<>>]
    /\ alive = Processes
    /\ pc = [m \in Mutations |-> "idle"]
    /\ req \in [Mutations -> Requests]
    /\ local = [m \in Mutations |-> NoRecords]
    /\ fatal = [m \in Mutations |-> FALSE]
    /\ outcome = [m \in Mutations |-> "pending"]
    /\ rpc = [p \in Processes |-> "idle"]
    /\ health = [p \in Processes |-> "ok"]

Goto(m, from, to) == pc[m] = from /\ pc' = [pc EXCEPT ![m] = to]

-----------------------------------------------------------------------------
(* withFileLock: the in-process chain.                                     *)

\* A call chains itself behind the process's previous call.
WithFileLock(m) ==
    /\ ProcOf[m] \in alive
    /\ Goto(m, "idle", "queued")
    /\ queue' = [queue EXCEPT ![ProcOf[m]] = Append(@, m)]
    /\ UNCHANGED <<dataVars, lockVars, alive, req, fatal, readVars>>

\* previous has settled, whether it failed or not: the call starts acquiring.
StartAcquire(m) ==
    /\ queue[ProcOf[m]] # <<>>
    /\ Head(queue[ProcOf[m]]) = m
    /\ Goto(m, "queued", "mkdir")
    /\ UNCHANGED <<dataVars, lockVars, queue, alive, req, fatal, readVars>>

\* Mutant of Settle: a rejected call is never taken off the chain.
SettleOnSuccessOnly(m) ==
    /\ Goto(m, "settling", "done")
    /\ queue' = [queue EXCEPT ![ProcOf[m]] = Tail(@)]
    /\ UNCHANGED <<dataVars, lockVars, alive, req, fatal, readVars>>

\* The call settles and the next one of its process may start.
Settle(m) ==
    /\ \/ Goto(m, "settling", "done")
       \/ Goto(m, "failing", "failed")
    /\ queue' = [queue EXCEPT ![ProcOf[m]] = Tail(@)]
    /\ UNCHANGED <<dataVars, lockVars, alive, req, fatal, readVars>>

-----------------------------------------------------------------------------
(* acquireRegistryMutationLock.                                            *)

\* mkdir(lockPath): created, EEXIST, EACCES/EPERM while a release is still
\* deleting the directory, or any other error, which fails the call.
MkdirLock(m) ==
    /\ \/ /\ ~lockDir
          /\ lockDir' = TRUE
          /\ lockStale' = FALSE
          /\ Goto(m, "mkdir", "writeOwner")
       \/ /\ lockDir
          /\ Goto(m, "mkdir", "staleRead1")
          /\ UNCHANGED <<lockDir, lockStale>>
       \/ /\ \/ Goto(m, "mkdir", "deadline")
             \/ Goto(m, "mkdir", "failing")
          /\ UNCHANGED <<lockDir, lockStale>>
    /\ UNCHANGED <<dataVars, owner, queue, alive, req, fatal, readVars>>

\* Mutant of WriteOwner: the owner file is written without the wx flag.
WriteOwnerNotExclusive(m) ==
    /\ \/ /\ lockDir
          /\ owner' = m
          /\ Goto(m, "writeOwner", "readRecords")
       \/ /\ Goto(m, "writeOwner", "ownRead")
          /\ UNCHANGED owner
    /\ UNCHANGED <<dataVars, lockDir, lockStale, queue, alive, req, fatal,
                   readVars>>

\* writeFile(owner, token, wx): succeeds only in an existing directory with
\* no owner file.  A failed write may have created the file already.
WriteOwner(m) ==
    /\ \/ /\ lockDir /\ owner = NoOwner
          /\ owner' = m
          /\ lockStale' = FALSE
          /\ Goto(m, "writeOwner", "readRecords")
          /\ UNCHANGED fatal
       \/ /\ Goto(m, "writeOwner", "ownRead")  \* ENOENT, EEXIST, EACCES, EPERM
          /\ UNCHANGED <<owner, lockStale, fatal>>
       \/ /\ Goto(m, "writeOwner", "ownRead")
          /\ lockDir /\ owner = NoOwner       \* ENOSPC, EIO, ...
          /\ owner' \in {owner, m}
          /\ lockStale' = FALSE
          /\ fatal' = [fatal EXCEPT ![m] = TRUE]
    /\ UNCHANGED <<dataVars, lockDir, queue, alive, req, readVars>>

\* The decision after removeOwnerlessLockDirectory().catch(): rethrow or retry.
AfterOwnerWrite(m) == IF fatal[m] THEN "failing" ELSE "staleRead1"

\* removeOwnerlessLockDirectory after a failed owner write: read the owner...
OwnRead(m) ==
    /\ \/ owner = NoOwner /\ Goto(m, "ownRead", "ownRmdir")
       \/ Goto(m, "ownRead", AfterOwnerWrite(m))  \* an owner, or a read error
    /\ UNCHANGED <<dataVars, lockVars, queue, alive, req, fatal, readVars>>

\* rmdir(lockPath) succeeds only on an empty directory.
Rmdir ==
    IF lockDir /\ owner = NoOwner
    THEN lockDir' = FALSE /\ lockStale' = FALSE /\ UNCHANGED owner
    ELSE UNCHANGED lockVars

\* ... then rmdir; every error is swallowed.
OwnRmdir(m) ==
    /\ Goto(m, "ownRmdir", AfterOwnerWrite(m))
    /\ Rmdir \/ UNCHANGED lockVars
    /\ UNCHANGED <<dataVars, queue, alive, req, fatal, readVars>>

\* removeLockIfStale: read the owner, stat, read it twice more, rmdir.  An
\* owner, or a fresh directory, ends it; an I/O error fails the call.
StaleRead(m, from, to) ==
    /\ \/ owner = NoOwner /\ Goto(m, from, to)
       \/ owner # NoOwner /\ Goto(m, from, "deadline")
       \/ Goto(m, from, "failing")
    /\ UNCHANGED <<dataVars, lockVars, queue, alive, req, fatal, readVars>>

StaleStat(m) ==
    /\ \/ lockDir /\ lockStale /\ Goto(m, "staleStat", "staleRead2")
       \/ ~(lockDir /\ lockStale) /\ Goto(m, "staleStat", "deadline")
       \/ Goto(m, "staleStat", "failing")
    /\ UNCHANGED <<dataVars, lockVars, queue, alive, req, fatal, readVars>>

\* Mutant of StaleRmdir: the stale directory is removed with its content.
StaleRmRecursive(m) ==
    /\ Goto(m, "staleRmdir", "deadline")
    /\ lockDir' = FALSE /\ lockStale' = FALSE /\ owner' = NoOwner
    /\ UNCHANGED <<dataVars, queue, alive, req, fatal, readVars>>

StaleRmdir(m) ==
    /\ \/ Goto(m, "staleRmdir", "deadline") /\ Rmdir
       \/ Goto(m, "staleRmdir", "failing") /\ UNCHANGED lockVars
    /\ UNCHANGED <<dataVars, queue, alive, req, fatal, readVars>>

RemoveLockIfStale(m) ==
    \/ StaleRead(m, "staleRead1", "staleStat")
    \/ StaleStat(m)
    \/ StaleRead(m, "staleRead2", "staleRead3")
    \/ StaleRead(m, "staleRead3", "staleRmdir")
    \/ StaleRmdir(m)

\* Date.now() >= deadline: give up; otherwise sleep and try again.
Retry(m) ==
    /\ Goto(m, "deadline", "mkdir")
    /\ UNCHANGED <<dataVars, lockVars, queue, alive, req, fatal, readVars>>

TimeOut(m) ==
    /\ Goto(m, "deadline", "failing")
    /\ UNCHANGED <<dataVars, lockVars, queue, alive, req, fatal, readVars>>

-----------------------------------------------------------------------------
(* The mutation under the lock: readRecords, then writeRecords.            *)

\* readRecords returned the map r to call m.  A mutation that writes nothing
\* is over: create of a purged status, update of an absent id.
GotRecords(m, r, from) ==
    /\ local' = [local EXCEPT ![m] = r]
    /\ \/ /\ Writes(req[m], r)
          /\ Goto(m, from, "writeRecords")
          /\ UNCHANGED outcome
       \/ /\ ~Writes(req[m], r)
          /\ Goto(m, from, "relRead1")
          /\ outcome' = [outcome EXCEPT ![m] = Returned(req[m], r)]

\* readRecords of a file that parses.
ReadRecords(m) ==
    /\ file # Corrupt
    /\ GotRecords(m, file, "readRecords")
    /\ UNCHANGED <<file, quarantined, lockVars, queue, alive, req, fatal,
                   rpc, health>>

\* Mutant of WriteRecords: the registry file is written in place, so an error
\* leaves it truncated.
WriteRecordsInPlace(m) ==
    /\ Goto(m, "writeRecords", "relRead1")
    /\ \/ /\ file' \in Effects(req[m], local[m])
          /\ outcome' = [outcome EXCEPT ![m] = Returned(req[m], local[m])]
          /\ UNCHANGED fatal
       \/ /\ file' = NoRecords
          /\ fatal' = [fatal EXCEPT ![m] = TRUE]
          /\ UNCHANGED outcome
    /\ UNCHANGED <<quarantined, local, lockVars, queue, alive, req, readVars>>

\* Mutant of WriteRecords: an error after the rename still fails the call.
WriteRecordsLateError(m) ==
    /\ Goto(m, "writeRecords", "relRead1")
    /\ file' \in Effects(req[m], local[m])
    /\ outcome' = [outcome EXCEPT ![m] = Returned(req[m], local[m])]
    /\ fatal' \in {fatal, [fatal EXCEPT ![m] = TRUE]}
    /\ UNCHANGED <<quarantined, local, lockVars, queue, alive, req, readVars>>

\* writeRecords: write a private temporary file and rename it over the
\* registry file.  An error leaves the registry file as it was and fails the
\* call after the lock is released.
WriteRecords(m) ==
    /\ \/ /\ Goto(m, "writeRecords", "relRead1")
          /\ file' \in Effects(req[m], local[m])
          /\ outcome' = [outcome EXCEPT ![m] = Returned(req[m], local[m])]
          /\ UNCHANGED fatal
       \/ /\ Goto(m, "writeRecords", "relRead1")
          /\ fatal' = [fatal EXCEPT ![m] = TRUE]
          /\ UNCHANGED <<file, outcome>>
    /\ UNCHANGED <<quarantined, local, lockVars, queue, alive, req, readVars>>

-----------------------------------------------------------------------------
(* releaseRegistryMutationLock; its errors are swallowed by the caller.    *)

AfterRelease(m) == IF fatal[m] THEN "failing" ELSE "settling"

\* The token is read twice; anything but the caller's own token, or a read
\* error, leaves the lock alone.
ReleaseRead(m) ==
    /\ \/ owner = m /\ Goto(m, "relRead1", "relRead2")
       \/ owner = m /\ Goto(m, "relRead2", "relRm")
       \/ Goto(m, "relRead1", AfterRelease(m))
       \/ Goto(m, "relRead2", AfterRelease(m))
    /\ UNCHANGED <<dataVars, lockVars, queue, alive, req, fatal, readVars>>

\* rm(owner, force) removes whatever owner file is there.
ReleaseRm(m) ==
    /\ \/ /\ Goto(m, "relRm", "relRmdir")
          /\ owner' = NoOwner
          /\ lockStale' = FALSE
       \/ /\ Goto(m, "relRm", AfterRelease(m))
          /\ UNCHANGED <<owner, lockStale>>
    /\ UNCHANGED <<dataVars, lockDir, queue, alive, req, fatal, readVars>>

ReleaseRmdir(m) ==
    /\ Goto(m, "relRmdir", AfterRelease(m))
    /\ Rmdir \/ UNCHANGED lockVars
    /\ UNCHANGED <<dataVars, queue, alive, req, fatal, readVars>>

-----------------------------------------------------------------------------
(* A registry file that does not parse, and read errors.                   *)

\* quarantineCorruptFile by process p: rename whatever the registry file
\* holds now.  If there is nothing to rename, or the rename fails, the bytes
\* read earlier are copied to the sidecar instead; if that fails too, the
\* file is left in place and the health unchanged.
QuarantineCorruptFile(p) ==
    \/ /\ file' = NoRecords
       /\ quarantined' = quarantined \cup {file}
       /\ health' = [health EXCEPT ![p] = "degraded"]
    \/ /\ quarantined' = quarantined \cup {Corrupt}
       /\ health' = [health EXCEPT ![p] = "degraded"]
       /\ UNCHANGED file
    \/ UNCHANGED <<file, quarantined, health>>

\* readRecords under the lock: the bytes do not parse...
ReadCorrupt(m) ==
    /\ file = Corrupt
    /\ Goto(m, "readRecords", "quarantine")
    /\ UNCHANGED <<dataVars, lockVars, queue, alive, req, fatal, rpc, health>>

\* ... so the file is moved aside and the mutation continues from no records.
Quarantine(m) ==
    /\ QuarantineCorruptFile(ProcOf[m])
    /\ GotRecords(m, NoRecords, "quarantine")
    /\ UNCHANGED <<lockVars, queue, alive, req, fatal, rpc>>

\* readFile fails with anything but ENOENT: swallowed, and read as no records.
ReadError(m) ==
    /\ GotRecords(m, NoRecords, "readRecords")
    /\ UNCHANGED <<file, quarantined, lockVars, queue, alive, req, fatal,
                   readVars>>

\* get and listRecent call readRecords without the lock, with the same
\* quarantine of a file that does not parse.
ReaderRead(p) ==
    /\ p \in alive
    /\ rpc[p] = "idle"
    /\ rpc' = [rpc EXCEPT ![p] = IF file = Corrupt THEN "sawCorrupt" ELSE "idle"]
    /\ UNCHANGED <<dataVars, lockVars, queue, alive, pc, req, fatal, health>>

ReaderQuarantine(p) ==
    /\ rpc[p] = "sawCorrupt"
    /\ rpc' = [rpc EXCEPT ![p] = "idle"]
    /\ QuarantineCorruptFile(p)
    /\ UNCHANGED <<local, outcome, lockVars, queue, alive, pc, req, fatal>>

\* Something outside dysflow (a disk fault, a manual edit) damages the file.
DamageFile ==
    /\ file # Corrupt
    /\ file' = Corrupt
    /\ UNCHANGED <<quarantined, local, outcome, lockVars, queue, alive, pc, req,
                   fatal, readVars>>

-----------------------------------------------------------------------------
(* The environment.                                                        *)

\* The clock: the lock directory becomes staleLockMs old.
LockAges ==
    /\ lockDir /\ ~lockStale
    /\ lockStale' = TRUE
    /\ UNCHANGED <<dataVars, lockDir, owner, queue, alive, pc, req, fatal, readVars>>

\* A process dies; what it left on disk stays.
Crash(p) ==
    /\ p \in alive
    /\ alive' = alive \ {p}
    /\ pc' = [m \in Mutations |->
                IF ProcOf[m] = p /\ pc[m] \notin Settled
                THEN "crashed" ELSE pc[m]]
    /\ queue' = [queue EXCEPT ![p] = <<>>]
    /\ rpc' = [rpc EXCEPT ![p] = "idle"]
    /\ UNCHANGED <<dataVars, lockVars, req, fatal, health>>

Step(m) ==
    \/ WithFileLock(m) \/ StartAcquire(m) \/ Settle(m)
    \/ MkdirLock(m) \/ WriteOwner(m) \/ OwnRead(m) \/ OwnRmdir(m)
    \/ RemoveLockIfStale(m) \/ Retry(m) \/ TimeOut(m)
    \/ ReadRecords(m) \/ WriteRecords(m)
    \/ ReleaseRead(m) \/ ReleaseRm(m) \/ ReleaseRmdir(m)

Next ==
    \/ \E m \in Mutations : Step(m)
    \/ \E p \in Processes : Crash(p)
    \/ LockAges

\* The registry on a healthy file.
Spec == Init /\ [][Next]_vars

\* The registry with damaged files and failing reads.
FaultyNext ==
    \/ Next
    \/ \E m \in Mutations : ReadCorrupt(m) \/ Quarantine(m) \/ ReadError(m)
    \/ \E p \in Processes : ReaderRead(p) \/ ReaderQuarantine(p)
    \/ DamageFile

FaultySpec == Init /\ [][FaultyNext]_vars

\* Every call keeps taking steps while its process lives, and its deadline
\* passes: Date.now() grows past the deadline computed when it started.
Fairness ==
    \A m \in Mutations :
        /\ WF_vars(pc[m] # "idle" /\ Step(m))
        /\ SF_vars(TimeOut(m))

LiveSpec == Spec /\ Fairness

-----------------------------------------------------------------------------
(* Correctness.                                                            *)

\* Calls of one process that have left the in-process chain and not settled.
Running == Acquiring \cup Holding \cup {"relRmdir", "settling", "failing"}

\* In one process only the call at the head of the chain touches the lock or
\* the file: fileLocks hands over in arrival order, after failures as well.
RunningIsHead ==
    \A m \in Mutations : pc[m] \in Running =>
        queue[ProcOf[m]] # <<>> /\ Head(queue[ProcOf[m]]) = m

\* At most one call, of all processes, is between taking and releasing the
\* mutation lock (withRegistryMutationLock), whatever the clock, crashes and
\* I/O errors do: "MUST serialize shared registry mutations across processes".
MutualExclusion ==
    \A m, n \in Mutations : pc[m] \in Holding /\ pc[n] \in Holding => m = n

\* A call inside the lock finds its own token in the owner file, so that its
\* release (releaseRegistryMutationLock) can only remove its own lock.
HolderOwnsLock ==
    \A m \in Mutations : pc[m] \in Holding => lockDir /\ owner = m

\* What the lock promises a call: nobody else is inside, and it is the owner.
RegistryLockSafe == TypeOK /\ MutualExclusion /\ HolderOwnsLock

\* The owner file is only ever removed by the call that wrote it, in its
\* release: no eviction path (removeLockIfStale, removeOwnerlessLockDirectory)
\* takes a lock away from its holder, not even from a crashed one.
OnlyOwnerReleases ==
    [][owner # NoOwner /\ owner' # owner => pc[owner] = "relRm"]_vars

\* The map a call is about to write was computed from the current file
\* content: no other call's mutation is overwritten (create, update).
NoLostUpdate ==
    \A m \in Mutations : pc[m] = "writeRecords" => local[m] = file

\* A call that failed (timeout, lock error, write error) changed nothing:
\* "MUST wait within a bounded timeout or fail without partial writes".
FailureChangesNothing ==
    \A m \in Mutations : pc[m] \in {"failing", "failed"} => outcome[m] = "pending"

\* evictOldestRecords keeps the file at maxRecords records or fewer.
RecordsBounded == file # Corrupt => Cardinality(Present(file)) <= MaxRecords

\* What a mutation moves to a quarantine sidecar (quarantineCorruptFile) never
\* parsed: under the lock no valid records, written since its read, are taken
\* out of the registry.  (A reader has no lock, and may.)
WriterQuarantinesCorrupt ==
    [][(\E m \in Mutations : pc[m] = "quarantine" /\ pc'[m] # "quarantine")
       => quarantined' \ quarantined \subseteq {Corrupt, NoRecords}]_vars

\* Every call settles: a failed, timed-out or crashed call never blocks the
\* calls chained behind it (withFileLock).
EveryCallSettles ==
    \A m \in Mutations : pc[m] = "queued" ~> pc[m] \in Settled

\* The mutations take effect one at a time, each as an indivisible
\* read-modify-write of the map.
Atomic == INSTANCE AtomicRegistry WITH records <- file

Linearizable == Atomic!AbsSpec
=============================================================================
