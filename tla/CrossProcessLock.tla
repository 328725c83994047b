-------------------------- MODULE CrossProcessLock --------------------------
(***************************************************************************)
(* The lock directory that serializes Access work on one database across   *)
(* processes (core/runner/cross-process-lock.ts): acquisition by mkdir,    *)
(* the heartbeat that keeps a held lock fresh, the eviction of a stale     *)
(* lock under a sibling ".evicting" claim, and the recovery of a claim     *)
(* that a dead evictor left behind.                                        *)
(*                                                                         *)
(* Each filesystem call is one step.  A process has at most one            *)
(* acquisition in progress (the in-process queue sees to that, module      *)
(* ExecutionQueue).  Ages of directories are counted in heartbeat          *)
(* intervals, half of CROSS_PROCESS_LOCK_STALE_MS, up to one above the     *)
(* largest threshold they are compared with.                               *)
(***************************************************************************)
EXTENDS Integers, FiniteSets

CONSTANTS
    Procs,             \* processes
    MaxAcquisitions,   \* bound: acquisitions started by each process
    MaxFaults,         \* bound: filesystem calls that fail
    TimelyHeartbeats,  \* a live holder refreshes its lock in every interval
    QuickEvictions,    \* evictStaleLock returns within one interval
    CrashInEviction,   \* a process may die inside evictStaleLock
    MayTimeOut,        \* waiting callers reach their deadline
    NoOwner,           \* no readable owner record
    NoDir              \* the directory does not exist

ASSUME BoundsAssumption ==
    /\ MaxAcquisitions \in [Procs -> Nat]
    /\ MaxFaults \in Nat
ASSUME SwitchesAssumption ==
    /\ TimelyHeartbeats \in BOOLEAN
    /\ QuickEvictions \in BOOLEAN
    /\ CrashInEviction \in BOOLEAN
    /\ MayTimeOut \in BOOLEAN

\* Thresholds in heartbeat intervals: CROSS_PROCESS_LOCK_STALE_MS is two of
\* them, EVICTION_CLAIM_RECOVERY_CEILING_MS four.
StaleAge == 2
CeilingAge == 4
AgeCap == CeilingAge + 1   \* older directories are not told apart

VARIABLES
    lock,     \* the lock directory: NoDir, or its age and owner record
    claim,    \* the eviction claim directory, likewise
    pc,       \* where each process is
    acq,      \* number of the process's current acquisition
    observed, \* owner record of the lock the process saw as stale
    claimAge, \* age of the claim when the process last saw it
    faults    \* filesystem calls that have failed so far

vars == <<lock, claim, pc, acq, observed, claimAge, faults>>
evVars == <<observed, claimAge>>

\* {pid, startedAt}: the process and which of its acquisitions.
Owners == (UNION {{p} \X (1..MaxAcquisitions[p]) : p \in Procs}) \cup {NoOwner}
Dirs == [age : 0..AgeCap, owner : Owners] \cup {NoDir}
ASSUME NoDirAssumption == NoDir \notin [age : 0..AgeCap, owner : Owners]

\* Program points inside evictStaleLock.
Evicting == {"evStat", "evOwner", "claim", "claimOwner", "recStat", "recOwner",
             "recRm", "recMkdir", "reStat", "reOwner", "rmLock", "unclaim"}
Held == {"writeOwner", "holding"}
Points == {"idle", "mkdir", "deadline", "rejected", "crashed"} \cup Held \cup Evicting

TypeOK ==
    /\ lock \in Dirs
    /\ claim \in Dirs
    /\ pc \in [Procs -> Points]
    /\ acq \in [Procs -> Nat] /\ \A p \in Procs : acq[p] <= MaxAcquisitions[p]
    /\ observed \in [Procs -> Owners]
    /\ claimAge \in [Procs -> 0..AgeCap]
    /\ faults \in 0..MaxFaults

Init ==
    /\ lock = NoDir
    /\ claim = NoDir
    /\ pc = [p \in Procs |-> "idle"]
    /\ acq = [p \in Procs |-> 0]
    /\ observed = [p \in Procs |-> NoOwner]
    /\ claimAge = [p \in Procs |-> 0]
    /\ faults = 0

\* The local variables of an evictStaleLock call are gone with the call.
ForgetLocals(p) ==
    /\ observed' = [observed EXCEPT ![p] = NoOwner]
    /\ claimAge' = [claimAge EXCEPT ![p] = 0]

Goto(p, from, to) == pc[p] = from /\ pc' = [pc EXCEPT ![p] = to]

FreshDir == [age |-> 0, owner |-> NoOwner]
Me(p) == <<p, acq[p]>>
IsStale(dir) == dir # NoDir /\ dir.age > StaleAge

\* A filesystem call works or fails; failures are counted against MaxFaults.
Fails == faults < MaxFaults /\ faults' = faults + 1
Works == UNCHANGED faults

-----------------------------------------------------------------------------
(* acquireCrossProcessAccessLock and releaseCrossProcessAccessLock.        *)

Start(p) ==
    /\ acq[p] < MaxAcquisitions[p]
    /\ Goto(p, "idle", "mkdir")
    /\ acq' = [acq EXCEPT ![p] = @ + 1]
    /\ UNCHANGED <<lock, claim, evVars, faults>>

\* Mutant of MkdirLock: the directory is created recursively, so an existing
\* one is not reported.
MkdirLockRecursive(p) ==
    /\ lock' = FreshDir
    /\ Goto(p, "mkdir", "writeOwner")
    /\ UNCHANGED <<claim, acq, evVars, faults>>

\* mkdir(lockPath): taken, EEXIST, EACCES/EPERM during a release's delete, or
\* an error that is thrown.
MkdirLock(p) ==
    /\ \/ lock = NoDir /\ lock' = FreshDir /\ Works /\ Goto(p, "mkdir", "writeOwner")
       \/ lock # NoDir /\ UNCHANGED lock /\ Works /\ Goto(p, "mkdir", "evStat")
       \/ UNCHANGED lock /\ Fails /\ Goto(p, "mkdir", "deadline")
       \/ UNCHANGED lock /\ Fails /\ Goto(p, "mkdir", "rejected")
    /\ UNCHANGED <<claim, acq, evVars>>

\* The owner record is written best-effort into whatever directory is there.
WriteOwner(p) ==
    /\ Goto(p, "writeOwner", "holding")
    /\ \/ lock # NoDir /\ lock' = [age |-> 0, owner |-> Me(p)]
       \/ UNCHANGED lock
    /\ UNCHANGED <<claim, acq, evVars, faults>>

\* The head of the loop, after a sleep unless an eviction succeeded: try
\* again, or give up at the deadline.
Retry(p) ==
    /\ Goto(p, "deadline", "mkdir")
    /\ ForgetLocals(p)
    /\ UNCHANGED <<lock, claim, acq, faults>>

TimeOut(p) ==
    /\ MayTimeOut
    /\ Goto(p, "deadline", "rejected")
    /\ ForgetLocals(p)
    /\ UNCHANGED <<lock, claim, acq, faults>>

\* The heartbeat timer: utimes on whatever directory is at the lock path.
Heartbeat(p) ==
    /\ pc[p] = "holding"
    /\ lock # NoDir /\ lock.age > 0
    /\ lock' = [lock EXCEPT !.age = 0]
    /\ UNCHANGED <<claim, pc, acq, evVars, faults>>

\* The heartbeat is stopped and the lock path removed, whoever's lock it is.
Release(p) ==
    /\ Goto(p, "holding", "idle")
    /\ \/ lock' = NoDir /\ Works
       \/ UNCHANGED lock /\ Fails
    /\ UNCHANGED <<claim, acq, evVars>>

-----------------------------------------------------------------------------
(* evictStaleLock.                                                         *)

\* First look: is the lock stale at all?
EvStat(p) ==
    /\ \/ IsStale(lock) /\ Goto(p, "evStat", "evOwner")
       \/ ~IsStale(lock) /\ Goto(p, "evStat", "deadline")
    /\ UNCHANGED <<lock, claim, acq, evVars, faults>>

\* Whose is it?  An absent or unreadable record is NoOwner.
EvOwner(p) ==
    /\ Goto(p, "evOwner", "claim")
    /\ observed' = [observed EXCEPT ![p] =
                        IF lock = NoDir THEN NoOwner ELSE lock.owner]
    /\ UNCHANGED <<lock, claim, acq, claimAge, faults>>

\* takeEvictionClaim: mkdir the claim...
MkdirClaim(p) ==
    /\ \/ claim = NoDir /\ claim' = FreshDir /\ Works /\ Goto(p, "claim", "claimOwner")
       \/ claim # NoDir /\ UNCHANGED claim /\ Works /\ Goto(p, "claim", "recStat")
       \/ UNCHANGED claim /\ Fails /\ Goto(p, "claim", "deadline")
    /\ UNCHANGED <<lock, acq, evVars>>

\* ... and write its owner record, best-effort.
WriteClaimOwner(p) ==
    /\ Goto(p, "claimOwner", "reStat")
    /\ \/ claim # NoDir /\ claim' = [age |-> 0, owner |-> Me(p)]
       \/ UNCHANGED claim
    /\ UNCHANGED <<lock, acq, evVars, faults>>

\* Mutant of RecStat: an existing claim is never recovered.
RecStatNever(p) ==
    /\ Goto(p, "recStat", "deadline")
    /\ UNCHANGED <<lock, claim, acq, evVars, faults>>

\* isEvictionClaimRecoverable: a vanished claim is; a young one is not.
RecStat(p) ==
    /\ \/ claim = NoDir /\ Goto(p, "recStat", "recRm") /\ UNCHANGED claimAge
       \/ /\ claim # NoDir /\ claim.age <= StaleAge
          /\ Goto(p, "recStat", "deadline")
          /\ UNCHANGED claimAge
       \/ /\ IsStale(claim)
          /\ Goto(p, "recStat", "recOwner")
          /\ claimAge' = [claimAge EXCEPT ![p] = claim.age]
    /\ UNCHANGED <<lock, claim, acq, observed, faults>>

\* An old claim is, unless its owner is alive and the ceiling not yet reached.
RecOwner(p) ==
    LET owner == IF claim = NoDir THEN NoOwner ELSE claim.owner
        alive == owner # NoOwner /\ pc[owner[1]] # "crashed"
        recoverable == ~alive \/ claimAge[p] > CeilingAge
    IN  /\ Goto(p, "recOwner", IF recoverable THEN "recRm" ELSE "deadline")
        /\ UNCHANGED <<lock, claim, acq, evVars, faults>>

\* The claim is removed, whosever it is by now...
RecRm(p) ==
    /\ \/ claim' = NoDir /\ Works /\ Goto(p, "recRm", "recMkdir")
       \/ UNCHANGED claim /\ Fails /\ Goto(p, "recRm", "deadline")
    /\ UNCHANGED <<lock, acq, evVars>>

\* ... and taken anew, unless that fails.
RecMkdir(p) ==
    /\ \/ claim = NoDir /\ claim' = FreshDir /\ Works /\ Goto(p, "recMkdir", "claimOwner")
       \/ claim # NoDir /\ UNCHANGED claim /\ Works /\ Goto(p, "recMkdir", "deadline")
       \/ UNCHANGED claim /\ Fails /\ Goto(p, "recMkdir", "deadline")
    /\ UNCHANGED <<lock, acq, evVars>>

\* Mutant of ReStat: the lock is not looked at again under the claim.
ReStatUnchecked(p) ==
    /\ Goto(p, "reStat", "rmLock")
    /\ UNCHANGED <<lock, claim, acq, evVars, faults>>

\* Under the claim: the lock must still be stale...
ReStat(p) ==
    /\ \/ IsStale(lock) /\ Goto(p, "reStat", "reOwner")
       \/ ~IsStale(lock) /\ Goto(p, "reStat", "unclaim")
    /\ UNCHANGED <<lock, claim, acq, evVars, faults>>

\* ... and the instance observed (isSameLockInstance: unknown equals unknown).
ReOwner(p) ==
    LET current == IF lock = NoDir THEN NoOwner ELSE lock.owner
    IN  /\ Goto(p, "reOwner", IF current = observed[p] THEN "rmLock" ELSE "unclaim")
        /\ UNCHANGED <<lock, claim, acq, evVars, faults>>

RmLock(p) ==
    /\ Goto(p, "rmLock", "unclaim")
    /\ \/ lock' = NoDir /\ Works
       \/ UNCHANGED lock /\ Fails
    /\ UNCHANGED <<claim, acq, evVars>>

\* finally: the claim is removed, whosever it is by now.
Unclaim(p) ==
    /\ Goto(p, "unclaim", "deadline")
    /\ \/ claim' = NoDir /\ Works
       \/ UNCHANGED claim /\ Fails
    /\ UNCHANGED <<lock, acq, evVars>>

-----------------------------------------------------------------------------
(* The environment.                                                        *)

Older(dir, cap) ==
    IF dir = NoDir THEN NoDir
    ELSE [dir EXCEPT !.age = IF @ < cap THEN @ + 1 ELSE @]

\* One heartbeat interval passes.
Tick ==
    /\ <<lock, claim>> # <<NoDir, NoDir>>
    /\ TimelyHeartbeats /\ lock # NoDir /\ lock.age > 0 =>
           \A p \in Procs : pc[p] \notin Held
    /\ QuickEvictions => \A p \in Procs : pc[p] \notin Evicting
    /\ lock' = Older(lock, StaleAge + 1)
    /\ claim' = Older(claim, AgeCap)
    /\ UNCHANGED <<pc, acq, evVars, faults>>

\* A process dies; its directories stay behind.
Crash(p) ==
    /\ pc[p] \notin {"idle", "rejected", "crashed"}
    /\ pc[p] \in Evicting => CrashInEviction
    /\ pc' = [pc EXCEPT ![p] = "crashed"]
    /\ ForgetLocals(p)
    /\ UNCHANGED <<lock, claim, acq, faults>>

\* The caller comes again after a rejection, or a new process gets the dead
\* one's pid.
Restart(p) ==
    /\ pc[p] \in {"rejected", "crashed"}
    /\ pc' = [pc EXCEPT ![p] = "idle"]
    /\ UNCHANGED <<lock, claim, acq, evVars, faults>>

Evict(p) ==
    \/ EvStat(p) \/ EvOwner(p) \/ MkdirClaim(p) \/ WriteClaimOwner(p)
    \/ RecStat(p) \/ RecOwner(p) \/ RecRm(p) \/ RecMkdir(p)
    \/ ReStat(p) \/ ReOwner(p) \/ RmLock(p) \/ Unclaim(p)

Acquire(p) == MkdirLock(p) \/ WriteOwner(p) \/ Retry(p) \/ Evict(p)

Next ==
    \/ \E p \in Procs : \/ Start(p) \/ Acquire(p) \/ TimeOut(p)
                        \/ Heartbeat(p) \/ Release(p)
                        \/ Crash(p) \/ Restart(p)
    \/ Tick

Spec == Init /\ [][Next]_vars

\* Every process keeps running its own loop, its timers fire, the work under
\* the lock ends, and time passes.
Fairness ==
    /\ \A p \in Procs : /\ WF_vars(Acquire(p))
                        /\ WF_vars(Heartbeat(p))
                        /\ WF_vars(Release(p))
    /\ SF_vars(Tick)

LiveSpec == Spec /\ Fairness

-----------------------------------------------------------------------------
(* Correctness.                                                            *)

\* Two processes never both believe they hold the lock on the database
\* (acquireCrossProcessAccessLock returned, releaseCrossProcessAccessLock not
\* yet called).
MutualExclusion ==
    \A p, q \in Procs : pc[p] \in Held /\ pc[q] \in Held => p = q

\* While a process works under the lock, the directory at the lock path is
\* its own: its heartbeat refreshes, and its release removes, no other's lock.
HolderKeepsLock ==
    \A p \in Procs : pc[p] = "holding" =>
        lock # NoDir /\ lock.owner \in {Me(p), NoOwner}

\* What withCrossProcessLock promises at every moment: at most one holder, and
\* the lock directory it made stays its own until it releases it.
LockSafe == TypeOK /\ MutualExclusion /\ HolderKeepsLock

\* evictStaleLock removes only a lock that is stale and is the instance the
\* evictor observed: a lock taken since by another process survives.
ReplacementSurvives ==
    [][\A p \in Procs :
        pc[p] = "rmLock" /\ lock # NoDir /\ lock' = NoDir /\ pc'[p] # pc[p] =>
            IsStale(lock) /\ lock.owner = observed[p]]_vars

Holders == {p \in Procs : pc[p] \in Held}

\* The lock as its users see it: held from the mkdir on until the release; a lock
\* directory without a holder was left behind by one that died or could not remove it.
Db == INSTANCE DatabaseLock WITH
    Clients <- Procs, holders <- Holders, abandoned <- (Holders = {} /\ lock # NoDir)

\* The directory, its heartbeat and the evictions together are a lock: it is
\* taken only when free, released only by its holder, and evicted only after its
\* holder is gone, never from under a live one or in the middle of a handover.
ImplementsDatabaseLock == Db!DbSpec

\* A process that waits long enough gets the lock: neither a dead holder nor
\* an evictor that died inside evictStaleLock, or could not remove its claim,
\* blocks it forever.  It may die itself, or be told of an I/O error.
WaiterServed ==
    \A p \in Procs : pc[p] = "mkdir" ~> pc[p] \in {"holding", "crashed", "rejected"}
=============================================================================
