---------------------------- MODULE ExecutionQueue ----------------------------
(***************************************************************************)
(* runWithAccessExecutionLock and runWithAccessExecutionReadLock: the      *)
(* queue of callers that want one database in one process (a chain of      *)
(* promises behind a Map entry), and the cross-process lock that a writing *)
(* caller takes once its turn has come.                                    *)
(*                                                                         *)
(* The cross-process lock is taken at its word here: exclusive, refused    *)
(* after a timeout, and freed some time after its holder died or failed to *)
(* remove it.                                                              *)
(* That word is module DatabaseLock; this module is shown to use the lock  *)
(* so, and CrossProcessLock when it keeps the word.                        *)
(***************************************************************************)
EXTENDS Naturals, FiniteSets

CONSTANTS
    Callers,    \* calls for one database
    Processes,
    ProcOf,     \* the process a call is made in
    ReadOnly,   \* the calls that use the read variant
    Nobody      \* no caller, or no process

ASSUME ProcOfAssumption == ProcOf \in [Callers -> Processes]
ASSUME ReadOnlyAssumption == ReadOnly \subseteq Callers
ASSUME NobodyAssumption == Nobody \notin Callers \cup Processes

VARIABLES
    tail,       \* lockState.get(key) of each process: the last caller's promise
    previous,   \* the promise each caller waits for
    pc,         \* where each caller is
    resolved,   \* callers whose promise "current" is resolved
    crossLock,  \* the caller holding the cross-process lock
    alive       \* processes that have not died

queueVars == <<tail, previous, pc, resolved, crossLock, alive>>

QueuePoints == {"idle", "waiting", "acquiring", "working", "releasing", "finally",
           "settled", "crashed"}
Finished == {"settled", "crashed"}

QueueTypeOK ==
    /\ tail \in [Processes -> Callers \cup {Nobody}]
    /\ previous \in [Callers -> Callers \cup {Nobody}]
    /\ pc \in [Callers -> QueuePoints]
    /\ resolved \subseteq Callers
    /\ crossLock \in Callers \cup {Nobody}
    /\ alive \subseteq Processes

QueueInit ==
    /\ tail = [p \in Processes |-> Nobody]
    /\ previous = [c \in Callers |-> Nobody]
    /\ pc = [c \in Callers |-> "idle"]
    /\ resolved = {}
    /\ crossLock = Nobody
    /\ alive = Processes

QueueGoto(c, from, to) == pc[c] = from /\ pc' = [pc EXCEPT ![c] = to]

\* The synchronous prefix: read the Map entry, chain a promise behind it, and
\* make that promise the entry.
Enqueue(c) ==
    /\ ProcOf[c] \in alive
    /\ QueueGoto(c, "idle", "waiting")
    /\ previous' = [previous EXCEPT ![c] = tail[ProcOf[c]]]
    /\ tail' = [tail EXCEPT ![ProcOf[c]] = c]
    /\ UNCHANGED <<resolved, crossLock, alive>>

\* await previous: a reader starts its work, a writer goes for the lock.
TakeTurn(c) ==
    /\ previous[c] \in resolved \cup {Nobody}
    /\ QueueGoto(c, "waiting", IF c \in ReadOnly THEN "working" ELSE "acquiring")
    /\ UNCHANGED <<tail, previous, resolved, crossLock, alive>>

\* acquireCrossProcessAccessLock succeeds ...
AcquireCrossLock(c) ==
    /\ crossLock = Nobody
    /\ QueueGoto(c, "acquiring", "working")
    /\ crossLock' = c
    /\ UNCHANGED <<tail, previous, resolved, alive>>

\* Mutant of AcquireThrows: the release is in the outer finally, so a caller that
\* never got the lock releases it.
AcquireThrowsReleases(c) ==
    /\ QueueGoto(c, "acquiring", "releasing")
    /\ UNCHANGED <<tail, previous, resolved, crossLock, alive>>

\* ... or throws (RunnerLockTimeoutError, or another error).
AcquireThrows(c) ==
    /\ QueueGoto(c, "acquiring", "finally")
    /\ UNCHANGED <<tail, previous, resolved, crossLock, alive>>

\* work() returns or throws; a writer still has its lock to release.
WorkEnds(c) ==
    /\ QueueGoto(c, "working", IF c \in ReadOnly THEN "finally" ELSE "releasing")
    /\ UNCHANGED <<tail, previous, resolved, crossLock, alive>>

\* releaseCrossProcessAccessLock: the directory is removed best-effort.
ReleaseCrossLock(c) ==
    /\ QueueGoto(c, "releasing", "finally")
    /\ crossLock' \in {Nobody, crossLock}
    /\ UNCHANGED <<tail, previous, resolved, alive>>

\* Mutant of Finally: the Map entry is deleted whoever's it is.
FinallyDeletesAlways(c) ==
    /\ QueueGoto(c, "finally", "settled")
    /\ resolved' = resolved \cup {c}
    /\ tail' = [tail EXCEPT ![ProcOf[c]] = Nobody]
    /\ UNCHANGED <<previous, crossLock, alive>>

\* The outer finally, in one piece: resolve the caller's promise and drop the
\* Map entry if it is still the caller's own.
Finally(c) ==
    /\ QueueGoto(c, "finally", "settled")
    /\ resolved' = resolved \cup {c}
    /\ tail' = [tail EXCEPT ![ProcOf[c]] = IF @ = c THEN Nobody ELSE @]
    /\ UNCHANGED <<previous, crossLock, alive>>

\* A process dies with all its callers; its cross-process lock goes stale.
ProcessDies(p) ==
    /\ p \in alive
    /\ alive' = alive \ {p}
    /\ pc' = [c \in Callers |-> IF ProcOf[c] = p /\ pc[c] \notin Finished
                                THEN "crashed" ELSE pc[c]]
    /\ UNCHANGED <<tail, previous, resolved, crossLock>>

Writing == {c \in Callers \ ReadOnly : pc[c] \in {"working", "releasing"}}

\* A waiting process evicts the lock of a caller that died, or that ended and
\* could not remove it: no heartbeat keeps it fresh any more.
EvictStaleLock ==
    /\ crossLock # Nobody /\ crossLock \notin Writing
    /\ crossLock' = Nobody
    /\ UNCHANGED <<tail, previous, pc, resolved, alive>>

QueueStep(c) ==
    \/ TakeTurn(c) \/ AcquireCrossLock(c) \/ AcquireThrows(c)
    \/ WorkEnds(c) \/ ReleaseCrossLock(c) \/ Finally(c)

QueueNext ==
    \/ \E c \in Callers : Enqueue(c) \/ QueueStep(c)
    \/ \E p \in Processes : ProcessDies(p)
    \/ EvictStaleLock

\* The event loop runs every ready continuation; the work ends because the
\* executor has a timeout, and the acquisition because it has a deadline.
QueueSpec == QueueInit /\ [][QueueNext]_queueVars /\ \A c \in Callers : WF_queueVars(QueueStep(c))

-----------------------------------------------------------------------------
(* Correctness.                                                            *)

InLock == {"acquiring", "working", "releasing", "finally"}

\* In one process two calls for the same database never overlap, readers
\* included: each waits for the promise of the call before it.
InProcessExclusion ==
    \A c, d \in Callers :
        /\ ProcOf[c] = ProcOf[d]
        /\ pc[c] \in InLock /\ pc[d] \in InLock
        => c = d

\* Two writing calls never work on the database at once, in any process.
WritersExclusive ==
    \A c, d \in Callers \ ReadOnly :
        pc[c] \in {"working", "releasing"} /\ pc[d] \in {"working", "releasing"}
        => c = d

\* Every call that is made ends, even when calls before it threw: "every later
\* same-key call deadlocks on await previous" does not happen.
EveryCallEnds == <>[](\A c \in Callers : pc[c] \in {"idle"} \cup Finished)

\* When all calls of a process are over its Map entry has been deleted.
NoLeak ==
    \A p \in alive :
        (\A c \in Callers : ProcOf[c] = p => pc[c] \in Finished \cup {"idle"})
        => tail[p] = Nobody

CrossLock == INSTANCE DatabaseLock WITH
    Clients <- Callers \ ReadOnly, holders <- Writing,
    abandoned <- (crossLock # Nobody /\ crossLock \notin Writing)

\* The queue uses the cross-process lock as a lock: a writing caller works only
\* under it and gives it back or leaves it behind, one whose acquisition threw
\* neither works nor releases, and a lock that was left behind is taken away
\* before anybody works under it again.
QueueUsesDatabaseLock == CrossLock!DbSpec

\* The queue runs one action at a time in each process, lets no two writers work
\* at once in any process, and keeps no entry for an idle process.
QueueSafe == QueueTypeOK /\ InProcessExclusion /\ WritersExclusive /\ NoLeak
=============================================================================
