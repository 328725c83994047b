------------------------ MODULE CrossProcessLockProofs ------------------------
(***************************************************************************)
(* What the lock directory promises, for every number of processes and     *)
(* acquisitions.  The types hold whatever happens; mutual exclusion needs  *)
(* the timing that the thresholds of cross-process-lock.ts are chosen for. *)
(***************************************************************************)
EXTENDS CrossProcessLock, TLAPS

ProcStep(p) ==
    \/ Start(p) \/ Acquire(p) \/ TimeOut(p) \/ Heartbeat(p) \/ Release(p)
    \/ Crash(p) \/ Restart(p)

\* Between the start of an acquisition and its end.
Acquiring == {"mkdir", "deadline"} \cup Held \cup Evicting

Counted == \A p \in Procs : pc[p] \in Acquiring => acq[p] >= 1

TypeInv == TypeOK /\ Counted

-----------------------------------------------------------------------------
(***************************************************************************)
(* Types.  An owner record carries the number of an acquisition that has   *)
(* started, hence Counted.                                                 *)
(***************************************************************************)
(* The directory that a process makes, or writes its record into, is a     *)
(* directory.                                                              *)
LEMMA MyDirs ==
    ASSUME TypeInv, NEW p \in Procs
    PROVE  /\ FreshDir \in Dirs \ {NoDir}
           /\ pc[p] \in Acquiring => [age |-> 0, owner |-> Me(p)] \in Dirs \ {NoDir}
<1>1. 0 \in 0..AgeCap
  BY DEF AgeCap, CeilingAge
<1>2. ASSUME pc[p] \in Acquiring PROVE Me(p) \in Owners
  <2>1. acq[p] \in 1..MaxAcquisitions[p]
    BY <1>2, BoundsAssumption DEF TypeInv, TypeOK, Counted
  <2>2. Me(p) \in {p} \X (1..MaxAcquisitions[p])
    BY <2>1 DEF Me
  <2>3. {p} \X (1..MaxAcquisitions[p]) \in {{q} \X (1..MaxAcquisitions[q]) : q \in Procs}
    OBVIOUS
  <2> QED
    BY <2>2, <2>3 DEF Owners
<1>3. NoOwner \in Owners
  BY DEF Owners
<1>4. \A o \in Owners : [age |-> 0, owner |-> o] \in Dirs \ {NoDir}
  BY <1>1, NoDirAssumption DEF Dirs
<1> QED
  BY <1>2, <1>3, <1>4 DEF FreshDir

(* Growing older keeps a directory a directory.                            *)
LEMMA OlderDirs ==
    ASSUME NEW d \in Dirs, NEW cap \in 0..AgeCap PROVE Older(d, cap) \in Dirs
  BY DEF Older, Dirs, AgeCap, CeilingAge

(* A step of one process keeps the types.                                  *)
LEMMA ProcTypeStep == ASSUME TypeInv, NEW p \in Procs, ProcStep(p) PROVE TypeInv'
<1> USE BoundsAssumption DEF TypeInv, TypeOK, Counted, Acquiring, Points, Held, Evicting, evVars
<1>1. FreshDir \in Dirs /\ NoDir \in Dirs /\ NoOwner \in Owners /\ 0 \in 0..AgeCap
  BY MyDirs DEF Dirs, Owners, AgeCap, CeilingAge
<1>2. pc[p] \in Acquiring => [age |-> 0, owner |-> Me(p)] \in Dirs
  BY MyDirs
<1>3. \A d \in Dirs : d # NoDir =>
          d.owner \in Owners /\ d.age \in 0..AgeCap /\ [d EXCEPT !.age = 0] \in Dirs
  BY <1>1 DEF Dirs
<1>4. CASE Start(p)
  BY <1>1, <1>2, <1>3, <1>4 DEF Start, Goto
<1>5. CASE MkdirLock(p)
  BY <1>1, <1>2, <1>3, <1>5 DEF MkdirLock, Goto, Works, Fails, evVars
<1>6. CASE WriteOwner(p)
  BY <1>1, <1>2, <1>3, <1>6 DEF WriteOwner, Goto
<1>7. CASE Retry(p)
  BY <1>1, <1>2, <1>3, <1>7 DEF Retry, Goto, ForgetLocals
<1>8. CASE TimeOut(p)
  BY <1>1, <1>2, <1>3, <1>8 DEF TimeOut, Goto, ForgetLocals
<1>9. CASE Heartbeat(p)
  BY <1>1, <1>2, <1>3, <1>9 DEF Heartbeat
<1>10. CASE Release(p)
  BY <1>1, <1>2, <1>3, <1>10 DEF Release, Goto, Works, Fails
<1>11. CASE EvStat(p)
  BY <1>1, <1>2, <1>3, <1>11 DEF EvStat, Goto
<1>12. CASE EvOwner(p)
  BY <1>1, <1>2, <1>3, <1>12 DEF EvOwner, Goto
<1>13. CASE MkdirClaim(p)
  BY <1>1, <1>2, <1>3, <1>13 DEF MkdirClaim, Goto, Works, Fails
<1>14. CASE WriteClaimOwner(p)
  BY <1>1, <1>2, <1>3, <1>14 DEF WriteClaimOwner, Goto
<1>15. CASE RecStat(p)
  BY <1>1, <1>2, <1>3, <1>15 DEF RecStat, Goto, IsStale
<1>16. CASE RecOwner(p)
  BY <1>1, <1>2, <1>3, <1>16 DEF RecOwner, Goto
<1>17. CASE RecRm(p)
  BY <1>1, <1>2, <1>3, <1>17 DEF RecRm, Goto, Works, Fails
<1>18. CASE RecMkdir(p)
  BY <1>1, <1>2, <1>3, <1>18 DEF RecMkdir, Goto, Works, Fails
<1>19. CASE ReStat(p)
  BY <1>1, <1>2, <1>3, <1>19 DEF ReStat, Goto
<1>20. CASE ReOwner(p)
  BY <1>1, <1>2, <1>3, <1>20 DEF ReOwner, Goto
<1>21. CASE RmLock(p)
  BY <1>1, <1>2, <1>3, <1>21 DEF RmLock, Goto, Works, Fails
<1>22. CASE Unclaim(p)
  BY <1>1, <1>2, <1>3, <1>22 DEF Unclaim, Goto, Works, Fails
<1>23. CASE Crash(p)
  BY <1>1, <1>2, <1>3, <1>23 DEF Crash, ForgetLocals
<1>24. CASE Restart(p)
  BY <1>1, <1>2, <1>3, <1>24 DEF Restart
<1> QED
  BY <1>4, <1>5, <1>6, <1>7, <1>8, <1>9, <1>10, <1>11, <1>12, <1>13, <1>14,
     <1>15, <1>16, <1>17, <1>18, <1>19, <1>20, <1>21, <1>22, <1>23, <1>24
     DEF ProcStep, Acquire, Evict

(* A heartbeat interval that passes keeps the types.                       *)
LEMMA TickTypeStep == ASSUME TypeInv, Tick PROVE TypeInv'
<1>1. lock' \in Dirs /\ claim' \in Dirs
  BY OlderDirs DEF TypeInv, TypeOK, Tick, AgeCap, CeilingAge, StaleAge
<1> QED
  BY <1>1 DEF TypeInv, TypeOK, Counted, Tick, evVars

(* The type invariant and Counted are inductive.                           *)
LEMMA TypeInvStep == TypeInv /\ [Next]_vars => TypeInv'
<1>1. TypeInv /\ Next => TypeInv'
  BY ProcTypeStep, TickTypeStep DEF Next, ProcStep
<1>2. TypeInv /\ UNCHANGED vars => TypeInv'
  BY DEF TypeInv, TypeOK, Counted, vars, evVars
<1> QED
  BY <1>1, <1>2

LEMMA TypeInvInit == Init => TypeInv
<1>1. NoDir \in Dirs /\ NoOwner \in Owners /\ 0 \in 0..AgeCap
  BY DEF Dirs, Owners, AgeCap, CeilingAge
<1> QED
  BY <1>1, BoundsAssumption
     DEF Init, TypeInv, TypeOK, Counted, Points, Acquiring, Held, Evicting

(* The variables keep their types: an owner record names a process and one *)
(* of its acquisitions, ages stay under their cap, and no process starts   *)
(* more acquisitions than it is given.                                     *)
THEOREM LockTypes == Spec => []TypeOK
<1>1. TypeInv => TypeOK
  BY DEF TypeInv
<1> QED
  BY <1>1, TypeInvInit, TypeInvStep, PTL DEF Spec

-----------------------------------------------------------------------------
(***************************************************************************)
(* Mutual exclusion.  The thresholds are chosen for processes that refresh *)
(* their lock in every interval and evict within one; a filesystem fault   *)
(* or a death inside evictStaleLock can leave a claim behind that ages.    *)
(*                                                                         *)
(* A lock goes stale only while nobody is inside evictStaleLock, so every  *)
(* evictor of a stale lock came after it did, saw its owner, and finds a   *)
(* claim that is fresh: one evictor gets past the claim and removes the    *)
(* lock before it gives the claim up.  When the lock is not stale several  *)
(* may hold a claim, and none of them gets as far as the lock.             *)
(***************************************************************************)
Punctual ==
    TimelyHeartbeats /\ QuickEvictions /\ ~CrashInEviction /\ MaxFaults = 0

PastClaim == {"claimOwner", "reStat", "reOwner", "rmLock", "unclaim"}
Looked == {"claim", "recStat"} \cup PastClaim

HeldFresh ==
    \A p \in Procs : pc[p] \in Held =>
        /\ lock # NoDir /\ lock.age <= 1
        /\ lock.owner \in IF pc[p] = "writeOwner" THEN {NoOwner} ELSE {Me(p), NoOwner}

ClaimFresh ==
    /\ claim # NoDir => claim.age = 0 /\ \E p \in Procs : pc[p] \in PastClaim
    /\ \A p \in Procs : pc[p] # "recOwner"

Removing == \A p \in Procs : pc[p] \in {"reOwner", "rmLock"} => IsStale(lock)

OneEvictor ==
    IsStale(lock) =>
        /\ \A p, q \in Procs : pc[p] \in PastClaim /\ pc[q] \in PastClaim => p = q
        /\ \A p \in Procs : pc[p] \in {"recStat"} \cup PastClaim => claim # NoDir
        /\ \A p \in Procs : pc[p] \notin {"unclaim", "recRm", "recMkdir"}
        /\ \A p \in Procs : pc[p] \in Looked => observed[p] = lock.owner

LockInv ==
    TypeInv /\ MutualExclusion /\ HeldFresh /\ ClaimFresh /\ Removing /\ OneEvictor

(* Every step of a process keeps the invariant, when processes are         *)
(* punctual.                                                               *)
LEMMA ProcLockStep ==
    ASSUME Punctual, LockInv, NEW p \in Procs, ProcStep(p), TypeInv' PROVE LockInv'
<1> USE DEF Punctual, LockInv, MutualExclusion, HeldFresh, ClaimFresh, Removing, OneEvictor, IsStale,
        StaleAge, Held, Evicting, PastClaim, Looked, Me, evVars
<1>1. pc \in [Procs -> Points] /\ acq \in [Procs -> Nat] /\ observed \in [Procs -> Owners]
  BY DEF TypeInv, TypeOK
<1>2. lock # NoDir => lock \in [age : 0..AgeCap, owner : Owners] /\ lock.age \in Int
  BY DEF TypeInv, TypeOK, Dirs, AgeCap, CeilingAge
<1>3. faults = 0 /\ ~Fails
  BY DEF TypeInv, TypeOK, Fails
<1>4. /\ FreshDir # NoDir /\ FreshDir.age = 0 /\ FreshDir.owner = NoOwner
      /\ pc[p] \in Acquiring => [age |-> 0, owner |-> Me(p)] # NoDir
  BY MyDirs DEF FreshDir
<1>5. pc[p] \in Held =>
          /\ lock # NoDir /\ lock.age <= 1 /\ ~IsStale(lock)
          /\ \A q \in Procs : pc[q] \notin {"reOwner", "rmLock"}
  <2> SUFFICES ASSUME pc[p] \in Held
               PROVE  /\ lock # NoDir /\ lock.age <= 1 /\ ~IsStale(lock)
                      /\ \A q \in Procs : pc[q] \notin {"reOwner", "rmLock"}
    OBVIOUS
  <2>1. lock # NoDir /\ lock.age <= 1
    OBVIOUS
  <2>2. ~IsStale(lock)
    BY <2>1, <1>2
  <2> QED
    BY <2>1, <2>2
<1>6. CASE Start(p)
  BY <1>1, <1>2, <1>3, <1>6 DEF Start, Goto
<1>7. CASE MkdirLock(p)
  <2>1. CASE lock = NoDir /\ lock' = FreshDir /\ Goto(p, "mkdir", "writeOwner")
    <3>1. MutualExclusion'
      BY <1>1, <1>2, <1>4, <1>7, <2>1 DEF MkdirLock, Goto
    <3>2. HeldFresh'
      BY <1>1, <1>2, <1>4, <1>7, <2>1 DEF MkdirLock, Goto
    <3>3. ClaimFresh'
      BY <1>1, <1>2, <1>4, <1>7, <2>1 DEF MkdirLock, Goto
    <3>4. Removing'
      BY <1>1, <1>2, <1>4, <1>7, <2>1 DEF MkdirLock, Goto
    <3>5. OneEvictor'
      BY <1>1, <1>2, <1>4, <1>7, <2>1 DEF MkdirLock, Goto
    <3> QED
      BY <3>1, <3>2, <3>3, <3>4, <3>5
  <2>2. CASE lock' = lock /\ Goto(p, "mkdir", "evStat")
    <3>1. MutualExclusion'
      BY <1>1, <1>2, <1>7, <2>2 DEF MkdirLock, Goto
    <3>2. HeldFresh'
      BY <1>1, <1>2, <1>7, <2>2 DEF MkdirLock, Goto
    <3>3. ClaimFresh'
      BY <1>1, <1>2, <1>7, <2>2 DEF MkdirLock, Goto
    <3>4. Removing'
      BY <1>1, <1>2, <1>7, <2>2 DEF MkdirLock, Goto
    <3>5. OneEvictor'
      BY <1>1, <1>2, <1>7, <2>2 DEF MkdirLock, Goto
    <3> QED
      BY <3>1, <3>2, <3>3, <3>4, <3>5
  <2> QED
    BY <1>3, <1>7, <2>1, <2>2 DEF MkdirLock
<1>8. CASE WriteOwner(p)
  <2>1. MutualExclusion'
    BY <1>1, <1>2, <1>4, <1>8 DEF WriteOwner, Goto, Acquiring
  <2>2. HeldFresh'
    BY <1>1, <1>2, <1>4, <1>8 DEF WriteOwner, Goto, Acquiring
  <2>3. ClaimFresh'
    BY <1>1, <1>2, <1>4, <1>8 DEF WriteOwner, Goto, Acquiring
  <2>4. Removing'
    BY <1>1, <1>5, <1>8 DEF WriteOwner, Goto
  <2>5. OneEvictor'
    BY <1>1, <1>2, <1>4, <1>8 DEF WriteOwner, Goto, Acquiring
  <2> QED
    BY <2>1, <2>2, <2>3, <2>4, <2>5
<1>9. CASE Retry(p)
  BY <1>1, <1>2, <1>3, <1>9 DEF Retry, Goto, ForgetLocals
<1>10. CASE TimeOut(p)
  BY <1>1, <1>2, <1>3, <1>10 DEF TimeOut, Goto, ForgetLocals
<1>11. CASE Heartbeat(p)
  <2>1. MutualExclusion'
    BY <1>1, <1>2, <1>11 DEF Heartbeat
  <2>2. HeldFresh'
    <3>1. lock' \in [age : 0..AgeCap, owner : Owners] /\ lock'.age = 0 /\ lock'.owner = lock.owner
      BY <1>2, <1>11 DEF Heartbeat, AgeCap, CeilingAge
    <3>2. lock' # NoDir
      BY <3>1, NoDirAssumption
    <3> QED
      BY <1>1, <1>11, <3>1, <3>2 DEF Heartbeat
  <2>3. ClaimFresh'
    BY <1>1, <1>2, <1>11 DEF Heartbeat
  <2>4. Removing'
    BY <1>1, <1>2, <1>11 DEF Heartbeat
  <2>5. OneEvictor'
    BY <1>1, <1>2, <1>11 DEF Heartbeat
  <2> QED
    BY <2>1, <2>2, <2>3, <2>4, <2>5
<1>12. CASE Release(p)
  <2>1. MutualExclusion'
    BY <1>1, <1>2, <1>3, <1>12 DEF Release, Goto
  <2>2. HeldFresh'
    BY <1>1, <1>2, <1>3, <1>12 DEF Release, Goto
  <2>3. ClaimFresh'
    BY <1>1, <1>2, <1>3, <1>12 DEF Release, Goto
  <2>4. Removing'
    BY <1>1, <1>5, <1>12 DEF Release, Goto
  <2>5. OneEvictor'
    BY <1>1, <1>2, <1>3, <1>12 DEF Release, Goto
  <2> QED
    BY <2>1, <2>2, <2>3, <2>4, <2>5
<1>13. CASE EvStat(p)
  BY <1>1, <1>2, <1>3, <1>13 DEF EvStat, Goto
<1>14. CASE EvOwner(p)
  BY <1>1, <1>2, <1>3, <1>14 DEF EvOwner, Goto
<1>15. CASE MkdirClaim(p)
  <2>1. MutualExclusion'
    BY <1>1, <1>2, <1>3, <1>4, <1>15 DEF MkdirClaim, Goto
  <2>2. HeldFresh'
    BY <1>1, <1>2, <1>3, <1>4, <1>15 DEF MkdirClaim, Goto
  <2>3. ClaimFresh'
    BY <1>1, <1>2, <1>3, <1>4, <1>15 DEF MkdirClaim, Goto
  <2>4. Removing'
    BY <1>1, <1>2, <1>3, <1>4, <1>15 DEF MkdirClaim, Goto
  <2>5. OneEvictor'
    BY <1>1, <1>2, <1>3, <1>4, <1>15 DEF MkdirClaim, Goto
  <2> QED
    BY <2>1, <2>2, <2>3, <2>4, <2>5
<1>16. CASE WriteClaimOwner(p)
  <2>1. MutualExclusion'
    BY <1>1, <1>2, <1>4, <1>16 DEF WriteClaimOwner, Goto, Acquiring
  <2>2. HeldFresh'
    BY <1>1, <1>2, <1>4, <1>16 DEF WriteClaimOwner, Goto, Acquiring
  <2>3. ClaimFresh'
    BY <1>1, <1>2, <1>4, <1>16 DEF WriteClaimOwner, Goto, Acquiring
  <2>4. Removing'
    BY <1>1, <1>2, <1>4, <1>16 DEF WriteClaimOwner, Goto, Acquiring
  <2>5. OneEvictor'
    BY <1>1, <1>2, <1>4, <1>16 DEF WriteClaimOwner, Goto, Acquiring
  <2> QED
    BY <2>1, <2>2, <2>3, <2>4, <2>5
<1>17. CASE RecStat(p)
  BY <1>1, <1>2, <1>3, <1>17 DEF RecStat, Goto
<1>18. CASE RecOwner(p)
  BY <1>1, <1>2, <1>3, <1>18 DEF RecOwner, Goto
<1>19. CASE RecRm(p)
  BY <1>1, <1>2, <1>3, <1>19 DEF RecRm, Goto, Works
<1>20. CASE RecMkdir(p)
  BY <1>1, <1>2, <1>3, <1>20 DEF RecMkdir, Goto, FreshDir
<1>21. CASE ReStat(p)
  BY <1>1, <1>2, <1>3, <1>21 DEF ReStat, Goto
<1>22. CASE ReOwner(p)
  BY <1>1, <1>2, <1>3, <1>22 DEF ReOwner, Goto
<1>23. CASE RmLock(p)
  <2>1. MutualExclusion'
    BY <1>1, <1>2, <1>3, <1>23 DEF RmLock, Goto
  <2>2. HeldFresh'
    BY <1>1, <1>2, <1>3, <1>23 DEF RmLock, Goto
  <2>3. ClaimFresh'
    BY <1>1, <1>2, <1>3, <1>23 DEF RmLock, Goto
  <2>4. Removing'
    BY <1>1, <1>2, <1>3, <1>23 DEF RmLock, Goto
  <2>5. OneEvictor'
    BY <1>1, <1>2, <1>3, <1>23 DEF RmLock, Goto
  <2> QED
    BY <2>1, <2>2, <2>3, <2>4, <2>5
<1>24. CASE Unclaim(p)
  BY <1>1, <1>2, <1>3, <1>24 DEF Unclaim, Goto, Works
<1>25. CASE Crash(p)
  BY <1>1, <1>2, <1>3, <1>25 DEF Crash, ForgetLocals
<1>26. CASE Restart(p)
  BY <1>1, <1>2, <1>3, <1>26 DEF Restart
<1> QED
  BY <1>6, <1>7, <1>8, <1>9, <1>10, <1>11, <1>12, <1>13, <1>14, <1>15, <1>16,
     <1>17, <1>18, <1>19, <1>20, <1>21, <1>22, <1>23, <1>24, <1>25, <1>26
     DEF ProcStep, Acquire, Evict

(* An interval passes: nobody is inside evictStaleLock, so there is no     *)
(* claim, and a held lock was fresh.                                       *)
LEMMA TickLockStep == ASSUME Punctual, LockInv, Tick, TypeInv' PROVE LockInv'
<1> USE DEF Punctual, LockInv
<1>1. \A p \in Procs : pc[p] \notin Evicting /\ pc'[p] = pc[p]
  BY DEF Tick
<1>2. claim = NoDir /\ claim' = NoDir
  BY <1>1 DEF Tick, ClaimFresh, PastClaim, Evicting, Older
<1>3. (lock = NoDir => lock' = NoDir) /\ (lock # NoDir => lock'.owner = lock.owner /\ lock' # NoDir)
  <2>1. ASSUME lock # NoDir PROVE lock'.owner = lock.owner /\ lock' # NoDir
    <3>1. lock \in [age : 0..AgeCap, owner : Owners] /\ lock' = [lock EXCEPT !.age = lock'.age]
      BY <2>1 DEF TypeInv, TypeOK, Dirs, Tick, Older
    <3>2. lock' \in [age : 0..AgeCap, owner : Owners]
      BY <2>1, <3>1 DEF Tick, Older, StaleAge, AgeCap, CeilingAge
    <3> QED
      BY <3>1, <3>2, NoDirAssumption
  <2> QED
    BY <2>1 DEF Tick, Older
<1>4. ASSUME NEW p \in Procs, pc[p] \in Held PROVE lock # NoDir /\ lock'.age <= 1
  <2>1. lock # NoDir /\ lock.age \in Nat /\ ~(lock.age > 0)
    <3>1. lock # NoDir
      BY <1>4 DEF HeldFresh
    <3>2. lock.age \in Nat
      BY <3>1 DEF TypeInv, TypeOK, Dirs, AgeCap, CeilingAge
    <3> QED
      BY <1>4, <3>1, <3>2 DEF Tick
  <2>2. lock.age = 0
    BY <2>1
  <2>3. lock \in [age : 0..AgeCap, owner : Owners] /\ lock' = [lock EXCEPT !.age = 1]
    BY <2>1, <2>2 DEF Tick, Older, StaleAge, TypeInv, TypeOK, Dirs
  <2> QED
    BY <2>1, <2>3
<1>5. MutualExclusion'
  BY <1>1 DEF MutualExclusion
<1>6. HeldFresh'
  BY <1>1, <1>3, <1>4 DEF HeldFresh, Tick, Me
<1>7. ClaimFresh' /\ Removing' /\ OneEvictor'
  BY <1>1, <1>2 DEF ClaimFresh, Removing, OneEvictor, Evicting, PastClaim, Looked
<1> QED
  BY <1>5, <1>6, <1>7

(* The invariant holds at first and is kept by every step.                 *)
LEMMA LockInvInit == Init => LockInv
<1>1. Init => TypeInv
  BY TypeInvInit
<1> QED
  BY <1>1 DEF Init, LockInv, MutualExclusion, HeldFresh, ClaimFresh, Removing, OneEvictor,
              IsStale, Held

LEMMA LockInvStep == ASSUME Punctual PROVE LockInv /\ [Next]_vars => LockInv'
<1>1. ASSUME LockInv, Next PROVE LockInv'
  BY <1>1, TypeInvStep, ProcLockStep, TickLockStep DEF Next, ProcStep, LockInv
<1>2. ASSUME LockInv, UNCHANGED vars PROVE LockInv'
  BY <1>2, TypeInvStep DEF LockInv, vars, evVars, MutualExclusion, HeldFresh, ClaimFresh, Removing,
     OneEvictor, IsStale, Me
<1> QED
  BY <1>1, <1>2

(* withCrossProcessLock, with heartbeats and evictions in time and nothing *)
(* failing inside an eviction: at most one process holds the lock on the   *)
(* database, and the directory stays its own until it releases it.         *)
THEOREM LockIsSafe == Punctual => (Spec => []LockSafe)
<1> SUFFICES ASSUME Punctual PROVE Spec => []LockSafe
  OBVIOUS
<1>1. LockInv /\ [Next]_vars => LockInv'
  BY LockInvStep
<1>2. LockInv => LockSafe
  BY DEF LockInv, TypeInv, HeldFresh, LockSafe, HolderKeepsLock, Held
<1> QED
  BY <1>1, <1>2, LockInvInit, PTL DEF Spec

(* evictStaleLock, under the same timing: the lock it removes is stale and *)
(* is the one it observed, so a lock taken since by another process is     *)
(* never removed.                                                          *)
THEOREM ReplacementsSurvive == Punctual => (Spec => ReplacementSurvives)
<1> SUFFICES ASSUME Punctual PROVE Spec => ReplacementSurvives
  OBVIOUS
<1>1. LockInv /\ [Next]_vars => LockInv'
  BY LockInvStep
<1>2. LockInv => \A p \in Procs :
          pc[p] = "rmLock" => IsStale(lock) /\ lock.owner = observed[p]
  BY DEF LockInv, Removing, OneEvictor, Looked, PastClaim
<1> DEFINE Survives ==
      \A p \in Procs :
        pc[p] = "rmLock" /\ lock # NoDir /\ lock' = NoDir /\ pc'[p] # pc[p] =>
            IsStale(lock) /\ lock.owner = observed[p]
<1>3. LockInv /\ [Next]_vars => [Survives]_vars
  BY <1>2
<1> QED
  BY <1>1, <1>3, LockInvInit, PTL DEF Spec, ReplacementSurvives

-----------------------------------------------------------------------------
(***************************************************************************)
(* The directories are a lock.                                             *)
(***************************************************************************)
(* A lock that is evicted is nobody's: the lock of a live holder is never  *)
(* stale.                                                                  *)
LEMMA StaleIsUnheld == ASSUME LockInv, IsStale(lock) PROVE Holders = {}
<1>1. lock.age \in Int
  BY DEF LockInv, TypeInv, TypeOK, Dirs, IsStale, AgeCap, CeilingAge
<1>2. ASSUME NEW p \in Procs, pc[p] \in Held PROVE lock.age <= 1
  BY <1>2 DEF LockInv, HeldFresh
<1> QED
  BY <1>1, <1>2 DEF Holders, IsStale, StaleAge

(* A step that leaves the holders alone, and neither makes nor removes a   *)
(* lock, is not seen.                                                      *)
LEMMA LockStays ==
    ASSUME \A p \in Procs : pc[p] \in Held <=> pc'[p] \in Held,
           lock = NoDir <=> lock' = NoDir
    PROVE  UNCHANGED Db!lockVars
  BY DEF Holders, Db!lockVars

(* Time makes no directory and removes none, and neither does a holder     *)
(* that touches its own.                                                   *)
LEMMA LockStaysThere ==
    ASSUME LockInv, lock # NoDir, lock' = Older(lock, StaleAge + 1) \/ lock' = [lock EXCEPT !.age = 0]
    PROVE  lock' # NoDir
<1>1. lock \in [age : 0..AgeCap, owner : Owners]
  BY DEF LockInv, TypeInv, TypeOK, Dirs
<1>2. lock' \in [age : 0..AgeCap, owner : Owners]
  BY <1>1 DEF Older, StaleAge, AgeCap, CeilingAge
<1> QED
  BY <1>2, NoDirAssumption

(* Only four kinds of steps are seen by the users of the lock.             *)
LEMMA ProcDbStep ==
    ASSUME Punctual, LockInv, NEW p \in Procs, ProcStep(p)
    PROVE  [Db!DbNext]_(Db!lockVars)
<1> USE DEF Held, Evicting
<1>1. pc \in [Procs -> Points] /\ ~Fails
  BY DEF Punctual, LockInv, TypeInv, TypeOK, Fails
<1>2. FreshDir # NoDir /\ (pc[p] \in Held => lock # NoDir /\ Holders = {p})
  BY MyDirs DEF LockInv, HeldFresh, MutualExclusion, Holders
<1>3. CASE MkdirLock(p) /\ lock = NoDir
  <2>1. Holders = {} /\ pc[p] \notin Held
    BY <1>3 DEF LockInv, HeldFresh, Holders
  <2>2. lock' = FreshDir /\ pc' = [pc EXCEPT ![p] = "writeOwner"]
    BY <1>1, <1>3 DEF MkdirLock, Goto
  <2>3. Holders' = {p}
    BY <1>1, <2>1, <2>2 DEF Holders
  <2> QED
    BY <1>2, <1>3, <2>1, <2>3 DEF Db!DbNext, Db!Take
<1>4. CASE Release(p)
  <2>1. lock' = NoDir /\ pc[p] = "holding" /\ pc' = [pc EXCEPT ![p] = "idle"]
    BY <1>1, <1>4 DEF Release, Goto
  <2>2. Holders = {p} /\ Holders' = {}
    BY <1>1, <1>2, <2>1 DEF Holders
  <2> QED
    BY <2>1, <2>2 DEF Db!DbNext, Db!Give
<1>5. CASE Crash(p) /\ pc[p] \in Held
  <2>1. Holders = {p} /\ Holders' = {}
    BY <1>1, <1>2, <1>5 DEF Crash, Holders
  <2>2. lock' # NoDir
    BY <1>2, <1>5 DEF Crash
  <2> QED
    BY <2>1, <2>2 DEF Db!DbNext, Db!Abandon
<1>6. CASE RmLock(p)
  <2>1. IsStale(lock)
    BY <1>6 DEF LockInv, Removing, RmLock, Goto
  <2>2. Holders = {} /\ lock # NoDir
    BY <2>1, StaleIsUnheld DEF IsStale
  <2>3. lock' = NoDir /\ Holders' = {}
    BY <1>1, <1>6, <2>2 DEF RmLock, Goto, Holders
  <2> QED
    BY <2>2, <2>3 DEF Db!DbNext, Db!TakeAway
<1>7. CASE ~(MkdirLock(p) /\ lock = NoDir) /\ ~Release(p) /\ ~RmLock(p)
           /\ ~(Crash(p) /\ pc[p] \in Held)
  <2>1. WriteOwner(p) => (lock = NoDir <=> lock' = NoDir)
    BY MyDirs DEF WriteOwner, Goto, Acquiring, LockInv
  <2>2. Heartbeat(p) => (lock = NoDir <=> lock' = NoDir)
    BY LockStaysThere DEF Heartbeat
  <2>3. lock = NoDir <=> lock' = NoDir
    BY <1>1, <1>7, <2>1, <2>2
       DEF ProcStep, Acquire, Evict, Start, MkdirLock, Retry, TimeOut,
           Crash, Restart, EvStat, EvOwner, MkdirClaim, WriteClaimOwner, RecStat, RecOwner,
           RecRm, RecMkdir, ReStat, ReOwner, Unclaim
  <2>4. \A q \in Procs : pc[q] \in Held <=> pc'[q] \in Held
    BY <1>1, <1>7
       DEF ProcStep, Acquire, Evict, Start, MkdirLock, WriteOwner, Retry, TimeOut, Heartbeat,
           Crash, Restart, EvStat, EvOwner, MkdirClaim, WriteClaimOwner, RecStat, RecOwner,
           RecRm, RecMkdir, ReStat, ReOwner, Unclaim, Goto
  <2> QED
    BY <2>3, <2>4, LockStays
<1> QED
  BY <1>3, <1>4, <1>5, <1>6, <1>7

(* The same for the passing of time, and for steps of nobody.              *)
LEMMA DbStep ==
    ASSUME Punctual PROVE LockInv /\ [Next]_vars => [Db!DbNext]_(Db!lockVars)
<1> SUFFICES ASSUME LockInv, [Next]_vars PROVE [Db!DbNext]_(Db!lockVars)
  OBVIOUS
<1>1. CASE Tick
  <2>1. lock = NoDir <=> lock' = NoDir
    BY <1>1, LockStaysThere DEF Tick, Older
  <2> QED
    BY <1>1, <2>1, LockStays DEF Tick
<1>2. CASE UNCHANGED vars
  BY <1>2, LockStays DEF vars
<1>3. CASE \E p \in Procs : ProcStep(p)
  BY <1>3, ProcDbStep
<1> QED
  BY <1>1, <1>2, <1>3 DEF Next, ProcStep

(* cross-process-lock.ts implements the lock that its users rely on, under *)
(* the timing its thresholds are chosen for: a lock is taken only when it  *)
(* is free, and evicted only once its holder has died.                     *)
THEOREM LockIsALock == Punctual => (Spec => ImplementsDatabaseLock)
<1> SUFFICES ASSUME Punctual PROVE Spec => ImplementsDatabaseLock
  OBVIOUS
<1>1. LockInv /\ [Next]_vars => LockInv'
  BY LockInvStep
<1>2. Init => Db!DbInit
  BY DEF Init, Db!DbInit, Holders, Held
<1>3. LockInv /\ [Next]_vars => [Db!DbNext]_(Db!lockVars)
  BY DbStep
<1> QED
  BY <1>1, <1>2, <1>3, LockInvInit, PTL DEF Spec, ImplementsDatabaseLock, Db!DbSpec
===============================================================================
