-------------------------- MODULE FileRegistryProofs --------------------------
(***************************************************************************)
(* Proofs about FileRegistry, for every set of calls, processes, requests  *)
(* and record ids.                                                         *)
(***************************************************************************)
EXTENDS FileRegistry, SequenceTheorems, FiniteSetTheorems, TLAPS

USE DEF lockVars, dataVars, readVars

\* Deleting ids from a map gives a map.
LEMMA WithoutType ==
    ASSUME NEW r \in RecordMaps, NEW E
    PROVE  Without(r, E) \in RecordMaps
BY DEF Without, RecordMaps

\* evictOldestRecordsFromMap returns a map of the same type.
LEMMA EvictionsType ==
    ASSUME NEW r \in RecordMaps
    PROVE  Evictions(r) \subseteq RecordMaps
BY WithoutType DEF Evictions

\* What create and update write is a map again.
LEMMA EffectsType ==
    ASSUME NEW q \in Requests, NEW r \in RecordMaps
    PROVE  Effects(q, r) \subseteq RecordMaps
<1>1. q \in Request
  BY RequestsAssumption
<1>2. [r EXCEPT ![q.op] = [status |-> q.status, at |-> q.at]] \in RecordMaps
  BY <1>1 DEF Request, RecordMaps, Record
<1>3. QED
  BY <1>2, WithoutType, EvictionsType DEF Effects

\* A chain a call has joined is not empty.
LEMMA AppendNonEmpty ==
    ASSUME NEW S, NEW q \in Seq(S), NEW e \in S
    PROVE  Append(q, e) # <<>>
BY AppendProperties

\* The empty registry is a map.
LEMMA NoRecordsType == NoRecords \in RecordMaps
BY DEF NoRecords, RecordMaps

-----------------------------------------------------------------------------
(* The lock protocol, with damaged files, read errors and crashes.         *)

\* The inductive invariant behind mutual exclusion.  HolderOwnsLock alone is
\* not inductive: rmdir must be seen to fail while an owner file exists, and
\* that file to lie in an existing directory.
LockInv ==
    /\ TypeOK
    /\ owner # NoOwner => lockDir
    /\ HolderOwnsLock
    /\ RunningIsHead

LEMMA LockInit == Init => LockInv
<1> SUFFICES ASSUME Init PROVE LockInv
  OBVIOUS
<1>1. TypeOK
  <2>1. queue \in [Processes -> Seq(Mutations)]
    BY DEF Init
  <2>2. pc \in [Mutations -> Points]
    BY DEF Init, Points
  <2>3. file \in RecordMaps \cup {Corrupt} /\ local \in [Mutations -> RecordMaps]
    BY NoRecordsType DEF Init
  <2>4. QED
    BY <2>1, <2>2, <2>3 DEF Init, TypeOK, Outcomes
<1>2. QED
  BY <1>1 DEF Init, LockInv, HolderOwnsLock, RunningIsHead, Holding, Running, Acquiring

\* Every step of a call, the handling of unreadable files included.
CallStep(m) == Step(m) \/ ReadCorrupt(m) \/ Quarantine(m) \/ ReadError(m)

\* A call moves between program points only.
LEMMA StepPoints ==
    ASSUME TypeOK, NEW m \in Mutations, CallStep(m)
    PROVE  pc' \in [Mutations -> Points]
<1> USE DEF TypeOK, Goto, Points, Acquiring, Holding, Settled
<1>1. CASE WithFileLock(m)
  BY <1>1 DEF WithFileLock
<1>2. CASE StartAcquire(m)
  BY <1>2 DEF StartAcquire
<1>3. CASE Settle(m)
  BY <1>3 DEF Settle
<1>4. CASE MkdirLock(m)
  <2>1. \E to \in Points : pc' = [pc EXCEPT ![m] = to]
    BY <1>4 DEF MkdirLock
  <2>2. QED
    BY <2>1
<1>5. CASE WriteOwner(m)
  BY <1>5 DEF WriteOwner
<1>6. CASE OwnRead(m)
  BY <1>6 DEF OwnRead, AfterOwnerWrite
<1>7. CASE OwnRmdir(m)
  BY <1>7 DEF OwnRmdir, AfterOwnerWrite, Rmdir
<1>8. CASE RemoveLockIfStale(m)
  <2>1. \E to \in Points : pc' = [pc EXCEPT ![m] = to]
    BY <1>8 DEF RemoveLockIfStale, StaleRead, StaleStat, StaleRmdir
  <2>2. QED
    BY <2>1
<1>9. CASE Retry(m)
  BY <1>9 DEF Retry
<1>10. CASE TimeOut(m)
  BY <1>10 DEF TimeOut
<1>11. CASE ReadRecords(m)
  BY <1>11 DEF ReadRecords, GotRecords
<1>12. CASE WriteRecords(m)
  BY <1>12 DEF WriteRecords
<1>13. CASE ReleaseRead(m)
  BY <1>13 DEF ReleaseRead, AfterRelease
<1>14. CASE ReleaseRm(m)
  BY <1>14 DEF ReleaseRm, AfterRelease
<1>15. CASE ReleaseRmdir(m)
  BY <1>15 DEF ReleaseRmdir, AfterRelease, Rmdir
<1>16. CASE ReadCorrupt(m)
  BY <1>16 DEF ReadCorrupt
<1>17. CASE Quarantine(m)
  BY <1>17 DEF Quarantine, QuarantineCorruptFile, GotRecords
<1>18. CASE ReadError(m)
  BY <1>18 DEF ReadError, GotRecords
<1>19. QED
  BY <1>1, <1>2, <1>3, <1>4, <1>5, <1>6, <1>7, <1>8, <1>9, <1>10, <1>11, <1>12, <1>13, <1>14, <1>15, <1>16, <1>17, <1>18 DEF CallStep, Step

\* A call keeps the chains well typed and its own place at the head.
LEMMA StepQueue ==
    ASSUME TypeOK, RunningIsHead, NEW m \in Mutations, CallStep(m)
    PROVE  queue' \in [Processes -> Seq(Mutations)] /\ RunningIsHead'
<1> USE ProcOfAssumption DEF TypeOK, RunningIsHead, Goto, Running, Points, Acquiring, Holding, Settled
<1>1. CASE WithFileLock(m)
  <2>1. queue[ProcOf[m]] \in Seq(Mutations) /\ ProcOf[m] \in Processes
    OBVIOUS
  <2>2. Append(queue[ProcOf[m]], m) \in Seq(Mutations)
    BY <2>1
  <2>3. queue[ProcOf[m]] # <<>> => Head(Append(queue[ProcOf[m]], m)) = Head(queue[ProcOf[m]])
    BY <2>1, HeadTailAppend
  <2>4. Append(queue[ProcOf[m]], m) # <<>>
    BY <2>1, AppendNonEmpty
  <2>5. QED
    BY <1>1, <2>1, <2>2, <2>3, <2>4 DEF WithFileLock
<1>2. CASE StartAcquire(m)
  BY <1>2 DEF StartAcquire
<1>3. CASE Settle(m)
  BY <1>3 DEF Settle
<1>4. CASE MkdirLock(m)
  BY <1>4 DEF MkdirLock
<1>5. CASE WriteOwner(m)
  BY <1>5 DEF WriteOwner
<1>6. CASE OwnRead(m)
  BY <1>6 DEF OwnRead, AfterOwnerWrite
<1>7. CASE OwnRmdir(m)
  BY <1>7 DEF OwnRmdir, AfterOwnerWrite, Rmdir
<1>8. CASE RemoveLockIfStale(m)
  BY <1>8 DEF RemoveLockIfStale, StaleRead, StaleStat, StaleRmdir, Rmdir
<1>9. CASE Retry(m)
  BY <1>9 DEF Retry
<1>10. CASE TimeOut(m)
  BY <1>10 DEF TimeOut
<1>11. CASE ReadRecords(m)
  BY <1>11 DEF ReadRecords, GotRecords
<1>12. CASE WriteRecords(m)
  BY <1>12 DEF WriteRecords
<1>13. CASE ReleaseRead(m)
  BY <1>13 DEF ReleaseRead, AfterRelease
<1>14. CASE ReleaseRm(m)
  BY <1>14 DEF ReleaseRm, AfterRelease
<1>15. CASE ReleaseRmdir(m)
  BY <1>15 DEF ReleaseRmdir, AfterRelease, Rmdir
<1>16. CASE ReadCorrupt(m)
  BY <1>16 DEF ReadCorrupt
<1>17. CASE Quarantine(m)
  BY <1>17 DEF Quarantine, QuarantineCorruptFile, GotRecords
<1>18. CASE ReadError(m)
  BY <1>18 DEF ReadError, GotRecords
<1>19. QED
  BY <1>1, <1>2, <1>3, <1>4, <1>5, <1>6, <1>7, <1>8, <1>9, <1>10, <1>11, <1>12, <1>13, <1>14, <1>15, <1>16, <1>17, <1>18 DEF CallStep, Step

\* No step takes the lock away from a holder.
LEMMA StepHolder ==
    ASSUME TypeOK, owner # NoOwner => lockDir, HolderOwnsLock, NEW m \in Mutations, CallStep(m)
    PROVE  HolderOwnsLock' /\ (owner # NoOwner => lockDir)'
<1> USE NoOwnerAssumption DEF TypeOK, HolderOwnsLock, Goto, Points, Acquiring, Holding, Settled
<1>1. CASE WithFileLock(m)
  BY <1>1 DEF WithFileLock
<1>2. CASE StartAcquire(m)
  BY <1>2 DEF StartAcquire
<1>3. CASE Settle(m)
  BY <1>3 DEF Settle
<1>4. CASE MkdirLock(m)
  BY <1>4 DEF MkdirLock
<1>5. CASE WriteOwner(m)
  BY <1>5 DEF WriteOwner
<1>6. CASE OwnRead(m)
  BY <1>6 DEF OwnRead, AfterOwnerWrite
<1>7. CASE OwnRmdir(m)
  BY <1>7 DEF OwnRmdir, AfterOwnerWrite, Rmdir
<1>8. CASE RemoveLockIfStale(m)
  BY <1>8 DEF RemoveLockIfStale, StaleRead, StaleStat, StaleRmdir, Rmdir
<1>9. CASE Retry(m)
  BY <1>9 DEF Retry
<1>10. CASE TimeOut(m)
  BY <1>10 DEF TimeOut
<1>11. CASE ReadRecords(m)
  BY <1>11 DEF ReadRecords, GotRecords
<1>12. CASE WriteRecords(m)
  BY <1>12 DEF WriteRecords
<1>13. CASE ReleaseRead(m)
  BY <1>13 DEF ReleaseRead, AfterRelease
<1>14. CASE ReleaseRm(m)
  BY <1>14 DEF ReleaseRm, AfterRelease
<1>15. CASE ReleaseRmdir(m)
  BY <1>15 DEF ReleaseRmdir, AfterRelease, Rmdir
<1>16. CASE ReadCorrupt(m)
  BY <1>16 DEF ReadCorrupt
<1>17. CASE Quarantine(m)
  BY <1>17 DEF Quarantine, QuarantineCorruptFile, GotRecords
<1>18. CASE ReadError(m)
  BY <1>18 DEF ReadError, GotRecords
<1>19. QED
  BY <1>1, <1>2, <1>3, <1>4, <1>5, <1>6, <1>7, <1>8, <1>9, <1>10, <1>11, <1>12, <1>13, <1>14, <1>15, <1>16, <1>17, <1>18 DEF CallStep, Step

\* The data a call carries keeps its type.
LEMMA StepData ==
    ASSUME TypeOK, NEW m \in Mutations, CallStep(m)
    PROVE  /\ file' \in RecordMaps \cup {Corrupt}
           /\ quarantined' \subseteq RecordMaps \cup {Corrupt}
           /\ local' \in [Mutations -> RecordMaps]
           /\ outcome' \in [Mutations -> Outcomes]
<1> USE DEF TypeOK, Outcomes
<1>1. CASE ReadRecords(m)
  BY <1>1 DEF ReadRecords, GotRecords, Returned
<1>2. CASE WriteRecords(m)
  <2>1. Effects(req[m], local[m]) \subseteq RecordMaps
    BY EffectsType
  <2>2. QED
    BY <1>2, <2>1 DEF WriteRecords, Returned
<1>3. CASE Quarantine(m) \/ ReadError(m)
  BY <1>3, NoRecordsType DEF Quarantine, ReadError, QuarantineCorruptFile, GotRecords, Returned
<1>4. CASE UNCHANGED <<file, quarantined, local, outcome>>
  BY <1>4
<1>5. QED
  BY <1>1, <1>2, <1>3, <1>4 DEF CallStep, Step, WithFileLock, StartAcquire, Settle,
     MkdirLock, WriteOwner, OwnRead, OwnRmdir, RemoveLockIfStale, StaleRead, StaleStat,
     StaleRmdir, Retry, TimeOut, ReleaseRead, ReleaseRm, ReleaseRmdir, ReadCorrupt

\* The rest of the type invariant.
LEMMA StepRest ==
    ASSUME TypeOK, NEW m \in Mutations, CallStep(m)
    PROVE  /\ lockDir' \in BOOLEAN /\ lockStale' \in BOOLEAN
           /\ owner' \in Mutations \cup {NoOwner}
           /\ alive' \subseteq Processes
           /\ req' \in [Mutations -> Requests]
           /\ fatal' \in [Mutations -> BOOLEAN]
           /\ rpc' \in [Processes -> {"idle", "sawCorrupt"}]
           /\ health' \in [Processes -> {"ok", "degraded"}]
<1> USE ProcOfAssumption DEF TypeOK
<1>1. CASE MkdirLock(m) \/ WriteOwner(m) \/ OwnRmdir(m) \/ RemoveLockIfStale(m)
           \/ ReleaseRm(m) \/ ReleaseRmdir(m)
  BY <1>1 DEF MkdirLock, WriteOwner, OwnRmdir, RemoveLockIfStale, StaleRead, StaleStat,
     StaleRmdir, ReleaseRm, ReleaseRmdir, Rmdir
<1>2. CASE ReadRecords(m) \/ WriteRecords(m) \/ ReadCorrupt(m) \/ Quarantine(m) \/ ReadError(m)
  BY <1>2 DEF ReadRecords, WriteRecords, ReadCorrupt, Quarantine, QuarantineCorruptFile, ReadError
<1>3. CASE UNCHANGED <<lockDir, lockStale, owner, alive, req, fatal, rpc, health>>
  BY <1>3
<1>4. QED
  BY <1>1, <1>2, <1>3 DEF CallStep, Step, WithFileLock, StartAcquire, Settle, OwnRead,
     Retry, TimeOut, ReleaseRead

\* A step of a call keeps the lock invariant.
LEMMA StepLock ==
    ASSUME LockInv, NEW m \in Mutations, CallStep(m)
    PROVE  LockInv'
<1>1. TypeOK /\ (owner # NoOwner => lockDir) /\ HolderOwnsLock /\ RunningIsHead
  BY DEF LockInv
<1>2. TypeOK'
  BY <1>1, StepPoints, StepQueue, StepData, StepRest DEF TypeOK
<1>3. QED
  BY <1>1, <1>2, StepQueue, StepHolder DEF LockInv

\* So does a step of the environment or of a lock-free reader.
LEMMA EnvLock ==
    ASSUME LockInv, NEW p \in Processes,
           Crash(p) \/ LockAges \/ ReaderRead(p) \/ ReaderQuarantine(p) \/ DamageFile
    PROVE  LockInv'
<1> USE DEF LockInv, TypeOK, HolderOwnsLock, RunningIsHead
<1>1. CASE Crash(p)
  <2>1. pc' \in [Mutations -> Points]
    BY <1>1 DEF Crash, Points, Settled
  <2>2. queue' \in [Processes -> Seq(Mutations)]
    BY <1>1 DEF Crash
  <2>3. HolderOwnsLock'
    BY <1>1 DEF Crash, Holding
  <2>4. RunningIsHead'
    BY <1>1, ProcOfAssumption DEF Crash, Running, Acquiring, Holding, Settled
  <2>5. QED
    BY <1>1, <2>1, <2>2, <2>3, <2>4 DEF Crash
<1>2. CASE LockAges
  BY <1>2 DEF LockAges
<1>3. CASE ReaderRead(p)
  BY <1>3 DEF ReaderRead
<1>4. CASE ReaderQuarantine(p)
  BY <1>4, NoRecordsType DEF ReaderQuarantine, QuarantineCorruptFile
<1>5. CASE DamageFile
  BY <1>5 DEF DamageFile
<1>6. QED
  BY <1>1, <1>2, <1>3, <1>4, <1>5

\* Every step, of any kind, keeps the lock invariant.
LEMMA LockStep == LockInv /\ [FaultyNext]_vars => LockInv'
<1> SUFFICES ASSUME LockInv, [FaultyNext]_vars PROVE LockInv'
  OBVIOUS
<1>1. CASE UNCHANGED vars
  BY <1>1 DEF vars, LockInv, TypeOK, HolderOwnsLock, RunningIsHead
<1>2. CASE \E m \in Mutations : CallStep(m)
  BY <1>2, StepLock
<1>3. CASE \E p \in Processes : Crash(p) \/ ReaderRead(p) \/ ReaderQuarantine(p)
  BY <1>3, EnvLock
<1>4. CASE LockAges \/ DamageFile
  <2>1. LockInv' \/ Processes = {}
    BY <1>4, EnvLock
  <2>2. CASE Processes = {}
    BY <1>4, <2>2 DEF LockInv, TypeOK, HolderOwnsLock, RunningIsHead, LockAges, DamageFile
  <2>3. QED
    BY <2>1, <2>2
<1>5. QED
  BY <1>1, <1>2, <1>3, <1>4 DEF FaultyNext, Next, CallStep

\* The lock invariant holds throughout, damaged files and read errors included.
THEOREM LockInvariant == FaultySpec => []LockInv
BY LockInit, LockStep, PTL DEF FaultySpec

\* withRegistryMutationLock: at most one call of all processes is between
\* taking and releasing the lock, and it finds its own token in the owner file,
\* for any number of calls and processes, whatever the clock, the crashes and
\* the I/O errors do.
THEOREM RegistryLockHolds == FaultySpec => []RegistryLockSafe
<1>1. LockInv => RegistryLockSafe
  BY DEF LockInv, HolderOwnsLock, MutualExclusion, RegistryLockSafe
<1>2. QED
  BY <1>1, LockInvariant, PTL

-----------------------------------------------------------------------------
(* The data, on a healthy file.                                            *)

Early == {"idle", "queued", "readRecords", "writeRecords"} \cup Acquiring

\* A call that has met an error it will rethrow is on its way out.
FatalPoints == {"ownRead", "ownRmdir", "relRead1", "relRead2", "relRm", "relRmdir",
                "failing", "failed", "crashed"}

\* Until its read-modify-write is decided a call has changed nothing, and a
\* call that fails never got that far.
Undecided ==
    \A m \in Mutations :
        /\ pc[m] \in Early \cup {"failing", "failed"} => outcome[m] = "pending"
        /\ fatal[m] => outcome[m] = "pending" /\ pc[m] \in FatalPoints

\* A call at writeRecords holds a fresh snapshot in which it has something to
\* write.
Fresh ==
    \A m \in Mutations : pc[m] = "writeRecords" =>
        local[m] = file /\ Writes(req[m], local[m])

DataInv == LockInv /\ Undecided /\ Fresh

LEMMA DataInit == Init => DataInv
BY LockInit DEF Init, DataInv, Undecided, Fresh

\* A step of a call decides its outcome at most once, on success.
LEMMA StepUndecided ==
    ASSUME TypeOK, Undecided, NEW m \in Mutations, Step(m)
    PROVE  Undecided'
<1> USE DEF TypeOK, Undecided, Early, FatalPoints, Goto, Acquiring, Points, Holding, Settled
<1>1. CASE WithFileLock(m)
  BY <1>1 DEF WithFileLock
<1>2. CASE StartAcquire(m)
  BY <1>2 DEF StartAcquire
<1>3. CASE Settle(m)
  BY <1>3 DEF Settle
<1>4. CASE MkdirLock(m)
  BY <1>4 DEF MkdirLock
<1>5. CASE WriteOwner(m)
  BY <1>5 DEF WriteOwner
<1>6. CASE OwnRead(m)
  BY <1>6 DEF OwnRead, AfterOwnerWrite
<1>7. CASE OwnRmdir(m)
  BY <1>7 DEF OwnRmdir, AfterOwnerWrite
<1>8. CASE RemoveLockIfStale(m)
  BY <1>8 DEF RemoveLockIfStale, StaleRead, StaleStat, StaleRmdir
<1>9. CASE Retry(m)
  BY <1>9 DEF Retry
<1>10. CASE TimeOut(m)
  BY <1>10 DEF TimeOut
<1>11. CASE ReadRecords(m)
  BY <1>11 DEF ReadRecords, GotRecords
<1>12. CASE WriteRecords(m)
  BY <1>12 DEF WriteRecords
<1>13. CASE ReleaseRead(m)
  BY <1>13 DEF ReleaseRead, AfterRelease
<1>14. CASE ReleaseRm(m)
  BY <1>14 DEF ReleaseRm, AfterRelease
<1>15. CASE ReleaseRmdir(m)
  BY <1>15 DEF ReleaseRmdir, AfterRelease
<1>16. QED
  BY <1>1, <1>2, <1>3, <1>4, <1>5, <1>6, <1>7, <1>8, <1>9, <1>10, <1>11, <1>12, <1>13, <1>14, <1>15 DEF Step

\* No snapshot grows old: a writer excludes every other call at writeRecords.
LEMMA StepFresh ==
    ASSUME LockInv, Fresh, NEW m \in Mutations, Step(m)
    PROVE  Fresh'
<1> USE DEF LockInv, TypeOK, Fresh, Goto
<1>1. CASE ReadRecords(m)
  BY <1>1 DEF ReadRecords, GotRecords
<1>2. CASE WriteRecords(m)
  BY <1>2 DEF WriteRecords, HolderOwnsLock, Holding
<1>3. CASE UNCHANGED <<file, local, req>> /\ \E to \in Points \ {"writeRecords"} : pc' = [pc EXCEPT ![m] = to]
  BY <1>3
<1>4. ReadRecords(m) \/ WriteRecords(m)
        \/ (UNCHANGED <<file, local, req>> /\ \E to \in Points \ {"writeRecords"} : pc' = [pc EXCEPT ![m] = to])
  <2> USE DEF Points, Acquiring, Holding, Settled
  <2>1. CASE WithFileLock(m) \/ StartAcquire(m) \/ Settle(m) \/ Retry(m) \/ TimeOut(m)
    BY <2>1 DEF WithFileLock, StartAcquire, Settle, Retry, TimeOut
  <2>2. CASE MkdirLock(m)
    BY <2>2 DEF MkdirLock
  <2>3. CASE WriteOwner(m)
    BY <2>3 DEF WriteOwner
  <2>4. CASE OwnRead(m) \/ OwnRmdir(m)
    BY <2>4 DEF OwnRead, OwnRmdir, AfterOwnerWrite
  <2>5. CASE RemoveLockIfStale(m)
    BY <2>5 DEF RemoveLockIfStale, StaleRead, StaleStat, StaleRmdir
  <2>6. CASE ReleaseRead(m)
    BY <2>6 DEF ReleaseRead, AfterRelease
  <2>7. CASE ReleaseRm(m) \/ ReleaseRmdir(m)
    BY <2>7 DEF ReleaseRm, ReleaseRmdir, AfterRelease
  <2>8. QED
    BY <2>1, <2>2, <2>3, <2>4, <2>5, <2>6, <2>7 DEF Step
<1>5. QED
  BY <1>1, <1>2, <1>3, <1>4

\* Every step on a healthy file keeps the data invariant.
LEMMA DataStep == DataInv /\ [Next]_vars => DataInv'
<1> SUFFICES ASSUME DataInv, [Next]_vars PROVE DataInv'
  OBVIOUS
<1>1. LockInv'
  BY LockStep DEF DataInv, FaultyNext
<1>2. CASE UNCHANGED vars
  BY <1>1, <1>2 DEF vars, DataInv, Undecided, Fresh
<1>3. CASE \E m \in Mutations : Step(m)
  BY <1>1, <1>3, StepUndecided, StepFresh DEF DataInv, LockInv
<1>4. CASE \E p \in Processes : Crash(p)
  BY <1>1, <1>4 DEF Crash, DataInv, LockInv, TypeOK, Undecided, Fresh, Early, Acquiring, FatalPoints
<1>5. CASE LockAges
  BY <1>1, <1>5 DEF LockAges, DataInv, Undecided, Fresh
<1>6. QED
  BY <1>2, <1>3, <1>4, <1>5 DEF Next

\* The data invariant holds throughout.
THEOREM DataInvariant == Spec => []DataInv
BY DataInit, DataStep, PTL DEF Spec

\* create and update never overwrite another call's mutation: the map a call
\* writes was computed from the content it replaces.
THEOREM NoLostUpdateHolds == Spec => []NoLostUpdate
<1>1. DataInv => NoLostUpdate
  BY DEF DataInv, Fresh, NoLostUpdate
<1>2. QED
  BY <1>1, DataInvariant, PTL

\* A call that times out or fails has changed nothing in the registry.
THEOREM FailureChangesNothingHolds == Spec => []FailureChangesNothing
<1>1. DataInv => FailureChangesNothing
  BY DEF DataInv, Undecided, FailureChangesNothing
<1>2. QED
  BY <1>1, DataInvariant, PTL

\* A step that takes the owner file away is its owner's own release.
LEMMA OwnerStep ==
    ASSUME LockInv, [FaultyNext]_vars, owner # NoOwner, owner' # owner
    PROVE  pc[owner] = "relRm"
<1>1. CASE UNCHANGED owner
  BY <1>1
<1>2. CASE \E m \in Mutations : ReleaseRm(m)
  BY <1>2 DEF ReleaseRm, Goto, LockInv, TypeOK, HolderOwnsLock, Holding
<1>3. CASE \E m \in Mutations : WriteOwner(m)
  BY <1>3 DEF WriteOwner, LockInv
<1>4. QED
  BY <1>1, <1>2, <1>3 DEF FaultyNext, Next, Step, vars, WithFileLock, StartAcquire, Settle,
     MkdirLock, OwnRead, OwnRmdir, Rmdir, RemoveLockIfStale, StaleRead, StaleStat, StaleRmdir,
     Retry, TimeOut, ReadRecords, WriteRecords, ReleaseRead, ReleaseRmdir, ReadCorrupt,
     Quarantine, ReadError, ReaderRead, ReaderQuarantine, DamageFile, Crash, LockAges

\* No eviction path, timeout or crash takes the owner file from the call that
\* wrote it: only that call's releaseRegistryMutationLock removes it.
THEOREM OnlyOwnerReleasesHolds == FaultySpec => OnlyOwnerReleases
<1>1. LockInv /\ [FaultyNext]_vars =>
          [owner # NoOwner /\ owner' # owner => pc[owner] = "relRm"]_vars
  BY OwnerStep
<1>2. QED
  BY <1>1, LockInvariant, PTL DEF FaultySpec, OnlyOwnerReleases

-----------------------------------------------------------------------------
(* The cap on the records, with damaged files and read errors.  The ids    *)
(* may be infinitely many; a map in the file holds finitely many of them.  *)

Bounded(r) == IsFiniteSet(Present(r)) /\ Cardinality(Present(r)) <= MaxRecords

\* Deleting ids deletes their records and no others.
LEMMA PresentWithout ==
    ASSUME NEW r, NEW E
    PROVE  Present(Without(r, E)) = Present(r) \ E
BY DEF Present, Without

\* evictOldestRecordsFromMap brings a map of any finite size down to the cap.
LEMMA EvictionsBounded ==
    ASSUME NEW r \in RecordMaps, IsFiniteSet(Present(r)), NEW s \in Evictions(r)
    PROVE  Bounded(s)
<1> DEFINE overCount == Cardinality(Present(r)) - MaxRecords
<1>1. Cardinality(Present(r)) \in Nat /\ MaxRecords \in Nat
  BY FS_CardinalityType, MaxRecordsAssumption
<1>2. CASE overCount <= 0
  BY <1>1, <1>2 DEF Evictions, Bounded
<1>3. CASE ~(overCount <= 0)
  <2>1. PICK F \in SUBSET Present(r) : Cardinality(F) = overCount /\ s = Without(r, F)
    BY <1>3 DEF Evictions
  <2>2. IsFiniteSet(F) /\ Present(r) \cap F = F
    BY <2>1, FS_Subset
  <2>3. /\ IsFiniteSet(Present(r) \ F)
        /\ Cardinality(Present(r) \ F) = Cardinality(Present(r)) - Cardinality(F)
    BY <2>2, FS_Difference
  <2>4. Present(s) = Present(r) \ F
    BY <2>1, PresentWithout
  <2>5. Cardinality(Present(r)) - overCount = MaxRecords
    BY <1>1
  <2>6. Cardinality(Present(s)) = MaxRecords
    BY <2>1, <2>3, <2>4, <2>5
  <2> QED
    BY <1>1, <2>3, <2>4, <2>6 DEF Bounded
<1> QED
  BY <1>2, <1>3

\* What create and update write has at most maxRecords records, if what they
\* read had.
LEMMA EffectsBounded ==
    ASSUME NEW q \in Requests, NEW r \in RecordMaps, Bounded(r), NEW s \in Effects(q, r)
    PROVE  Bounded(s)
<1> DEFINE t == [r EXCEPT ![q.op] = [status |-> q.status, at |-> q.at]]
<1>1. t \in RecordMaps /\ Present(t) \subseteq Present(r) \cup {q.op}
  BY RequestsAssumption DEF Request, RecordMaps, Record, Present
<1>2. IsFiniteSet(Present(t))
  BY <1>1, FS_AddElement, FS_Subset DEF Bounded
<1>3. CASE q.status \in PURGED_PERSISTENT_STATUSES
  <2>1. Present(s) = Present(r) \ {q.op}
    BY <1>3, PresentWithout DEF Effects
  <2>2. /\ IsFiniteSet(Present(s)) /\ Cardinality(Present(s)) <= Cardinality(Present(r))
        /\ Cardinality(Present(s)) \in Nat /\ Cardinality(Present(r)) \in Nat
    BY <2>1, FS_Subset, FS_CardinalityType DEF Bounded
  <2> QED
    BY <2>2, MaxRecordsAssumption DEF Bounded
<1>4. CASE q.status \notin PURGED_PERSISTENT_STATUSES
  <2>1. s \in Evictions(t)
    BY <1>4 DEF Effects
  <2> HIDE DEF t
  <2> QED
    BY <1>1, <1>2, <2>1, EvictionsBounded
<1> QED
  BY <1>3, <1>4

\* No records are at most maxRecords records.
LEMMA NoRecordsBounded == Bounded(NoRecords)
<1>1. Present(NoRecords) = {}
  BY DEF Present, NoRecords
<1> QED
  BY <1>1, FS_EmptySet, MaxRecordsAssumption DEF Bounded

BoundInv ==
    /\ LockInv
    /\ file # Corrupt => Bounded(file)
    /\ \A m \in Mutations : Bounded(local[m])

\* Every step, of any kind, keeps the cap.
LEMMA BoundStep == BoundInv /\ [FaultyNext]_vars => BoundInv'
<1> SUFFICES ASSUME BoundInv, [FaultyNext]_vars PROVE BoundInv'
  OBVIOUS
<1> USE NoRecordsBounded DEF BoundInv
<1>1. LockInv'
  BY LockStep
<1>2. TypeOK
  BY DEF LockInv
<1>3. CASE UNCHANGED <<file, local>>
  BY <1>1, <1>3
<1>4. ASSUME NEW m \in Mutations, ReadRecords(m) PROVE BoundInv'
  BY <1>1, <1>2, <1>4 DEF ReadRecords, GotRecords, TypeOK
<1>5. ASSUME NEW m \in Mutations, WriteRecords(m) PROVE BoundInv'
  <2>1. file' \in Effects(req[m], local[m]) => Bounded(file')
    BY <1>2, EffectsBounded DEF TypeOK
  <2> QED
    BY <1>1, <1>5, <2>1 DEF WriteRecords
<1>6. ASSUME NEW m \in Mutations, Quarantine(m) \/ ReadError(m) PROVE BoundInv'
  BY <1>1, <1>2, <1>6 DEF Quarantine, QuarantineCorruptFile, ReadError, GotRecords, TypeOK
<1>7. ASSUME NEW p \in Processes, ReaderQuarantine(p) PROVE BoundInv'
  BY <1>1, <1>7 DEF ReaderQuarantine, QuarantineCorruptFile
<1>8. CASE DamageFile
  BY <1>1, <1>8 DEF DamageFile
<1> QED
  BY <1>3, <1>4, <1>5, <1>6, <1>7, <1>8
     DEF FaultyNext, Next, Step, vars, WithFileLock, StartAcquire, Settle, MkdirLock,
         WriteOwner, OwnRead, OwnRmdir, RemoveLockIfStale, StaleRead, StaleStat, StaleRmdir,
         Retry, TimeOut, ReleaseRead, ReleaseRm, ReleaseRmdir, Crash, LockAges, ReadCorrupt,
         ReaderRead

\* evictOldestRecords: the registry file never holds more than maxRecords
\* records, whatever is damaged, misread or quarantined on the way.
THEOREM RecordsBoundedHolds == FaultySpec => []RecordsBounded
<1>1. Init => BoundInv
  BY LockInit, NoRecordsBounded DEF Init, BoundInv
<1>2. BoundInv => RecordsBounded
  BY DEF BoundInv, Bounded, RecordsBounded
<1> QED
  BY <1>1, <1>2, BoundStep, PTL DEF FaultySpec

-----------------------------------------------------------------------------
(* The quarantine of a file that does not parse.                           *)

\* While a mutation is about to quarantine the file no other mutation writes
\* it: only a lock-free reader may have moved it aside already.
QuarantineInv ==
    /\ LockInv
    /\ \A m \in Mutations : pc[m] = "quarantine" => file \in {Corrupt, NoRecords}

\* Every step, of any kind, keeps it so.
LEMMA QuarantineStep == QuarantineInv /\ [FaultyNext]_vars => QuarantineInv'
<1> SUFFICES ASSUME QuarantineInv, [FaultyNext]_vars PROVE QuarantineInv'
  OBVIOUS
<1> USE DEF QuarantineInv
<1>1. LockInv'
  BY LockStep
<1>2. TypeOK /\ HolderOwnsLock
  BY DEF LockInv
<1>3. ASSUME NEW m \in Mutations, WriteRecords(m) PROVE QuarantineInv'
  BY <1>1, <1>2, <1>3 DEF WriteRecords, Goto, TypeOK, HolderOwnsLock, Holding
<1>4. ASSUME NEW m \in Mutations, ReadCorrupt(m) PROVE QuarantineInv'
  BY <1>1, <1>2, <1>4 DEF ReadCorrupt, Goto, TypeOK
<1>5. ASSUME NEW m \in Mutations, Quarantine(m) PROVE QuarantineInv'
  BY <1>1, <1>2, <1>5 DEF Quarantine, QuarantineCorruptFile, GotRecords, Goto, TypeOK
<1>6. ASSUME NEW p \in Processes, ReaderQuarantine(p) PROVE QuarantineInv'
  BY <1>1, <1>6 DEF ReaderQuarantine, QuarantineCorruptFile
<1>7. CASE DamageFile
  BY <1>1, <1>7 DEF DamageFile
<1>8. ASSUME NEW p \in Processes, Crash(p) PROVE QuarantineInv'
  BY <1>1, <1>2, <1>8 DEF Crash, TypeOK
<1>9. CASE /\ UNCHANGED file
           /\ \A m \in Mutations : pc'[m] = "quarantine" => pc[m] = "quarantine"
  BY <1>1, <1>9
<1>10. ASSUME NEW m \in Mutations, Step(m), ~WriteRecords(m)
       PROVE  /\ UNCHANGED file
              /\ \A n \in Mutations : pc'[n] = "quarantine" => pc[n] = "quarantine"
  BY <1>2, <1>10 DEF TypeOK, Goto, Step, WithFileLock, StartAcquire, Settle, MkdirLock,
     WriteOwner, OwnRead, OwnRmdir, AfterOwnerWrite, RemoveLockIfStale, StaleRead, StaleStat,
     StaleRmdir, Retry, TimeOut, ReadRecords, GotRecords, ReleaseRead, ReleaseRm,
     ReleaseRmdir, AfterRelease
<1>11. ASSUME NEW m \in Mutations, ReadError(m) PROVE QuarantineInv'
  BY <1>1, <1>2, <1>11 DEF ReadError, GotRecords, Goto, TypeOK
<1> QED
  BY <1>3, <1>4, <1>5, <1>6, <1>7, <1>8, <1>9, <1>10, <1>11
     DEF FaultyNext, Next, vars, LockAges, ReaderRead

\* What a mutation moves to a quarantine sidecar never parsed, with any number
\* of processes, readers and damaged files.
THEOREM WriterQuarantinesCorruptHolds == FaultySpec => WriterQuarantinesCorrupt
<1> DEFINE Moves == (\E m \in Mutations : pc[m] = "quarantine" /\ pc'[m] # "quarantine")
                    => quarantined' \ quarantined \subseteq {Corrupt, NoRecords}
<1>1. Init => QuarantineInv
  BY LockInit DEF Init, QuarantineInv
<1>2. QuarantineInv /\ [FaultyNext]_vars => [Moves]_vars
  <2> SUFFICES ASSUME QuarantineInv, FaultyNext, NEW m \in Mutations,
                      pc[m] = "quarantine", pc'[m] # "quarantine"
               PROVE  quarantined' \ quarantined \subseteq {Corrupt, NoRecords}
    OBVIOUS
  <2> USE DEF QuarantineInv
  <2>1. CASE \E n \in Mutations : Quarantine(n)
    BY <2>1 DEF Quarantine, QuarantineCorruptFile
  <2>2. CASE UNCHANGED quarantined
    BY <2>2
  <2>3. CASE \E p \in Processes : ReaderQuarantine(p)
    BY <2>3 DEF ReaderQuarantine, QuarantineCorruptFile
  <2> QED
    BY <2>1, <2>2, <2>3
       DEF FaultyNext, Next, Step, WithFileLock, StartAcquire, Settle, MkdirLock, WriteOwner,
           OwnRead, OwnRmdir, RemoveLockIfStale, StaleRead, StaleStat, StaleRmdir, Retry,
           TimeOut, ReadRecords, WriteRecords, ReleaseRead, ReleaseRm, ReleaseRmdir, Crash,
           LockAges, ReadCorrupt, ReadError, ReaderRead, DamageFile
<1> QED
  BY <1>1, <1>2, QuarantineStep, PTL DEF FaultySpec, WriterQuarantinesCorrupt

-----------------------------------------------------------------------------
(* The refinement of the atomic registry.                                  *)

\* The abstract registry uses the same map operations.
LEMMA SameOperations ==
    /\ Atomic!NoRecords = NoRecords
    /\ \A q, r : Atomic!Writes(q, r) = Writes(q, r)
    /\ \A q, r : Atomic!Returned(q, r) = Returned(q, r)
    /\ \A q, r : Atomic!Effects(q, r) = Effects(q, r)
<1>1. Atomic!NoRecords = NoRecords
  BY DEF Atomic!NoRecords, NoRecords
<1>2. \A q, r : Atomic!Writes(q, r) = Writes(q, r)
  BY DEF Atomic!Writes, Writes, Atomic!PURGED_PERSISTENT_STATUSES, PURGED_PERSISTENT_STATUSES
<1>3. \A q, r : Atomic!Returned(q, r) = Returned(q, r)
  BY DEF Atomic!Returned, Returned
<1>4. \A r, E : Atomic!Without(r, E) = Without(r, E)
  BY DEF Atomic!Without, Without
<1>5. \A r : Atomic!Evictions(r) = Evictions(r)
  BY DEF Atomic!Evictions, Evictions, Atomic!Present, Present, Atomic!Without, Without,
     Atomic!Cardinality, Cardinality
<1>6. \A q, r : Atomic!Effects(q, r) = Effects(q, r)
  BY <1>4, <1>5 DEF Atomic!Effects, Effects, Atomic!PURGED_PERSISTENT_STATUSES,
     PURGED_PERSISTENT_STATUSES
<1>7. QED
  BY <1>1, <1>2, <1>3, <1>6

\* Each step of the implementation is a step of the atomic registry or leaves
\* the registry, the requests and the outcomes alone.
LEMMA RefinementStep ==
    ASSUME DataInv, [Next]_vars
    PROVE  [Atomic!AbsNext]_(Atomic!absVars)
<1> USE DEF Atomic!absVars, Atomic!AbsNext, Atomic!Apply
<1>1. CASE UNCHANGED <<file, req, outcome>>
  BY <1>1
<1>2. ASSUME NEW m \in Mutations, ReadRecords(m)
      PROVE  [Atomic!AbsNext]_(Atomic!absVars)
  BY <1>2, SameOperations DEF ReadRecords, GotRecords, Goto, DataInv, Undecided, Early
<1>3. ASSUME NEW m \in Mutations, WriteRecords(m)
      PROVE  [Atomic!AbsNext]_(Atomic!absVars)
  BY <1>3, SameOperations DEF WriteRecords, Goto, DataInv, Undecided, Fresh, Early
<1>4. QED
  BY <1>1, <1>2, <1>3 DEF Next, Step, vars, WithFileLock, StartAcquire, Settle,
     MkdirLock, WriteOwner, OwnRead, OwnRmdir, Rmdir, RemoveLockIfStale, StaleRead, StaleStat,
     StaleRmdir, Retry, TimeOut, ReleaseRead, ReleaseRm, ReleaseRmdir, Crash, LockAges

\* The registry with its lock implements the atomic registry: every create and
\* update of every process is one indivisible read-modify-write.
THEOREM Refinement == Spec => Linearizable
<1>1. Init => Atomic!AbsInit
  BY SameOperations DEF Init, Atomic!AbsInit
<1>2. DataInv /\ [Next]_vars => [Atomic!AbsNext]_(Atomic!absVars)
  BY RefinementStep
<1>3. QED
  BY <1>1, <1>2, DataInvariant, PTL DEF Spec, Linearizable, Atomic!AbsSpec

=============================================================================
