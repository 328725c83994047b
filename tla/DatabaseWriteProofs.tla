------------------------- MODULE DatabaseWriteProofs -------------------------
(***************************************************************************)
(* What the ways of changing a database promise, for every number of       *)
(* calls, modules and tables: the transactional write through a staged     *)
(* copy, the import of a batch of modules into the open VBA project, and   *)
(* the relinking of the linked tables under a directory.                   *)
(***************************************************************************)
EXTENDS TransactionalWrite, VbaImport, RelinkDirectory, FiniteSetTheorems, WellFoundedInduction, TLAPS

-----------------------------------------------------------------------------
(***************************************************************************)
(* The transactional write.                                                *)
(***************************************************************************)
\* Reports come last: a call is told "ok" by its commit and by nothing else.
ReportsLast ==
    \A t \in Transactions :
        /\ txReport[t] = "ok" => txAt[t] \in {"tidy", "rmdir", "done", "crashed"}
        /\ txAt[t] = "tidy" => txReport[t] = "ok"

\* What a sweep may remove was past the threshold.
SweepsOverdue ==
    aged \subseteq overdue /\ \A t \in Transactions : judged[t] \subseteq overdue

\* A call's staging directory through its steps.
StagingAtStep ==
    \A t \in Transactions :
        /\ txAt[t] \in {"idle", "sweep", "read", "mkdir"} => staging[t] = "absent"
        /\ txAt[t] \in {"execute", "rename"} => staging[t] = "copy" \/ t \in overdue

\* A copy in use lacks only what reached the binary after it was taken.
CopyCurrent ==
    \A t \in Transactions :
        txAt[t] \in {"execute", "rename"} /\ staging[t] = "copy" =>
            binary \subseteq copy[t] \cup landed[t]

TxFacts == ReportsLast /\ SweepsOverdue /\ StagingAtStep /\ CopyCurrent

TxLeavesNothing == FailureLeavesNoTrace /\ StagingAccounted /\ NoStrayRoot

TxInv == TxTypeOK /\ TxFacts /\ TxLeavesNothing

(* A step of a transactional call or of its surroundings keeps the types.  *)
LEMMA TxTypeStep == ASSUME TxInv, TxNext PROVE TxTypeOK'
<1> USE DEF TxInv, TxTypeOK, TxPoints, TxReports, Edits, sweepVars
<1>1. ASSUME NEW t \in Transactions, SweepList(t) PROVE TxTypeOK'
  BY <1>1 DEF SweepList, TxGoto, Old
<1>2. ASSUME NEW t \in Transactions, NEW d \in Transactions, SweepStat(t, d) PROVE TxTypeOK'
  BY <1>2 DEF SweepStat, Old
<1>3. ASSUME NEW t \in Transactions, NEW d \in Transactions, SweepRemove(t, d) PROVE TxTypeOK'
  BY <1>3 DEF SweepRemove, Remove
<1>4. ASSUME NEW t \in Transactions, SweepEnds(t) PROVE TxTypeOK'
  BY <1>4 DEF SweepEnds, TxGoto
<1>5. ASSUME NEW t \in Transactions, ReadOriginal(t) PROVE TxTypeOK'
  BY <1>5 DEF ReadOriginal, TxGoto, Report
<1>6. ASSUME NEW t \in Transactions, MakeStaging(t) PROVE TxTypeOK'
  <2>1. root' \in BOOLEAN
    BY <1>6, Zenon DEF MakeStaging
  <2>2. CASE TxGoto(t, "mkdir", "copy") /\ staging' = [staging EXCEPT ![t] = "empty"]
             /\ UNCHANGED txReport
    BY <1>6, <2>1, <2>2 DEF MakeStaging, TxGoto
  <2>3. CASE TxGoto(t, "mkdir", "rmdir") /\ Report(t, "failed") /\ UNCHANGED staging
    BY <1>6, <2>1, <2>3 DEF MakeStaging, TxGoto, Report
  <2> QED
    BY <1>6, <2>2, <2>3 DEF MakeStaging
<1>7. ASSUME NEW t \in Transactions, CopyBinary(t) PROVE TxTypeOK'
  BY <1>7 DEF CopyBinary, TxGoto
<1>8. ASSUME NEW t \in Transactions, Execute(t) PROVE TxTypeOK'
  BY <1>8 DEF Execute, TxGoto
<1>9. ASSUME NEW t \in Transactions, Commit(t) PROVE TxTypeOK'
  BY <1>9 DEF Commit, TxGoto, Report, Land
<1>10. ASSUME NEW t \in Transactions, RollbackCopy(t) PROVE TxTypeOK'
  BY <1>10 DEF RollbackCopy, TxGoto, Remove, Report
<1>11. ASSUME NEW t \in Transactions, Tidy(t) PROVE TxTypeOK'
  BY <1>11 DEF Tidy, TxGoto, Remove
<1>12. ASSUME NEW t \in Transactions, RemoveRoot(t) PROVE TxTypeOK'
  BY <1>12 DEF RemoveRoot, TxGoto, Forget
<1>13. ASSUME NEW t \in Transactions, Age(t) PROVE TxTypeOK'
  BY <1>13 DEF Age
<1>14. ASSUME NEW t \in Transactions, TxKilled(t) PROVE TxTypeOK'
  BY <1>14 DEF TxKilled, Forget
<1>15. ASSUME NEW e \in DirectWrites, DirectWrite(e) PROVE TxTypeOK'
  BY <1>15 DEF DirectWrite, Land
<1> QED
  BY <1>1, <1>2, <1>3, <1>4, <1>5, <1>6, <1>7, <1>8, <1>9, <1>10, <1>11, <1>12, <1>13,
     <1>14, <1>15
     DEF TxNext, TxStep

(* A step keeps what is known of the reports, the sweeps, the staging      *)
(* directories and the copies.                                             *)
LEMMA TxFactsStep == ASSUME TxInv, TxNext PROVE TxFacts'
<1> USE DEF TxInv, TxTypeOK, TxFacts, ReportsLast, SweepsOverdue, StagingAtStep, CopyCurrent,
        sweepVars
<1>1. ASSUME NEW t \in Transactions, SweepList(t) PROVE TxFacts'
  BY <1>1 DEF SweepList, TxGoto, Old
<1>2. ASSUME NEW t \in Transactions, NEW d \in Transactions, SweepStat(t, d) PROVE TxFacts'
  BY <1>2 DEF SweepStat, Old
<1>3. ASSUME NEW t \in Transactions, NEW d \in Transactions, SweepRemove(t, d) PROVE TxFacts'
  BY <1>3 DEF SweepRemove, Remove
<1>4. ASSUME NEW t \in Transactions, SweepEnds(t) PROVE TxFacts'
  BY <1>4 DEF SweepEnds, TxGoto
<1>5. ASSUME NEW t \in Transactions, ReadOriginal(t) PROVE TxFacts'
  BY <1>5 DEF ReadOriginal, TxGoto, Report
<1>6. ASSUME NEW t \in Transactions, MakeStaging(t) PROVE TxFacts'
  <2>1. CASE TxGoto(t, "mkdir", "copy") /\ staging' = [staging EXCEPT ![t] = "empty"]
             /\ UNCHANGED txReport
    BY <1>6, <2>1 DEF MakeStaging, TxGoto
  <2>2. CASE TxGoto(t, "mkdir", "rmdir") /\ Report(t, "failed") /\ UNCHANGED staging
    BY <1>6, <2>2 DEF MakeStaging, TxGoto, Report
  <2> QED
    BY <1>6, <2>1, <2>2 DEF MakeStaging
<1>7. ASSUME NEW t \in Transactions, CopyBinary(t) PROVE TxFacts'
  BY <1>7 DEF CopyBinary, TxGoto
<1>8. ASSUME NEW t \in Transactions, Execute(t) PROVE TxFacts'
  BY <1>8 DEF Execute, TxGoto
<1>9. ASSUME NEW t \in Transactions, Commit(t) PROVE TxFacts'
  BY <1>9 DEF Commit, TxGoto, Report, Land
<1>10. ASSUME NEW t \in Transactions, RollbackCopy(t) PROVE TxFacts'
  BY <1>10 DEF RollbackCopy, TxGoto, Remove, Report
<1>11. ASSUME NEW t \in Transactions, Tidy(t) PROVE TxFacts'
  BY <1>11 DEF Tidy, TxGoto, Remove
<1>12. ASSUME NEW t \in Transactions, RemoveRoot(t) PROVE TxFacts'
  BY <1>12 DEF RemoveRoot, TxGoto, Forget
<1>13. ASSUME NEW t \in Transactions, Age(t) PROVE TxFacts'
  BY <1>13 DEF Age
<1>14. ASSUME NEW t \in Transactions, TxKilled(t) PROVE TxFacts'
  BY <1>14 DEF TxKilled, Forget
<1>15. ASSUME NEW e \in DirectWrites, DirectWrite(e) PROVE TxFacts'
  BY <1>15 DEF DirectWrite, Land
<1> QED
  BY <1>1, <1>2, <1>3, <1>4, <1>5, <1>6, <1>7, <1>8, <1>9, <1>10, <1>11, <1>12, <1>13,
     <1>14, <1>15
     DEF TxNext, TxStep

(* A step keeps the guarantees to the callers.                             *)
LEMMA TxSafeStep == ASSUME TxInv, TxNext PROVE TxLeavesNothing'
<1> USE DEF TxInv, TxTypeOK, TxFacts, ReportsLast, SweepsOverdue, StagingAtStep,
        TxLeavesNothing, FailureLeavesNoTrace, StagingAccounted, NoStrayRoot, sweepVars
<1>1. ASSUME NEW t \in Transactions, SweepList(t) PROVE TxLeavesNothing'
  BY <1>1 DEF SweepList, TxGoto, Old
<1>2. ASSUME NEW t \in Transactions, NEW d \in Transactions, SweepStat(t, d) PROVE TxLeavesNothing'
  BY <1>2 DEF SweepStat, Old
<1>3. ASSUME NEW t \in Transactions, NEW d \in Transactions, SweepRemove(t, d) PROVE TxLeavesNothing'
  BY <1>3 DEF SweepRemove, Remove
<1>4. ASSUME NEW t \in Transactions, SweepEnds(t) PROVE TxLeavesNothing'
  BY <1>4 DEF SweepEnds, TxGoto
<1>5. ASSUME NEW t \in Transactions, ReadOriginal(t) PROVE TxLeavesNothing'
  BY <1>5 DEF ReadOriginal, TxGoto, Report
<1>6. ASSUME NEW t \in Transactions, MakeStaging(t) PROVE TxLeavesNothing'
  <2>1. CASE TxGoto(t, "mkdir", "copy") /\ staging' = [staging EXCEPT ![t] = "empty"]
             /\ UNCHANGED txReport
    BY <1>6, <2>1 DEF MakeStaging, TxGoto
  <2>2. CASE TxGoto(t, "mkdir", "rmdir") /\ Report(t, "failed") /\ UNCHANGED staging
    BY <1>6, <2>2 DEF MakeStaging, TxGoto, Report
  <2> QED
    BY <1>6, <2>1, <2>2 DEF MakeStaging
<1>7. ASSUME NEW t \in Transactions, CopyBinary(t) PROVE TxLeavesNothing'
  BY <1>7 DEF CopyBinary, TxGoto
<1>8. ASSUME NEW t \in Transactions, Execute(t) PROVE TxLeavesNothing'
  BY <1>8 DEF Execute, TxGoto
<1>9. ASSUME NEW t \in Transactions, Commit(t) PROVE TxLeavesNothing'
  BY <1>9 DEF Commit, TxGoto, Report, Land
<1>10. ASSUME NEW t \in Transactions, RollbackCopy(t) PROVE TxLeavesNothing'
  BY <1>10 DEF RollbackCopy, TxGoto, Remove, Report
<1>11. ASSUME NEW t \in Transactions, Tidy(t) PROVE TxLeavesNothing'
  BY <1>11 DEF Tidy, TxGoto, Remove
<1>12. ASSUME NEW t \in Transactions, RemoveRoot(t) PROVE TxLeavesNothing'
  BY <1>12 DEF RemoveRoot, TxGoto, Forget
<1>13. ASSUME NEW t \in Transactions, Age(t) PROVE TxLeavesNothing'
  BY <1>13 DEF Age
<1>14. ASSUME NEW t \in Transactions, TxKilled(t) PROVE TxLeavesNothing'
  BY <1>14 DEF TxKilled, Forget
<1>15. ASSUME NEW e \in DirectWrites, DirectWrite(e) PROVE TxLeavesNothing'
  BY <1>15, EditsAssumption DEF DirectWrite, Land
<1> QED
  BY <1>1, <1>2, <1>3, <1>4, <1>5, <1>6, <1>7, <1>8, <1>9, <1>10, <1>11, <1>12, <1>13,
     <1>14, <1>15
     DEF TxNext, TxStep

(* The invariant of the transactional write holds at first and is kept by  *)
(* every step.                                                             *)
LEMMA TxInvInit == TxInit => TxInv
<1> SUFFICES ASSUME TxInit PROVE TxInv
  OBVIOUS
<1>1. TxTypeOK
  BY DEF TxInit, TxTypeOK, TxPoints, TxReports, Edits
<1>2. TxFacts
  BY DEF TxInit, TxFacts, ReportsLast, SweepsOverdue, StagingAtStep, CopyCurrent
<1>3. TxLeavesNothing
  BY DEF TxInit, TxLeavesNothing, FailureLeavesNoTrace, StagingAccounted, NoStrayRoot
<1> QED
  BY <1>1, <1>2, <1>3 DEF TxInv

LEMMA TxInvStep == TxInv /\ [TxNext]_txVars => TxInv'
<1>1. ASSUME TxInv, TxNext PROVE TxInv'
  BY <1>1, TxTypeStep, TxFactsStep, TxSafeStep DEF TxInv
<1>2. ASSUME TxInv, UNCHANGED txVars PROVE TxInv'
  BY <1>2 DEF txVars, sweepVars, TxInv, TxTypeOK, TxFacts, ReportsLast, SweepsOverdue,
              StagingAtStep, CopyCurrent, TxLeavesNothing, FailureLeavesNoTrace,
              StagingAccounted, NoStrayRoot
<1> QED
  BY <1>1, <1>2

(* transactional-write.ts: however calls, sweeps, kills and direct writes  *)
(* interleave, a call that did not report success left no trace, the       *)
(* copies left behind are told of, and no empty staging root stays.        *)
THEOREM TransactionsAreSafe == TxSpec => []TransactionSafe
<1>1. TxInv => TransactionSafe
  BY DEF TxInv, TxLeavesNothing, TransactionSafe
<1> QED
  BY <1>1, TxInvInit, TxInvStep, PTL DEF TxSpec

(* An edit disappears from the binary only by the commit of a call whose   *)
(* copy was taken before the edit arrived: a staged copy lacks nothing     *)
(* else (CopyCurrent).                                                     *)
THEOREM LossNeedsOverlap == TxSpec => LostOnlyToOverlap
<1> DEFINE Lost == \A e \in binary : e \notin binary' =>
                      \E t \in Transactions : txAt[t] = "rename" /\ e \in landed[t]
<1>1. ASSUME TxInv, TxNext PROVE Lost
  <2>1. CASE binary' = binary
    BY <2>1
  <2>2. ASSUME NEW t \in Transactions, staging[t] = "copy", txAt[t] = "rename", binary' = copy[t]
        PROVE  Lost
    BY <1>1, <2>2 DEF TxInv, TxFacts, CopyCurrent
  <2>3. ASSUME NEW e \in DirectWrites, DirectWrite(e) PROVE Lost
    BY <2>3 DEF DirectWrite, Land
  <2>4. ASSUME NEW t \in Transactions, Commit(t) PROVE Lost
    BY <2>1, <2>2, <2>4 DEF Commit, Land, TxGoto
  <2> QED
    BY <1>1, <2>1, <2>3, <2>4
       DEF TxNext, TxStep, SweepList, SweepStat, SweepRemove, SweepEnds, ReadOriginal,
           MakeStaging, CopyBinary, Execute, RollbackCopy, Tidy, RemoveRoot, Age, TxKilled
<1>2. TxInv /\ [TxNext]_txVars => [Lost]_txVars
  BY <1>1
<1> QED
  BY <1>2, TxInvInit, TxInvStep, PTL DEF TxSpec, LostOnlyToOverlap

(* cleanupOrphanedTransactionalCopies: a staging directory that never was  *)
(* past the threshold is removed by its own call or not at all.            *)
THEOREM SweepsSpareYoung == TxSpec => SweepSparesYoung
<1> DEFINE Spared == \A t \in Transactions :
                        staging[t] # "absent" /\ staging'[t] = "absent" =>
                            txAt'[t] # txAt[t] \/ t \in overdue
<1>1. ASSUME TxInv, TxNext PROVE Spared
  <2> USE DEF TxInv, TxTypeOK
  <2>1. CASE staging' = staging
    BY <2>1
  <2>2. ASSUME NEW t \in Transactions, NEW d \in Transactions, SweepRemove(t, d) PROVE Spared
    BY <1>1, <2>2 DEF SweepRemove, Remove, TxFacts, SweepsOverdue
  <2>3. ASSUME NEW t \in Transactions, RollbackCopy(t) \/ Tidy(t) PROVE Spared
    BY <1>1, <2>3 DEF RollbackCopy, Tidy, Remove, TxGoto
  <2>4. ASSUME NEW t \in Transactions, MakeStaging(t) \/ CopyBinary(t) \/ Commit(t) PROVE Spared
    BY <1>1, <2>1, <2>4 DEF MakeStaging, CopyBinary, Commit
  <2> QED
    BY <1>1, <2>1, <2>2, <2>3, <2>4
       DEF TxNext, TxStep, SweepList, SweepStat, SweepEnds, ReadOriginal, Execute,
           RemoveRoot, DirectWrite, Age, TxKilled
<1>2. TxInv /\ [TxNext]_txVars => [Spared]_txVars
  BY <1>1
<1> QED
  BY <1>2, TxInvInit, TxInvStep, PTL DEF TxSpec, SweepSparesYoung

-----------------------------------------------------------------------------
(***************************************************************************)
(* The import of a batch.                                                  *)
(***************************************************************************)
\* Before the call nothing has happened.
NothingYet ==
    phase = "start" =>
        /\ targets = {} /\ named = {} /\ pass = 0 /\ saving = "none" /\ damaged = {}
        /\ \A m \in Modules : result[m] = "none" /\ journal[m] = "none"
        /\ session = OriginalContent

\* Until something is saved the .accdb holds what it held before the call, and
\* nothing is reported before the orchestration completes.
FileUntouched ==
    /\ phase \notin {"closing", "done"} => report = "none"
    /\ phase \in {"start", "pass", "save"} => saving = "none"
    /\ saving = "none" /\ phase # "done" /\ report # "threw" => file = OriginalContent

\* While modules are imported and saved: the imported ones are journalled with
\* what they replaced, the others hold what they held, unless broken.
JournalTells ==
    phase \in {"pass", "save", "saved"} =>
        \A m \in Modules :
            /\ result[m] = "ok" => /\ m \in targets /\ session[m] = "new"
                                   /\ journal[m] # "none"
                                   /\ m \notin damaged => journal[m] = OriginalContent[m]
            /\ result[m] # "ok" => /\ journal[m] = "none"
                                   /\ m \notin damaged => session[m] = OriginalContent[m]

\* A pass tries modules that are neither imported nor locked; those it does not
\* try are imported.
PassTries ==
    phase = "pass" =>
        /\ todo \subseteq pending
        /\ \A m \in todo : result[m] \notin {"ok", "locked"}
        /\ \A m \in targets \ pending : result[m] = "ok"

\* After a save that worked the named modules are in the .accdb.
SavedInFile ==
    phase = "saved" =>
        saving # "none" /\ (saving = "ok" => \A m \in named : file[m] = session[m])

\* A rollback has the original content of what it undoes, and the rest is intact.
RollbackKnows ==
    phase = "rollback" =>
        /\ \A m \in targets : result[m] # "ok"
        /\ \A m \in todo : journal[m] # "none"
        /\ \A m \in targets \ damaged :
              IF m \in todo THEN journal[m] = OriginalContent[m]
              ELSE session[m] = OriginalContent[m]

\* A batch that failed on a lock is undone in the open project.
LockedUndone ==
    \/ phase = "rolledBack"
    \/ phase = "closing" /\ report = "failed" /\ saving = "none"
       /\ \E m \in targets : result[m] = "locked"
    => \A m \in targets :
          /\ result[m] # "ok"
          /\ m \notin damaged => session[m] = OriginalContent[m] \/ rolled[m] = "failed"

\* What the session shows when it is about to be closed.
ClosingKnows ==
    phase = "closing" =>
        /\ report \in {"success", "failed"} =>
              \A m \in named : result[m] = "ok" => session[m] = "new" /\ file[m] = "new"
        /\ report = "bridgeUndone" =>
              \A m \in targets \ damaged :
                  session[m] = OriginalContent[m] /\ file[m] = OriginalContent[m]

ImportFacts ==
    /\ NothingYet /\ FileUntouched /\ JournalTells /\ PassTries
    /\ SavedInFile /\ RollbackKnows /\ LockedUndone /\ ClosingKnows

ImportUndone == RetriesShrink /\ LockedBatchUndone /\ BridgeFailureUndone

ImportInv == ImportTypeOK /\ ImportFacts /\ OkIsPersisted /\ ImportUndone

(* A step of an import keeps the types.                                    *)
LEMMA ImportTypeStep == ASSUME ImportInv, ImportNext PROVE ImportTypeOK'
<1> USE ImportAssumption DEF ImportInv, ImportTypeOK, ImportPhases, ImportResults, ImportReports,
        Contents, OriginalContent, importCore, ImportFacts, NothingYet, PassTries, JournalTells,
        RollbackKnows
<1>1. CASE ImportStart
  BY <1>1 DEF ImportStart, CompleteImport, RunPass
<1>2. ASSUME NEW m \in Modules, ImportSucceeds(m) PROVE ImportTypeOK'
  BY <1>2 DEF ImportSucceeds, SaveNameOf
<1>3. ASSUME NEW m \in Modules, ImportFails(m) PROVE ImportTypeOK'
  BY <1>3
     DEF ImportFails, AfterFailure, AfterDocumentFailure, AfterCreationFailure,
         AfterCodeFailure
<1>4. CASE PassCompleted
  <2>1. failing' \in BOOLEAN
    BY <1>4, Zenon DEF PassCompleted, FailBatchOnLock
  <2> QED
    BY <1>4, <2>1
       DEF PassCompleted, FailBatchOnLock, RunPass, CompleteImport, FailedModules, Imported
<1>5. CASE BridgeFails
  BY <1>5 DEF BridgeFails, CompleteImport, Undo, Journalled
<1>6. CASE RollbackBatch
  BY <1>6 DEF RollbackBatch, Undo
<1>7. CASE RollbackCompleted
  BY <1>7 DEF RollbackCompleted, CompleteImport
<1>8. CASE SaveModules
  BY <1>8 DEF SaveModules, CompleteImport, Written
<1>9. CASE SaveCompleted
  <2>1. failing' \in BOOLEAN
    BY <1>9, Zenon DEF SaveCompleted, FailBatchOnLock
  <2> QED
    BY <1>9, <2>1 DEF SaveCompleted, FailBatchOnLock, CompleteImport, Imported
<1>10. CASE CloseSession
  BY <1>10 DEF CloseSession, Written
<1>11. CASE KillSession
  BY <1>11 DEF KillSession, Written
<1> QED
  BY <1>1, <1>2, <1>3, <1>4, <1>5, <1>6, <1>7, <1>8, <1>9, <1>10, <1>11
     DEF ImportNext, ImportStep

(* No step leads back to the start.                                        *)
LEMMA NothingYetStep == ASSUME ImportInv, ImportNext PROVE NothingYet'
<1> USE ImportAssumption DEF ImportInv, ImportTypeOK, ImportFacts, NothingYet, FileUntouched,
        JournalTells, PassTries, SavedInFile, RollbackKnows, LockedUndone, ClosingKnows,
        OriginalContent, Contents, importCore
<1>1. CASE ImportStart
  BY <1>1 DEF ImportStart, CompleteImport, RunPass
<1>2. ASSUME NEW m \in Modules, ImportSucceeds(m) PROVE NothingYet'
  BY <1>2 DEF ImportSucceeds, SaveNameOf
<1>3. ASSUME NEW m \in Modules, ImportFails(m) PROVE NothingYet'
  BY <1>3
     DEF ImportFails, AfterFailure, AfterDocumentFailure, AfterCreationFailure,
         AfterCodeFailure
<1>4. CASE PassCompleted
  BY <1>4
     DEF PassCompleted, FailBatchOnLock, RunPass, CompleteImport, FailedModules,
         Imported
<1>5. CASE BridgeFails
  BY <1>5 DEF BridgeFails, CompleteImport, Undo, Journalled
<1>6. CASE RollbackBatch
  BY <1>6 DEF RollbackBatch, Undo
<1>7. CASE RollbackCompleted
  BY <1>7 DEF RollbackCompleted, CompleteImport
<1>8. CASE SaveModules
  BY <1>8 DEF SaveModules, CompleteImport, Written
<1>9. CASE SaveCompleted
  BY <1>9 DEF SaveCompleted, FailBatchOnLock, CompleteImport, Imported
<1>10. CASE CloseSession
  BY <1>10 DEF CloseSession, Written
<1>11. CASE KillSession
  BY <1>11 DEF KillSession, Written
<1> QED
  BY <1>1, <1>2, <1>3, <1>4, <1>5, <1>6, <1>7, <1>8, <1>9, <1>10, <1>11
     DEF ImportNext, ImportStep

(* A step of an import leaves the .accdb alone until something is saved.   *)
LEMMA FileUntouchedStep == ASSUME ImportInv, ImportNext PROVE FileUntouched'
<1> USE ImportAssumption DEF ImportInv, ImportTypeOK, ImportFacts, NothingYet, FileUntouched,
        JournalTells, PassTries, SavedInFile, RollbackKnows, LockedUndone, ClosingKnows,
        OriginalContent, Contents, importCore
<1>1. CASE ImportStart
  BY <1>1 DEF ImportStart, CompleteImport, RunPass
<1>2. ASSUME NEW m \in Modules, ImportSucceeds(m) PROVE FileUntouched'
  BY <1>2 DEF ImportSucceeds, SaveNameOf
<1>3. ASSUME NEW m \in Modules, ImportFails(m) PROVE FileUntouched'
  BY <1>3
     DEF ImportFails, AfterFailure, AfterDocumentFailure, AfterCreationFailure,
         AfterCodeFailure
<1>4. CASE PassCompleted
  BY <1>4
     DEF PassCompleted, FailBatchOnLock, RunPass, CompleteImport, FailedModules,
         Imported
<1>5. CASE BridgeFails
  BY <1>5 DEF BridgeFails, CompleteImport, Undo, Journalled
<1>6. CASE RollbackBatch
  BY <1>6 DEF RollbackBatch, Undo
<1>7. CASE RollbackCompleted
  BY <1>7 DEF RollbackCompleted, CompleteImport
<1>8. CASE SaveModules
  BY <1>8 DEF SaveModules, CompleteImport, Written
<1>9. CASE SaveCompleted
  BY <1>9 DEF SaveCompleted, FailBatchOnLock, CompleteImport, Imported
<1>10. CASE CloseSession
  BY <1>10 DEF CloseSession, Written
<1>11. CASE KillSession
  BY <1>11 DEF KillSession, Written
<1> QED
  BY <1>1, <1>2, <1>3, <1>4, <1>5, <1>6, <1>7, <1>8, <1>9, <1>10, <1>11
     DEF ImportNext, ImportStep

(* Imported modules are journalled when they are imported, and a failed    *)
(* attempt leaves the module as it was or counts it as damaged.            *)
LEMMA JournalTellsStep == ASSUME ImportInv, ImportNext PROVE JournalTells'
<1> USE ImportAssumption DEF ImportInv, ImportTypeOK, ImportFacts, NothingYet, FileUntouched,
        JournalTells, PassTries, SavedInFile, RollbackKnows, LockedUndone, ClosingKnows,
        OriginalContent, Contents, importCore
<1>1. CASE ImportStart
  BY <1>1 DEF ImportStart, CompleteImport, RunPass
<1>2. ASSUME NEW m \in Modules, ImportSucceeds(m) PROVE JournalTells'
  BY <1>2 DEF ImportSucceeds, SaveNameOf
<1>3. ASSUME NEW m \in Modules, ImportFails(m) PROVE JournalTells'
  BY <1>3
     DEF ImportFails, AfterFailure, AfterDocumentFailure, AfterCreationFailure,
         AfterCodeFailure
<1>4. CASE PassCompleted
  BY <1>4
     DEF PassCompleted, FailBatchOnLock, RunPass, CompleteImport, FailedModules,
         Imported
<1>5. CASE BridgeFails
  BY <1>5 DEF BridgeFails, CompleteImport, Undo, Journalled
<1>6. CASE RollbackBatch
  BY <1>6 DEF RollbackBatch, Undo
<1>7. CASE RollbackCompleted
  BY <1>7 DEF RollbackCompleted, CompleteImport
<1>8. CASE SaveModules
  BY <1>8 DEF SaveModules, CompleteImport, Written
<1>9. CASE SaveCompleted
  BY <1>9 DEF SaveCompleted, FailBatchOnLock, CompleteImport, Imported
<1>10. CASE CloseSession
  BY <1>10 DEF CloseSession, Written
<1>11. CASE KillSession
  BY <1>11 DEF KillSession, Written
<1> QED
  BY <1>1, <1>2, <1>3, <1>4, <1>5, <1>6, <1>7, <1>8, <1>9, <1>10, <1>11
     DEF ImportNext, ImportStep

(* A retry tries exactly the modules that failed and were not locked.      *)
LEMMA PassTriesStep == ASSUME ImportInv, ImportNext PROVE PassTries'
<1> USE ImportAssumption DEF ImportInv, ImportTypeOK, ImportFacts, NothingYet, FileUntouched,
        JournalTells, PassTries, SavedInFile, RollbackKnows, LockedUndone, ClosingKnows,
        OriginalContent, Contents, importCore
<1>1. CASE ImportStart
  BY <1>1 DEF ImportStart, CompleteImport, RunPass
<1>2. ASSUME NEW m \in Modules, ImportSucceeds(m) PROVE PassTries'
  BY <1>2 DEF ImportSucceeds, SaveNameOf
<1>3. ASSUME NEW m \in Modules, ImportFails(m) PROVE PassTries'
  BY <1>3
     DEF ImportFails, AfterFailure, AfterDocumentFailure, AfterCreationFailure,
         AfterCodeFailure
<1>4. CASE PassCompleted
  BY <1>4
     DEF PassCompleted, FailBatchOnLock, RunPass, CompleteImport, FailedModules,
         Imported
<1>5. CASE BridgeFails
  BY <1>5 DEF BridgeFails, CompleteImport, Undo, Journalled
<1>6. CASE RollbackBatch
  BY <1>6 DEF RollbackBatch, Undo
<1>7. CASE RollbackCompleted
  BY <1>7 DEF RollbackCompleted, CompleteImport
<1>8. CASE SaveModules
  BY <1>8 DEF SaveModules, CompleteImport, Written
<1>9. CASE SaveCompleted
  BY <1>9 DEF SaveCompleted, FailBatchOnLock, CompleteImport, Imported
<1>10. CASE CloseSession
  BY <1>10 DEF CloseSession, Written
<1>11. CASE KillSession
  BY <1>11 DEF KillSession, Written
<1> QED
  BY <1>1, <1>2, <1>3, <1>4, <1>5, <1>6, <1>7, <1>8, <1>9, <1>10, <1>11
     DEF ImportNext, ImportStep

(* A save that worked has written every named module.                      *)
LEMMA SavedInFileStep == ASSUME ImportInv, ImportNext PROVE SavedInFile'
<1> USE ImportAssumption DEF ImportInv, ImportTypeOK, ImportFacts, NothingYet, FileUntouched,
        JournalTells, PassTries, SavedInFile, RollbackKnows, LockedUndone, ClosingKnows,
        OriginalContent, Contents, importCore
<1>1. CASE ImportStart
  BY <1>1 DEF ImportStart, CompleteImport, RunPass
<1>2. ASSUME NEW m \in Modules, ImportSucceeds(m) PROVE SavedInFile'
  BY <1>2 DEF ImportSucceeds, SaveNameOf
<1>3. ASSUME NEW m \in Modules, ImportFails(m) PROVE SavedInFile'
  BY <1>3
     DEF ImportFails, AfterFailure, AfterDocumentFailure, AfterCreationFailure,
         AfterCodeFailure
<1>4. CASE PassCompleted
  BY <1>4
     DEF PassCompleted, FailBatchOnLock, RunPass, CompleteImport, FailedModules,
         Imported
<1>5. CASE BridgeFails
  BY <1>5 DEF BridgeFails, CompleteImport, Undo, Journalled
<1>6. CASE RollbackBatch
  BY <1>6 DEF RollbackBatch, Undo
<1>7. CASE RollbackCompleted
  BY <1>7 DEF RollbackCompleted, CompleteImport
<1>8. CASE SaveModules
  BY <1>8 DEF SaveModules, CompleteImport, Written
<1>9. CASE SaveCompleted
  BY <1>9 DEF SaveCompleted, FailBatchOnLock, CompleteImport, Imported
<1>10. CASE CloseSession
  BY <1>10 DEF CloseSession, Written
<1>11. CASE KillSession
  BY <1>11 DEF KillSession, Written
<1> QED
  BY <1>1, <1>2, <1>3, <1>4, <1>5, <1>6, <1>7, <1>8, <1>9, <1>10, <1>11
     DEF ImportNext, ImportStep

(* A lock hands the imported modules to the rollback, with their journal.  *)
LEMMA RollbackKnowsStep == ASSUME ImportInv, ImportNext PROVE RollbackKnows'
<1> USE ImportAssumption DEF ImportInv, ImportTypeOK, ImportFacts, NothingYet, FileUntouched,
        JournalTells, PassTries, SavedInFile, RollbackKnows, LockedUndone, ClosingKnows,
        OriginalContent, Contents, importCore
<1>1. CASE ImportStart
  BY <1>1 DEF ImportStart, CompleteImport, RunPass
<1>2. ASSUME NEW m \in Modules, ImportSucceeds(m) PROVE RollbackKnows'
  BY <1>2 DEF ImportSucceeds, SaveNameOf
<1>3. ASSUME NEW m \in Modules, ImportFails(m) PROVE RollbackKnows'
  BY <1>3
     DEF ImportFails, AfterFailure, AfterDocumentFailure, AfterCreationFailure,
         AfterCodeFailure
<1>4. CASE PassCompleted
  BY <1>4
     DEF PassCompleted, FailBatchOnLock, RunPass, CompleteImport, FailedModules,
         Imported
<1>5. CASE BridgeFails
  BY <1>5 DEF BridgeFails, CompleteImport, Undo, Journalled
<1>6. CASE RollbackBatch
  BY <1>6 DEF RollbackBatch, Undo
<1>7. CASE RollbackCompleted
  BY <1>7 DEF RollbackCompleted, CompleteImport
<1>8. CASE SaveModules
  BY <1>8 DEF SaveModules, CompleteImport, Written
<1>9. CASE SaveCompleted
  BY <1>9 DEF SaveCompleted, FailBatchOnLock, CompleteImport, Imported
<1>10. CASE CloseSession
  BY <1>10 DEF CloseSession, Written
<1>11. CASE KillSession
  BY <1>11 DEF KillSession, Written
<1> QED
  BY <1>1, <1>2, <1>3, <1>4, <1>5, <1>6, <1>7, <1>8, <1>9, <1>10, <1>11
     DEF ImportNext, ImportStep

(* The rollback restores what it can and marks what it cannot.             *)
LEMMA LockedUndoneStep == ASSUME ImportInv, ImportNext PROVE LockedUndone'
<1> USE ImportAssumption DEF ImportInv, ImportTypeOK, ImportFacts, NothingYet, FileUntouched,
        JournalTells, PassTries, SavedInFile, RollbackKnows, LockedUndone, ClosingKnows,
        OriginalContent, Contents, importCore
<1>1. CASE ImportStart
  BY <1>1 DEF ImportStart, CompleteImport, RunPass
<1>2. ASSUME NEW m \in Modules, ImportSucceeds(m) PROVE LockedUndone'
  BY <1>2 DEF ImportSucceeds, SaveNameOf
<1>3. ASSUME NEW m \in Modules, ImportFails(m) PROVE LockedUndone'
  BY <1>3
     DEF ImportFails, AfterFailure, AfterDocumentFailure, AfterCreationFailure,
         AfterCodeFailure
<1>4. CASE PassCompleted
  BY <1>4
     DEF PassCompleted, FailBatchOnLock, RunPass, CompleteImport, FailedModules,
         Imported
<1>5. CASE BridgeFails
  BY <1>5 DEF BridgeFails, CompleteImport, Undo, Journalled
<1>6. CASE RollbackBatch
  <2>1. PICK stuck \in SUBSET todo, broken \in SUBSET todo :
             /\ broken \subseteq stuck /\ Undo(todo, stuck, broken)
             /\ rolled' = [m \in Modules |-> IF m \in stuck THEN "failed"
                                             ELSE IF m \in todo THEN "applied"
                                             ELSE rolled[m]]
    BY <1>6 DEF RollbackBatch
  <2>2. ASSUME NEW m \in targets, m \notin damaged'
        PROVE  session'[m] = OriginalContent[m] \/ rolled'[m] = "failed"
    BY <1>6, <2>1, <2>2 DEF RollbackBatch, Undo
  <2> QED
    BY <1>6, <2>2 DEF RollbackBatch
<1>7. CASE RollbackCompleted
  BY <1>7 DEF RollbackCompleted, CompleteImport
<1>8. CASE SaveModules
  BY <1>8 DEF SaveModules, CompleteImport, Written
<1>9. CASE SaveCompleted
  BY <1>9 DEF SaveCompleted, FailBatchOnLock, CompleteImport, Imported
<1>10. CASE CloseSession
  BY <1>10 DEF CloseSession, Written
<1>11. CASE KillSession
  BY <1>11 DEF KillSession, Written
<1> QED
  BY <1>1, <1>2, <1>3, <1>4, <1>5, <1>6, <1>7, <1>8, <1>9, <1>10, <1>11
     DEF ImportNext, ImportStep

(* What the open project shows when a call completes.                      *)
LEMMA ClosingKnowsStep == ASSUME ImportInv, ImportNext PROVE ClosingKnows'
<1> USE ImportAssumption DEF ImportInv, ImportTypeOK, ImportFacts, NothingYet, FileUntouched,
        JournalTells, PassTries, SavedInFile, RollbackKnows, LockedUndone, ClosingKnows,
        OriginalContent, Contents, importCore
<1>1. CASE ImportStart
  BY <1>1 DEF ImportStart, CompleteImport, RunPass
<1>2. ASSUME NEW m \in Modules, ImportSucceeds(m) PROVE ClosingKnows'
  BY <1>2 DEF ImportSucceeds, SaveNameOf
<1>3. ASSUME NEW m \in Modules, ImportFails(m) PROVE ClosingKnows'
  BY <1>3
     DEF ImportFails, AfterFailure, AfterDocumentFailure, AfterCreationFailure,
         AfterCodeFailure
<1>4. CASE PassCompleted
  BY <1>4
     DEF PassCompleted, FailBatchOnLock, RunPass, CompleteImport, FailedModules,
         Imported
<1>5. CASE BridgeFails
  BY <1>5 DEF BridgeFails, CompleteImport, Undo, Journalled
<1>6. CASE RollbackBatch
  BY <1>6 DEF RollbackBatch, Undo
<1>7. CASE RollbackCompleted
  BY <1>7 DEF RollbackCompleted, CompleteImport
<1>8. CASE SaveModules
  BY <1>8 DEF SaveModules, CompleteImport, Written
<1>9. CASE SaveCompleted
  BY <1>9 DEF SaveCompleted, FailBatchOnLock, CompleteImport, Imported
<1>10. CASE CloseSession
  BY <1>10 DEF CloseSession, Written
<1>11. CASE KillSession
  BY <1>11 DEF KillSession, Written
<1> QED
  BY <1>1, <1>2, <1>3, <1>4, <1>5, <1>6, <1>7, <1>8, <1>9, <1>10, <1>11
     DEF ImportNext, ImportStep

(* A retry pass is smaller than the pass before it: some module of that    *)
(* one was imported.                                                       *)
LEMMA RetriesShrinkStep == ASSUME ImportInv, ImportNext, ImportTypeOK' PROVE RetriesShrink'
<1> USE DEF ImportInv, ImportUndone, RetriesShrink
<1>1. IsFiniteSet(targets) /\ IsFiniteSet(pending) /\ IsFiniteSet(targets')
  BY ImportAssumption, FS_Subset DEF ImportTypeOK
<1>2. /\ Cardinality(targets) \in Nat /\ Cardinality(pending) \in Nat
      /\ Cardinality(targets') \in Nat /\ pass \in Nat
  BY <1>1, FS_CardinalityType DEF ImportTypeOK
<1>3. CASE ImportStart
  BY <1>2, <1>3 DEF ImportStart, CompleteImport, RunPass, ImportFacts, NothingYet
<1>4. CASE PassCompleted
  <2>1. CASE MayRetry(pass + 1) /\ RunPass(FailedModules) /\ targets' = targets /\ pass' = pass + 1
    <3>1. FailedModules \subseteq pending /\ FailedModules # pending
      BY <2>1 DEF MayRetry, FailedModules
    <3>2. Cardinality(FailedModules) \in Nat /\ Cardinality(FailedModules) < Cardinality(pending)
      BY <1>1, <3>1, FS_Subset, FS_CardinalityType
    <3>3. phase = "pass" /\ pending' = FailedModules
      BY <1>4, <2>1 DEF PassCompleted, RunPass
    <3> QED
      BY <1>2, <2>1, <3>2, <3>3
  <2>2. CASE phase' # "pass"
    BY <2>2
  <2> QED
    BY <1>4, <2>1, <2>2 DEF PassCompleted, FailBatchOnLock, CompleteImport
<1>5. CASE UNCHANGED <<targets, pending, pass, phase>>
  BY <1>5
<1>6. CASE phase' # "pass"
  BY <1>6
<1> QED
  BY <1>3, <1>4, <1>5, <1>6
     DEF ImportNext, ImportStep, ImportSucceeds, ImportFails, BridgeFails, CompleteImport,
         RollbackBatch, RollbackCompleted, SaveModules, SaveCompleted, FailBatchOnLock,
         CloseSession, KillSession

(* The close of the session keeps or drops each unsaved change, and the    *)
(* contents that are promised are the same either way.                     *)
LEMMA ClosePromises ==
    ASSUME ImportInv, CloseSession
    PROVE  (OkIsPersisted /\ LockedBatchUndone /\ BridgeFailureUndone)'
<1> USE DEF ImportInv, ImportTypeOK, ImportFacts, importCore
<1>1. PICK kept \in SUBSET Modules : file' = Written(kept)
  BY DEF CloseSession
<1>2. \A m \in Modules : file'[m] \in {file[m], session[m]}
  BY <1>1 DEF Written
<1>3. phase = "closing" /\ report' \in {report, "quitFailed"}
  BY DEF CloseSession
<1>4. UNCHANGED <<targets, result, rolled, named, saving, session, damaged>>
  BY DEF CloseSession
<1>5. OkIsPersisted'
  BY <1>2, <1>3, <1>4 DEF OkIsPersisted, ClosingKnows
<1>6. LockedBatchUndone'
  BY <1>2, <1>3, <1>4 DEF LockedBatchUndone, LockedUndone, FileUntouched
<1>7. BridgeFailureUndone'
  BY <1>2, <1>3, <1>4 DEF BridgeFailureUndone, ClosingKnows, OriginalContent
<1> QED
  BY <1>5, <1>6, <1>7

(* The invariant of the import holds at first and is kept by every step.   *)
LEMMA ImportInvInit == ImportInit => ImportInv
<1> SUFFICES ASSUME ImportInit PROVE ImportInv
  OBVIOUS
<1> USE DEF ImportInit
<1>1. ImportTypeOK
  BY ImportAssumption DEF ImportTypeOK, OriginalContent, Contents, ImportPhases, ImportResults,
     ImportReports
<1>2. ImportFacts
  BY DEF ImportFacts, NothingYet, FileUntouched, JournalTells, PassTries, SavedInFile,
         RollbackKnows, LockedUndone, ClosingKnows
<1>3. OkIsPersisted /\ ImportUndone
  BY DEF OkIsPersisted, ImportUndone, RetriesShrink, LockedBatchUndone, BridgeFailureUndone
<1> QED
  BY <1>1, <1>2, <1>3 DEF ImportInv

LEMMA ImportInvStep == ImportInv /\ [ImportNext]_importVars => ImportInv'
<1>1. ASSUME ImportInv, ImportNext PROVE ImportInv'
  <2>1. ImportTypeOK' /\ ImportFacts'
    BY <1>1, ImportTypeStep, NothingYetStep, FileUntouchedStep, JournalTellsStep,
       PassTriesStep, SavedInFileStep, RollbackKnowsStep, LockedUndoneStep, ClosingKnowsStep
       DEF ImportFacts
  <2>2. RetriesShrink'
    BY <1>1, <2>1, RetriesShrinkStep
  <2>3. (OkIsPersisted /\ LockedBatchUndone /\ BridgeFailureUndone)'
    <3>1. CASE CloseSession
      BY <1>1, <3>1, ClosePromises
    <3>2. CASE KillSession
      BY <3>2 DEF KillSession, OkIsPersisted, LockedBatchUndone, BridgeFailureUndone
    <3>3. CASE phase' # "done"
      BY <3>3 DEF OkIsPersisted, LockedBatchUndone, BridgeFailureUndone
    <3> QED
      BY <1>1, <3>1, <3>2, <3>3
         DEF ImportNext, ImportStep, ImportStart, ImportSucceeds, ImportFails, PassCompleted,
             BridgeFails, CompleteImport, RunPass, RollbackBatch, RollbackCompleted,
             SaveModules, SaveCompleted, FailBatchOnLock
  <2> QED
    BY <2>1, <2>2, <2>3 DEF ImportInv, ImportUndone
<1>2. ASSUME ImportInv, UNCHANGED importVars PROVE ImportInv'
  BY <1>2 DEF importVars, importCore, ImportInv, ImportTypeOK, ImportFacts, NothingYet,
     FileUntouched, JournalTells, PassTries, SavedInFile, RollbackKnows, LockedUndone,
     ClosingKnows, OkIsPersisted, ImportUndone, RetriesShrink, LockedBatchUndone,
     BridgeFailureUndone
<1> QED
  BY <1>1, <1>2

(* vba-import-orchestration.ts and its transport: when a call ended with   *)
(* success or failure and without a save warning, a module that was named  *)
(* in the save and is reported ok is in the .accdb, whatever failed around *)
(* it and whatever the close of Access kept.                               *)
THEOREM OkModulesArePersisted == ImportSpec => []OkIsPersisted
<1>1. ImportInv => OkIsPersisted
  BY DEF ImportInv
<1> QED
  BY <1>1, ImportInvInit, ImportInvStep, PTL DEF ImportSpec

(* For every batch: the retries need at most as many passes as there are   *)
(* modules. A batch that failed on a lock met in a pass reports no module  *)
(* ok, and its files, like those of a batch whose core process failed and  *)
(* whose journal was undone, hold what they held before, except for a      *)
(* module whose undo is reported as failed or that an earlier attempt had  *)
(* broken. A lock met by the save itself is not covered.                   *)
THEOREM ImportsAreSafe == ImportSpec => []ImportSafe
<1>1. ImportInv => ImportSafe
  BY DEF ImportInv, ImportUndone, ImportSafe
<1> QED
  BY <1>1, ImportInvInit, ImportInvStep, PTL DEF ImportSpec

-----------------------------------------------------------------------------
(***************************************************************************)
(* The relinking of a directory.  resolveChain is a loop over the hops of  *)
(* a chain of links, so its facts are proved by induction, in the form of  *)
(* a least counterexample.                                                 *)
(***************************************************************************)
\* The order of the natural numbers, as a relation.
Below == {pair \in Nat \X Nat : pair[1] < pair[2]}

\* Induction, as the least element of a set of counterexamples.
LEMMA LeastNumber ==
  ASSUME NEW S, S \subseteq Nat, S # {}
  PROVE  \E n \in S : \A m \in S : n <= m
<1>1. IsWellFoundedOn(Below, Nat)
  BY NatLessThanWellFounded DEF OpToRel, Below
<1>2. PICK n \in S : \A m \in S : <<m, n>> \notin Below
  BY <1>1, WFMin
<1>3. \A m \in S : ~(m < n)
  BY <1>2 DEF Below
<1> QED
  BY <1>3

Places == Tables \cup {NotScanned}

\* One hop of the walk.
Hop(tables, place) == IF place = NotScanned THEN NotScanned ELSE tables[place].to

LEMMA HopFacts ==
  ASSUME NEW tables \in [Tables -> Entries], NEW place \in Places
  PROVE  Hop(tables, place) \in Places
<1>1. CASE place = NotScanned
  BY <1>1 DEF Hop, Places
<1>2. CASE place # NotScanned
  <2>1. tables[place] \in Entries
    BY <1>2 DEF Places
  <2>2. tables[place].to \in Places
    BY <2>1 DEF Entries, Places
  <2> QED
    BY <1>2, <2>2 DEF Hop
<1> QED
  BY <1>1, <1>2

WalksTo(tables, start, n, walk) ==
    /\ walk \in [0..n -> Places] /\ walk[0] = start
    /\ \A k \in 1..n : walk[k] = Hop(tables, walk[k - 1])

\* There is a walk of every length.
LEMMA WalkExists ==
  ASSUME NEW tables \in [Tables -> Entries], NEW start \in Tables, NEW n \in Nat
  PROVE  \E walk : WalksTo(tables, start, n, walk)
<1> DEFINE Fails == {k \in Nat : ~\E walk : WalksTo(tables, start, k, walk)}
<1> SUFFICES ASSUME Fails # {} PROVE FALSE
  OBVIOUS
<1>1. PICK k \in Fails : \A m \in Fails : k <= m
  <2>1. Fails \subseteq Nat
    OBVIOUS
  <2> HIDE DEF Fails
  <2> QED
    BY <2>1, LeastNumber
<1>2. k # 0
  <2>1. WalksTo(tables, start, 0, [i \in 0..0 |-> start])
    BY DEF WalksTo, Places
  <2> QED
    BY <1>1, <2>1
<1>3. k \in Nat /\ k - 1 \in Nat /\ k - 1 \notin Fails
  BY <1>1, <1>2
<1>4. PICK walk : WalksTo(tables, start, k - 1, walk)
  BY <1>3
<1>5. PICK next : next = [i \in 0..k |-> IF i = k THEN Hop(tables, walk[k - 1]) ELSE walk[i]]
  OBVIOUS
<1>6. walk[k - 1] \in Places
  BY <1>3, <1>4 DEF WalksTo
<1>7. Hop(tables, walk[k - 1]) \in Places
  BY <1>6, HopFacts
<1>8. next \in [0..k -> Places]
  <2>1. ASSUME NEW i \in 0..k PROVE (IF i = k THEN Hop(tables, walk[k - 1]) ELSE walk[i]) \in Places
    <3>1. CASE i = k
      BY <1>7, <3>1
    <3>2. CASE i # k
      <4>1. i \in 0..k - 1
        BY <1>3, <3>2
      <4> QED
        BY <1>4, <3>2, <4>1 DEF WalksTo
    <3> QED
      BY <3>1, <3>2
  <2> QED
    BY <1>5, <2>1
<1>9. next[0] = start
  BY <1>2, <1>3, <1>4, <1>5 DEF WalksTo
<1>10. ASSUME NEW i \in 1..k PROVE next[i] = Hop(tables, next[i - 1])
  <2>1. i - 1 \in 0..k /\ i - 1 # k /\ i \in 0..k
    BY <1>3
  <2>2. next[i - 1] = walk[i - 1]
    BY <1>5, <2>1
  <2>3. CASE i = k
    BY <1>5, <2>1, <2>2, <2>3
  <2>4. CASE i # k
    <3>1. i \in 1..k - 1
      BY <1>3, <2>4
    <3>2. walk[i] = Hop(tables, walk[i - 1])
      BY <1>4, <3>1 DEF WalksTo
    <3> QED
      BY <1>5, <2>1, <2>2, <2>4, <3>2
  <2> QED
    BY <2>3, <2>4
<1>11. WalksTo(tables, start, k, next)
  BY <1>8, <1>9, <1>10 DEF WalksTo
<1> QED
  BY <1>1, <1>11

IsWalk(at, tables, start) ==
    at = [k \in 0..MaxHops |->
            IF k = 0 THEN start
            ELSE IF at[k - 1] = NotScanned THEN NotScanned
            ELSE tables[at[k - 1]].to]

\* Walk is that walk.
LEMMA WalkFacts ==
  ASSUME NEW tables \in [Tables -> Entries], NEW start \in Tables
  PROVE  WalksTo(tables, start, MaxHops, Walk(tables, start))
<1>0. MaxHops \in Nat
  BY RelinkAssumption
<1>1. PICK walk : WalksTo(tables, start, MaxHops, walk)
  BY <1>0, WalkExists
<1>2. IsWalk(walk, tables, start)
  <2>1. ASSUME NEW k \in 0..MaxHops
        PROVE  walk[k] = IF k = 0 THEN start
                         ELSE IF walk[k - 1] = NotScanned THEN NotScanned
                         ELSE tables[walk[k - 1]].to
    <3>1. CASE k = 0
      BY <1>1, <3>1 DEF WalksTo
    <3>2. CASE k # 0
      <4>1. k \in 1..MaxHops
        BY <1>0, <3>2
      <4> QED
        BY <1>1, <3>2, <4>1 DEF WalksTo, Hop
    <3> QED
      BY <3>1, <3>2
  <2>2. walk = [k \in 0..MaxHops |-> walk[k]]
    BY <1>1 DEF WalksTo
  <2> QED
    BY <2>1, <2>2 DEF IsWalk
<1>3. Walk(tables, start) = CHOOSE at : IsWalk(at, tables, start)
  BY DEF Walk, IsWalk
<1>4. IsWalk(Walk(tables, start), tables, start)
  BY <1>2, <1>3
<1>5. PICK at : at = Walk(tables, start)
  OBVIOUS
<1>6. /\ at = [k \in 0..MaxHops |-> at[k]]
      /\ \A k \in 0..MaxHops : at[k] = IF k = 0 THEN start
                         ELSE IF at[k - 1] = NotScanned THEN NotScanned
                         ELSE tables[at[k - 1]].to
  BY <1>4, <1>5 DEF IsWalk
<1>7. at[0] = start /\ \A k \in 1..MaxHops : at[k] = Hop(tables, at[k - 1])
  BY <1>0, <1>6 DEF Hop
<1>8. ASSUME NEW k \in 0..MaxHops PROVE at[k] \in Places
  <2> DEFINE Bad == {j \in 0..MaxHops : at[j] \notin Places}
  <2> SUFFICES ASSUME Bad # {} PROVE FALSE
    OBVIOUS
  <2>1. PICK j \in Bad : \A i \in Bad : j <= i
    <3>1. Bad \subseteq Nat
      BY <1>0
    <3> HIDE DEF Bad
    <3> QED
      BY <3>1, LeastNumber
  <2>2. j # 0
    BY <1>7, <2>1 DEF Places
  <2>3. j \in 1..MaxHops /\ j - 1 \in 0..MaxHops /\ j - 1 \notin Bad
    BY <1>0, <2>1, <2>2
  <2>4. at[j - 1] \in Places
    BY <2>3
  <2>5. at[j] \in Places
    BY <1>7, <2>3, <2>4, HopFacts
  <2> QED
    BY <2>1, <2>5
<1> QED
  BY <1>5, <1>6, <1>7, <1>8 DEF WalksTo

\* What the loop of resolveChain returns at its k-th hop, or "next".
ReturnsAt(tables, failed, at, k) ==
    IF \E j \in 0..k - 1 : at[j] = at[k] THEN "cycle"
    ELSE IF k = MaxHops \/ (at[k] # NotScanned /\ FileOf[at[k]] \in failed)
    THEN "fallback"
    ELSE IF at[k] = NotScanned \/ tables[at[k]].kind = "absent" THEN "missing"
    ELSE IF tables[at[k]].kind = "local" THEN "resolved"
    ELSE IF tables[at[k]].kind = "unresolved" THEN "fallback"
    ELSE "next"

IsFirst(tables, failed, at, k) ==
    /\ ReturnsAt(tables, failed, at, k) # "next"
    /\ \A j \in 0..k - 1 : ReturnsAt(tables, failed, at, j) = "next"

\* resolveChain ends at the first hop at which one of its returns applies.
LEMMA ChainFacts ==
  ASSUME NEW tables \in [Tables -> Entries], NEW failed, NEW start \in Tables,
         NEW at, at = Walk(tables, start)
  PROVE  \E h \in 0..MaxHops :
           /\ IsFirst(tables, failed, at, h)
           /\ Chain(tables, failed, start).kind = ReturnsAt(tables, failed, at, h)
           /\ Chain(tables, failed, start).to =
                IF ReturnsAt(tables, failed, at, h) = "resolved" THEN at[h] ELSE tables[start].to
<1>0. MaxHops \in Nat
  BY RelinkAssumption
<1> DEFINE Ends == {k \in 0..MaxHops : ReturnsAt(tables, failed, at, k) # "next"}
<1>1. PICK k \in Ends : \A j \in Ends : k <= j
  <2>1. MaxHops \in Ends
    BY <1>0 DEF ReturnsAt
  <2>2. Ends \subseteq Nat
    BY <1>0
  <2> HIDE DEF Ends
  <2> QED
    BY <2>1, <2>2, LeastNumber
<1>2. k \in 0..MaxHops /\ IsFirst(tables, failed, at, k)
  BY <1>0, <1>1 DEF IsFirst
<1>3. PICK h : h = CHOOSE i \in 0..MaxHops : IsFirst(tables, failed, at, i)
  OBVIOUS
<1>4. h \in 0..MaxHops /\ IsFirst(tables, failed, at, h)
  BY <1>2, <1>3
<1>5. Chain(tables, failed, start) =
        [kind |-> ReturnsAt(tables, failed, at, h), hops |-> h,
         to |-> IF ReturnsAt(tables, failed, at, h) = "resolved" THEN at[h] ELSE tables[start].to]
  BY <1>3 DEF Chain, ReturnsAt, IsFirst
<1> QED
  BY <1>4, <1>5

\* A walk along links visits the tables of every path from its start.
LEMMA WalkFollows ==
  ASSUME NEW tables \in [Tables -> Entries], NEW start \in Tables, NEW k \in Nat,
         NEW path \in [0..k -> Tables], path[0] = start,
         \A i \in 0..k - 1 : path[i + 1] = tables[path[i]].to
  PROVE  \A j \in 0..k : j <= MaxHops => Walk(tables, start)[j] = path[j]
<1>0. MaxHops \in Nat /\ NotScanned \notin Tables
  BY RelinkAssumption
<1>1. PICK at : at = Walk(tables, start)
  OBVIOUS
<1>2. WalksTo(tables, start, MaxHops, at)
  BY <1>1, WalkFacts
<1> DEFINE Off == {j \in 0..k : j <= MaxHops /\ at[j] # path[j]}
<1> SUFFICES ASSUME Off # {} PROVE FALSE
  BY <1>1
<1>3. PICK j \in Off : \A i \in Off : j <= i
  <2>1. Off \subseteq Nat
    OBVIOUS
  <2> HIDE DEF Off
  <2> QED
    BY <2>1, LeastNumber
<1>4. j # 0
  BY <1>2, <1>3 DEF WalksTo
<1>5. j \in 1..MaxHops /\ j - 1 \in 0..k - 1 /\ j - 1 \in 0..k /\ j - 1 <= MaxHops
  BY <1>0, <1>3, <1>4
<1>6. j - 1 \notin Off
  BY <1>3, <1>5
<1>7. at[j - 1] = path[j - 1]
  BY <1>5, <1>6
<1>8. path[j - 1] \in Tables
  BY <1>5
<1>9. at[j] = tables[path[j - 1]].to
  BY <1>0, <1>2, <1>5, <1>7, <1>8 DEF WalksTo, Hop
<1>10. path[(j - 1) + 1] = tables[path[j - 1]].to /\ (j - 1) + 1 = j
  BY <1>5
<1> QED
  BY <1>3, <1>9, <1>10

\* A table through the call: as it was inspected, relinked, removed, or lost
\* between the deletion and the creation of its link.
TableTells(t) ==
    \/ links[t] = inspected[t] /\ verdict[t] \notin {"applied", "removed"}
    \/ /\ ActionOf(t) = "relink" /\ verdict[t] = "applied"
       /\ links[t] = [kind |-> "inside", to |-> Chain(inspected, unread, t).to]
    \/ ActionOf(t) = "remove" /\ verdict[t] = "removed" /\ links[t].kind = "absent"
    \/ ActionOf(t) = "relink" /\ verdict[t] = "plannedRelink" /\ links[t].kind = "absent"

RelinkInv ==
    /\ RelinkTypeOK
    /\ relinkAt \in {"start", "plan"} =>
         toApply = {} /\ \A t \in Tables : links[t] = inspected[t] /\ verdict[t] = "none"
    /\ \A t \in Tables : FileOf[t] \in toApply => links[t] = inspected[t] /\ verdict[t] = Classify(t)
    /\ \A t \in Tables : TableTells(t)

\* An inspected table; a mapped link leads into a scanned database.
LEMMA EntryFacts ==
  ASSUME NEW e \in Entries
  PROVE  /\ e.kind \in {"absent", "local", "unresolved", "inside", "mapped"}
         /\ e.to \in Places /\ (e.kind = "mapped" => e.to \in Tables)
BY DEF Entries, Places

\* The classification of a link and the action planned for it.
LEMMA ClassifyFacts ==
  ASSUME RelinkTypeOK, NEW t \in Tables
  PROVE  /\ Classify(t) \in {"none", "alreadyLocal", "plannedRelink", "unresolved", "cycle"}
         /\ ActionOf(t) \in {"relink", "remove", "none"}
         /\ ActionOf(t) = "relink" =>
              /\ Classify(t) = "plannedRelink" /\ FileOf[t] \notin unread
              /\ inspected[t].kind = "mapped" /\ inspected[t].to \in Tables
              /\ Chain(inspected, unread, t).kind \notin {"cycle", "missing"}
         /\ ActionOf(t) = "remove" =>
              \/ inspected[t].kind = "unresolved"
              \/ inspected[t].kind = "mapped" /\ Chain(inspected, unread, t).kind = "missing"
<1>1. inspected[t] \in Entries
  BY DEF RelinkTypeOK
<1>2. /\ inspected[t].kind \in {"absent", "local", "unresolved", "inside", "mapped"}
      /\ inspected[t].kind = "mapped" => inspected[t].to \in Tables
  BY <1>1, EntryFacts
<1>3. /\ Classify(t) \in {"none", "alreadyLocal", "plannedRelink", "unresolved", "cycle"}
      /\ Classify(t) = "plannedRelink" =>
           /\ FileOf[t] \notin unread /\ inspected[t].kind = "mapped"
           /\ Chain(inspected, unread, t).kind \notin {"cycle", "missing"}
      /\ Classify(t) = "unresolved" =>
              \/ inspected[t].kind = "unresolved"
              \/ inspected[t].kind = "mapped" /\ Chain(inspected, unread, t).kind = "missing"
  BY <1>2 DEF Classify
<1> QED
  BY <1>2, <1>3 DEF ActionOf

\* Where a relinked table leads.
LEMMA RelinkLeads ==
  ASSUME RelinkTypeOK, NEW t \in Tables, ActionOf(t) = "relink",
         NEW m, m = Chain(inspected, unread, t).to
  PROVE  /\ m \in Tables
         /\ inspected[m].kind = "local" \/ m = inspected[t].to
         /\ FileOf[m] \notin unread => inspected[m].kind # "absent"
<1>0. MaxHops \in Nat /\ MaxHops # 0 /\ MaxHops # 1 /\ NotScanned \notin Tables
  BY RelinkAssumption
<1>1. PICK at : at = Walk(inspected, t)
  OBVIOUS
<1>2. inspected \in [Tables -> Entries]
  BY DEF RelinkTypeOK
<1>3. WalksTo(inspected, t, MaxHops, at)
  BY <1>1, <1>2, WalkFacts
<1>4. PICK h \in 0..MaxHops :
           /\ IsFirst(inspected, unread, at, h)
           /\ Chain(inspected, unread, t).kind = ReturnsAt(inspected, unread, at, h)
           /\ m = IF ReturnsAt(inspected, unread, at, h) = "resolved" THEN at[h] ELSE inspected[t].to
  BY <1>1, <1>2, ChainFacts
<1>5. /\ FileOf[t] \notin unread /\ inspected[t].kind = "mapped" /\ inspected[t].to \in Tables
      /\ ReturnsAt(inspected, unread, at, h) \notin {"cycle", "missing", "next"}
  BY <1>4, ClassifyFacts DEF IsFirst
<1>6. at[0] = t /\ at[1] = inspected[t].to
  <2>1. 1 \in 1..MaxHops /\ at[1] = Hop(inspected, at[1 - 1])
    BY <1>0, <1>3 DEF WalksTo
  <2> QED
    BY <1>0, <1>3, <2>1 DEF WalksTo, Hop
<1>7. ReturnsAt(inspected, unread, at, 0) = "next"
  BY <1>0, <1>5, <1>6 DEF ReturnsAt
<1>8. h # 0
  BY <1>4, <1>7 DEF IsFirst
<1>9. CASE ReturnsAt(inspected, unread, at, h) = "resolved"
  <2>1. m = at[h] /\ at[h] # NotScanned /\ inspected[at[h]].kind = "local"
    BY <1>4, <1>9 DEF ReturnsAt
  <2>2. at[h] \in Places
    BY <1>3, <1>4 DEF WalksTo
  <2> QED
    BY <2>1, <2>2 DEF Places
<1>10. CASE ReturnsAt(inspected, unread, at, h) # "resolved"
  <2>1. m = inspected[t].to /\ ReturnsAt(inspected, unread, at, h) = "fallback"
    BY <1>4, <1>5, <1>10 DEF ReturnsAt
  <2>2. ReturnsAt(inspected, unread, at, 1) \in {"next", "fallback"}
    <3>1. CASE h = 1
      BY <2>1, <3>1
    <3>2. CASE h # 1
      BY <1>4, <1>8, <3>2 DEF IsFirst
    <3> QED
      BY <3>1, <3>2
  <2>3. FileOf[m] \notin unread => inspected[m].kind # "absent"
    BY <1>0, <1>6, <2>1, <2>2 DEF ReturnsAt
  <2> QED
    BY <1>5, <2>1, <2>3
<1> QED
  BY <1>9, <1>10

\* The walk along a path of links in readable databases.
LEMMA PathReturns ==
  ASSUME RelinkTypeOK, unread = {}, NEW t \in Tables, NEW k \in Nat, k <= MaxHops,
         NEW at, at = Walk(inspected, t), NEW m, Reaches(inspected, t, k, m)
  PROVE  /\ at[k] = m
         /\ \A j \in 0..k - 1 : ReturnsAt(inspected, unread, at, j) \in {"cycle", "next"}
<1>0. MaxHops \in Nat /\ NotScanned \notin Tables
  BY RelinkAssumption
<1>1. PICK path \in [0..k -> Tables] :
        /\ path[0] = t /\ path[k] = m
        /\ \A i \in 0..k - 1 : inspected[path[i]].kind \in LinkKinds /\ path[i + 1] = inspected[path[i]].to
  BY DEF Reaches
<1>2. \A j \in 0..k : at[j] = path[j]
  <2>1. inspected \in [Tables -> Entries]
    BY DEF RelinkTypeOK
  <2>2. \A j \in 0..k : j <= MaxHops => at[j] = path[j]
    BY <1>1, <2>1, WalkFollows
  <2> QED
    BY <1>0, <2>2
<1>3. ASSUME NEW j \in 0..k - 1 PROVE ReturnsAt(inspected, unread, at, j) \in {"cycle", "next"}
  <2>1. j \in 0..k /\ j # MaxHops
    BY <1>0
  <2>2. at[j] \in Tables /\ inspected[at[j]].kind \in {"inside", "mapped"}
    BY <1>1, <1>2, <2>1 DEF LinkKinds
  <2> QED
    BY <1>0, <2>1, <2>2 DEF ReturnsAt
<1> QED
  BY <1>1, <1>2, <1>3

\* A planned relink leads to the native table at the end of its chain.
LEMMA EndpointReached ==
  ASSUME RelinkTypeOK, unread = {}, NEW t \in Tables, ActionOf(t) = "relink",
         NEW k \in 1..MaxHops - 1, NEW m \in Tables, Reaches(inspected, t, k, m),
         inspected[m].kind = "local"
  PROVE  Chain(inspected, unread, t).to = m
<1>0. MaxHops \in Nat /\ NotScanned \notin Tables /\ k \in Nat /\ k < MaxHops
  BY RelinkAssumption
<1>1. PICK at : at = Walk(inspected, t)
  OBVIOUS
<1>2. PICK h \in 0..MaxHops :
           /\ IsFirst(inspected, unread, at, h)
           /\ Chain(inspected, unread, t).kind = ReturnsAt(inspected, unread, at, h)
           /\ Chain(inspected, unread, t).to =
                IF ReturnsAt(inspected, unread, at, h) = "resolved" THEN at[h] ELSE inspected[t].to
  BY <1>1, ChainFacts DEF RelinkTypeOK
<1>3. /\ at[k] = m
      /\ \A j \in 0..k - 1 : ReturnsAt(inspected, unread, at, j) \in {"cycle", "next"}
  BY <1>0, <1>1, PathReturns
<1>4. ReturnsAt(inspected, unread, at, h) \notin {"cycle", "missing", "next"}
  BY <1>2, ClassifyFacts DEF IsFirst
<1>5. ReturnsAt(inspected, unread, at, k) \in {"cycle", "resolved"}
  BY <1>0, <1>3 DEF ReturnsAt
<1>6. h = k
  <2>1. h \notin 0..k - 1
    BY <1>3, <1>4
  <2>2. k \notin 0..h - 1
    BY <1>2, <1>5 DEF IsFirst
  <2> QED
    BY <1>0, <2>1, <2>2
<1> QED
  BY <1>2, <1>3, <1>4, <1>5, <1>6

\* No relink is planned for a link on a cycle within the limit.
LEMMA NoCyclePlanned ==
  ASSUME RelinkTypeOK, unread = {}, NEW t \in Tables, ActionOf(t) = "relink",
         NEW k \in 1..MaxHops, Reaches(inspected, t, k, t)
  PROVE  FALSE
<1>0. MaxHops \in Nat /\ k \in Nat /\ k <= MaxHops /\ k # 0
  BY RelinkAssumption
<1>1. PICK at : at = Walk(inspected, t)
  OBVIOUS
<1>2. PICK h \in 0..MaxHops :
           /\ IsFirst(inspected, unread, at, h)
           /\ Chain(inspected, unread, t).kind = ReturnsAt(inspected, unread, at, h)
  BY <1>1, ChainFacts DEF RelinkTypeOK
<1>3. /\ at[k] = t
      /\ \A j \in 0..k - 1 : ReturnsAt(inspected, unread, at, j) \in {"cycle", "next"}
  BY <1>0, <1>1, PathReturns
<1>4. ReturnsAt(inspected, unread, at, h) \notin {"cycle", "missing", "next"}
  BY <1>2, ClassifyFacts DEF IsFirst
<1>5. at[0] = t
  <2>1. WalksTo(inspected, t, MaxHops, at)
    BY <1>1, WalkFacts DEF RelinkTypeOK
  <2> QED
    BY <2>1 DEF WalksTo
<1>6. ReturnsAt(inspected, unread, at, k) = "cycle"
  BY <1>0, <1>3, <1>5 DEF ReturnsAt
<1>7. h \notin 0..k - 1 /\ h # k
  BY <1>3, <1>4, <1>6
<1>8. k \in 0..h - 1
  BY <1>0, <1>7
<1> QED
  BY <1>2, <1>6, <1>8 DEF IsFirst

\* No removal is planned for a link with a native table at its end.
LEMMA NoEndpointRemoved ==
  ASSUME RelinkTypeOK, NEW t \in Tables, ActionOf(t) = "remove",
         NEW k \in Nat \ {0}, NEW m \in Tables, Reaches(inspected, t, k, m)
  PROVE  inspected[m].kind # "local"
<1> SUFFICES ASSUME inspected[m].kind = "local" PROVE FALSE
  OBVIOUS
<1>0. MaxHops \in Nat /\ NotScanned \notin Tables
  BY RelinkAssumption
<1>1. PICK path \in [0..k -> Tables] :
        /\ path[0] = t /\ path[k] = m
        /\ \A i \in 0..k - 1 : inspected[path[i]].kind \in LinkKinds /\ path[i + 1] = inspected[path[i]].to
  BY DEF Reaches
<1>2. inspected[t].kind \in LinkKinds
  BY <1>1
<1>3. Chain(inspected, unread, t).kind = "missing"
  BY <1>2, ClassifyFacts DEF LinkKinds
<1>4. PICK at : at = Walk(inspected, t)
  OBVIOUS
<1>5. PICK h \in 0..MaxHops :
           /\ IsFirst(inspected, unread, at, h)
           /\ Chain(inspected, unread, t).kind = ReturnsAt(inspected, unread, at, h)
  BY <1>4, ChainFacts DEF RelinkTypeOK
<1>6. \A j \in 0..k : j <= MaxHops => at[j] = path[j]
  <2>1. inspected \in [Tables -> Entries] /\ k \in Nat
    BY DEF RelinkTypeOK
  <2>2. \A i \in 0..k - 1 : path[i + 1] = inspected[path[i]].to
    BY <1>1
  <2> QED
    BY <1>1, <1>4, <2>1, <2>2, WalkFollows
<1>7. CASE h <= k
  <2>1. at[h] = path[h] /\ path[h] \in Tables
    BY <1>5, <1>6, <1>7
  <2>2. inspected[path[h]].kind \in LinkKinds \cup {"local"}
    <3>1. CASE h = k
      BY <1>1, <3>1
    <3>2. CASE h # k
      <4>1. h \in 0..k - 1
        BY <1>7, <3>2
      <4> QED
        BY <1>1, <4>1
    <3> QED
      BY <3>1, <3>2
  <2>3. at[h] = NotScanned \/ inspected[at[h]].kind = "absent"
    BY <1>3, <1>5 DEF ReturnsAt
  <2> QED
    BY <1>0, <2>1, <2>2, <2>3 DEF LinkKinds
<1>8. CASE ~(h <= k)
  <2>1. k \in 0..h - 1 /\ k \in 0..k /\ k <= MaxHops
    BY <1>0, <1>8
  <2>2. at[k] = m
    BY <1>1, <1>6, <2>1
  <2>3. ReturnsAt(inspected, unread, at, k) # "next"
    BY <1>0, <2>2 DEF ReturnsAt
  <2> QED
    BY <1>5, <2>1, <2>3 DEF IsFirst
<1> QED
  BY <1>7, <1>8

\* A native table stays, and a link that leads from one link to another leads
\* where it led when it was inspected.
LEMMA TableFacts ==
  ASSUME RelinkInv, NEW u \in Tables
  PROVE  /\ inspected[u].kind = "local" => links[u].kind = "local"
         /\ verdict[u] = "applied" =>
              ActionOf(u) = "relink" /\ links[u].to = Chain(inspected, unread, u).to
         /\ verdict[u] = "removed" => ActionOf(u) = "remove"
         /\ links[u].kind \in LinkKinds =>
              \/ links[u] = inspected[u]
              \/ ActionOf(u) = "relink" /\ links[u].to = Chain(inspected, unread, u).to
         /\ links[u].kind = "absent" =>
              \/ inspected[u].kind = "absent" \/ verdict[u] = "removed"
              \/ inspected[u].kind = "mapped" /\ verdict[u] = "plannedRelink"
<1>1. TableTells(u) /\ RelinkTypeOK
  BY DEF RelinkInv
<1>2. ActionOf(u) \in {"relink", "remove"} => inspected[u].kind \in {"mapped", "unresolved"}
  BY <1>1, ClassifyFacts
<1>3. ActionOf(u) = "relink" => inspected[u].kind = "mapped"
  BY <1>1, ClassifyFacts
<1> QED
  BY <1>1, <1>2, <1>3 DEF TableTells, LinkKinds

\* A cycle of links was there when the databases were inspected.
LEMMA CycleWasThere ==
  ASSUME RelinkInv, NEW t \in Tables, NEW k \in Nat \ {0}, Reaches(links, t, k, t)
  PROVE  Reaches(inspected, t, k, t)
<1>1. PICK path \in [0..k -> Tables] :
        /\ path[0] = t /\ path[k] = t
        /\ \A i \in 0..k - 1 : links[path[i]].kind \in LinkKinds /\ path[i + 1] = links[path[i]].to
  BY DEF Reaches
<1>2. \A i \in 0..k : path[i] \in Tables /\ links[path[i]].kind \in LinkKinds
  <2>1. links[path[0]].kind \in LinkKinds /\ links[path[k]].kind \in LinkKinds
    BY <1>1
  <2> QED
    BY <1>1, <2>1
<1>3. ASSUME NEW i \in 0..k - 1
      PROVE  inspected[path[i]].kind \in LinkKinds /\ path[i + 1] = inspected[path[i]].to
  <2>1. i \in 0..k /\ i + 1 \in 0..k
    OBVIOUS
  <2>2. PICK u \in Tables : u = path[i] /\ links[u].kind \in LinkKinds
    BY <1>2, <2>1
  <2>3. PICK v \in Tables : v = path[i + 1] /\ links[v].kind \in LinkKinds /\ v = links[u].to
    BY <1>1, <1>2, <2>1, <2>2
  <2>4. CASE links[u] = inspected[u]
    BY <2>2, <2>3, <2>4
  <2>5. CASE ActionOf(u) = "relink" /\ links[u].to = Chain(inspected, unread, u).to
    <3>1. inspected[v].kind # "local"
      BY <2>3, TableFacts DEF LinkKinds
    <3>2. v = inspected[u].to
      BY <2>3, <2>5, <3>1, RelinkLeads DEF RelinkInv
    <3>3. inspected[u].kind = "mapped"
      BY <2>5, ClassifyFacts DEF RelinkInv
    <3> QED
      BY <2>2, <2>3, <3>2, <3>3 DEF LinkKinds
  <2> QED
    BY <2>2, <2>4, <2>5, TableFacts
<1> QED
  BY <1>1, <1>3 DEF Reaches

\* The invariant implies the property.
LEMMA RelinkInvSafe == ASSUME RelinkInv PROVE RelinkSafe
<1>0. RelinkTypeOK /\ MaxHops \in Nat
  BY RelinkAssumption DEF RelinkInv
<1>1. NativeEndpointReached
  BY <1>0, EndpointReached, TableFacts DEF NativeEndpointReached
<1>2. NoShortCycleApplied
  <2> SUFFICES ASSUME NEW t \in Tables, verdict[t] = "applied", unread = {}, NEW k \in 1..MaxHops,
                      Reaches(links, t, k, t)
               PROVE  FALSE
    BY DEF NoShortCycleApplied
  <2>1. k \in Nat \ {0}
    BY <1>0
  <2>2. Reaches(inspected, t, k, t)
    BY <2>1, CycleWasThere
  <2>3. ActionOf(t) = "relink"
    BY TableFacts
  <2> QED
    BY <1>0, <2>2, <2>3, NoCyclePlanned
<1>3. DanglingIsExplained
  <2> SUFFICES ASSUME NEW t \in Tables, verdict[t] = "applied", NEW m, m = links[t].to,
                      FileOf[m] \notin unread, links[m].kind = "absent"
               PROVE  /\ m = inspected[t].to
                      /\ \/ removing /\ verdict[m] = "removed"
                            /\ inspected[m].kind \in {"mapped", "unresolved"}
                         \/ inspected[m].kind = "mapped" /\ verdict[m] = "plannedRelink"
    BY DEF DanglingIsExplained
  <2>1. ActionOf(t) = "relink" /\ m = Chain(inspected, unread, t).to
    BY TableFacts
  <2>2. m \in Tables /\ inspected[m].kind # "absent"
    BY <1>0, <2>1, RelinkLeads
  <2>3. inspected[m].kind # "local"
    BY <2>2, TableFacts
  <2>4. m = inspected[t].to
    BY <1>0, <2>1, <2>3, RelinkLeads
  <2>5. ActionOf(m) = "remove" =>
          removing /\ inspected[m].kind \in {"mapped", "unresolved"}
    BY <1>0, <2>2, ClassifyFacts DEF ActionOf
  <2> QED
    BY <2>2, <2>4, <2>5, TableFacts
<1>4. RemovedHadNoEndpoint
  <2> SUFFICES ASSUME NEW t \in Tables, NEW m \in Tables, NEW k \in 1..Cardinality(Tables),
                      verdict[t] = "removed", Reaches(inspected, t, k, m)
               PROVE  inspected[m].kind # "local"
    BY DEF RemovedHadNoEndpoint
  <2>1. k \in Nat \ {0}
    OBVIOUS
  <2>2. ActionOf(t) = "remove"
    BY TableFacts
  <2> QED
    BY <1>0, <2>1, <2>2, NoEndpointRemoved
<1> QED
  BY <1>0, <1>1, <1>2, <1>3, <1>4 DEF RelinkSafe

LEMMA RelinkInvInit == RelinkInit => RelinkInv
<1> SUFFICES ASSUME RelinkInit PROVE RelinkInv
  OBVIOUS
<1>1. Nothing \in [Tables -> Entries]
  BY DEF Nothing, Entries
<1>2. RelinkTypeOK
  BY <1>1 DEF RelinkInit, RelinkTypeOK
<1> QED
  BY <1>2 DEF RelinkInit, RelinkInv, TableTells

LEMMA InspectInv == ASSUME RelinkInv, Inspect PROVE RelinkInv'
<1>1. inspected' \in [Tables -> Entries]
  BY RelinkAssumption DEF Inspect
<1>2. RelinkTypeOK'
  BY <1>1 DEF RelinkInv, RelinkTypeOK, Inspect
<1>3. toApply' = {} /\ \A t \in Tables : links'[t] = inspected'[t] /\ verdict'[t] = "none"
  BY DEF RelinkInv, Inspect
<1> QED
  BY <1>2, <1>3 DEF RelinkInv, TableTells

\* What was planned stays planned once the databases have been inspected.
LEMMA PlanStays ==
  ASSUME UNCHANGED <<inspected, unread, removing>>, NEW t \in Tables
  PROVE  /\ Classify(t)' = Classify(t) /\ ActionOf(t)' = ActionOf(t)
         /\ Chain(inspected, unread, t)' = Chain(inspected, unread, t)
BY DEF Classify, ActionOf

LEMMA PlanInv == ASSUME RelinkInv, Plan PROVE RelinkInv'
<1>1. /\ relinkAt = "plan" /\ relinkAt' \in {"apply", "done"}
      /\ UNCHANGED <<inspected, unread, removing, links>>
  BY DEF Plan
<1>2. RelinkTypeOK /\ toApply = {} /\ \A t \in Tables : links[t] = inspected[t]
  BY <1>1 DEF RelinkInv
<1>3. \A t \in Tables :
        Classify(t) \in {"none", "alreadyLocal", "plannedRelink", "unresolved", "cycle"}
  BY <1>2, ClassifyFacts
<1>4. /\ toApply' \subseteq Files
      /\ verdict' \in [Tables -> {"none", "alreadyLocal", "plannedRelink", "unresolved", "cycle"}]
      /\ toApply' # {} => \A t \in Tables : verdict'[t] = Classify(t)
  BY <1>2, <1>3 DEF Plan
<1>5. RelinkTypeOK'
  BY <1>1, <1>2, <1>4 DEF RelinkTypeOK
<1>6. ASSUME NEW t \in Tables
      PROVE  /\ links'[t] = inspected'[t] /\ verdict'[t] \notin {"applied", "removed"}
             /\ FileOf[t] \in toApply' => verdict'[t] = Classify(t)'
  BY <1>1, <1>2, <1>4, PlanStays
<1> QED
  BY <1>1, <1>5, <1>6 DEF RelinkInv, TableTells

LEMMA ApplyFileInv == ASSUME RelinkInv, NEW f \in Files, ApplyFile(f) PROVE RelinkInv'
<1>1. /\ relinkAt = "apply" /\ f \in toApply /\ toApply' = toApply \ {f}
      /\ relinkAt' \in {"apply", "done"} /\ UNCHANGED <<inspected, unread, removing>>
  BY DEF ApplyFile
<1>2. RelinkTypeOK
  BY DEF RelinkInv
<1>3. CASE UNCHANGED <<links, verdict>>
  <2>1. RelinkTypeOK'
    BY <1>1, <1>2, <1>3 DEF RelinkTypeOK
  <2>2. ASSUME NEW t \in Tables PROVE TableTells(t)'
    <3>1. TableTells(t)
      BY DEF RelinkInv
    <3> QED
      BY <1>1, <1>3, <3>1, PlanStays DEF TableTells
  <2>3. ASSUME NEW t \in Tables, FileOf[t] \in toApply'
        PROVE  links'[t] = inspected'[t] /\ verdict'[t] = Classify(t)'
    BY <1>1, <1>3, <2>3, PlanStays DEF RelinkInv
  <2> QED
    BY <1>1, <2>1, <2>2, <2>3 DEF RelinkInv
<1>4. ASSUME NEW outcome \in [Planned(f) -> {"ok", "failed", "lost"}],
             \A t \in Planned(f) : outcome[t] \in Outcomes(t),
             links' = [t \in Tables |-> IF t \in Planned(f) THEN After(t, outcome[t]) ELSE links[t]],
             verdict' = [t \in Tables |-> IF t \in Planned(f)
                            THEN VerdictAfter(t, outcome[t]) ELSE verdict[t]]
      PROVE  RelinkInv'
  <2>1. ASSUME NEW t \in Tables, t \notin Planned(f) PROVE links'[t] = links[t] /\ verdict'[t] = verdict[t]
    BY <1>4, <2>1
  <2>2. ASSUME NEW t \in Planned(f)
        PROVE  /\ t \in Tables /\ FileOf[t] = f /\ ActionOf(t) \in {"relink", "remove"}
               /\ links[t] = inspected[t] /\ verdict[t] = Classify(t)
               /\ links'[t] = After(t, outcome[t]) /\ verdict'[t] = VerdictAfter(t, outcome[t])
               /\ outcome[t] \in {"ok", "failed", "lost"}
               /\ outcome[t] = "lost" => ActionOf(t) = "relink"
    <3>1. t \in Tables /\ FileOf[t] = f /\ ActionOf(t) # "none"
      BY DEF Planned
    <3>2. ActionOf(t) \in {"relink", "remove"}
      BY <1>2, <3>1, ClassifyFacts
    <3>3. links[t] = inspected[t] /\ verdict[t] = Classify(t)
      BY <1>1, <3>1 DEF RelinkInv
    <3>4. outcome[t] = "lost" => ActionOf(t) = "relink"
      BY <1>4 DEF Outcomes
    <3> QED
      BY <1>4, <3>1, <3>2, <3>3, <3>4
  <2>3. ASSUME NEW t \in Planned(f) PROVE links'[t] \in Entries /\ TableTells(t)'
    <3>1. Classify(t) \notin {"applied", "removed"} /\ (ActionOf(t) = "relink" => Classify(t) = "plannedRelink")
      BY <1>2, <2>2, ClassifyFacts
    <3>2. inspected[t] \in Entries
      BY <1>2, <2>2 DEF RelinkTypeOK
    <3>3. [kind |-> "absent", to |-> NotScanned] \in Entries
      BY DEF Entries
    <3>4. ActionOf(t) = "relink" => [kind |-> "inside", to |-> Chain(inspected, unread, t).to] \in Entries
      <4> SUFFICES ASSUME ActionOf(t) = "relink"
                   PROVE  [kind |-> "inside", to |-> Chain(inspected, unread, t).to] \in Entries
        OBVIOUS
      <4>1. PICK m : m = Chain(inspected, unread, t).to
        OBVIOUS
      <4>2. m \in Tables
        BY <1>2, <2>2, <4>1, RelinkLeads
      <4> QED
        BY <4>1, <4>2 DEF Entries
    <3>5. CASE outcome[t] = "failed"
      <4>1. links'[t] = inspected[t] /\ verdict'[t] = Classify(t)
        BY <2>2, <3>5 DEF After, VerdictAfter
      <4> QED
        BY <1>1, <3>1, <3>2, <4>1 DEF TableTells
    <3>6. CASE outcome[t] = "lost"
      <4>1. links'[t] = [kind |-> "absent", to |-> NotScanned] /\ verdict'[t] = "plannedRelink"
        BY <2>2, <3>1, <3>6 DEF After, VerdictAfter
      <4>2. ActionOf(t)' = "relink"
        BY <1>1, <2>2, <3>6, PlanStays
      <4> QED
        BY <3>3, <4>1, <4>2 DEF TableTells
    <3>7. CASE outcome[t] = "ok" /\ ActionOf(t) = "remove"
      <4>1. links'[t] = [kind |-> "absent", to |-> NotScanned] /\ verdict'[t] = "removed"
        BY <2>2, <3>7 DEF After, VerdictAfter
      <4>2. ActionOf(t)' = "remove"
        BY <1>1, <2>2, <3>7, PlanStays
      <4> QED
        BY <3>3, <4>1, <4>2 DEF TableTells
    <3>8. CASE outcome[t] = "ok" /\ ActionOf(t) = "relink"
      <4>1. /\ links'[t] = [kind |-> "inside", to |-> Chain(inspected, unread, t).to]
            /\ verdict'[t] = "applied"
        BY <2>2, <3>8 DEF After, VerdictAfter
      <4>2. ActionOf(t)' = "relink" /\ Chain(inspected, unread, t)' = Chain(inspected, unread, t)
        BY <1>1, <2>2, <3>8, PlanStays
      <4> QED
        BY <3>4, <3>8, <4>1, <4>2 DEF TableTells
    <3> QED
      BY <2>2, <3>5, <3>6, <3>7, <3>8
  <2>4. ASSUME NEW t \in Tables, t \notin Planned(f) PROVE TableTells(t)'
    <3>1. TableTells(t)
      BY DEF RelinkInv
    <3> QED
      BY <1>1, <2>1, <2>4, <3>1, PlanStays DEF TableTells
  <2>5. RelinkTypeOK'
    <3>1. \A t \in Tables : links'[t] \in Entries
      BY <1>2, <2>1, <2>3 DEF RelinkTypeOK
    <3>2. links' \in [Tables -> Entries]
      BY <1>4, <3>1
    <3>3. \A t \in Tables : verdict'[t] \in {"none", "alreadyLocal", "plannedRelink", "unresolved",
                                            "cycle", "applied", "removed"}
      BY <1>2, <2>1, <2>2 DEF RelinkTypeOK, VerdictAfter
    <3>4. verdict' \in [Tables -> {"none", "alreadyLocal", "plannedRelink", "unresolved",
                                   "cycle", "applied", "removed"}]
      BY <1>4, <3>3
    <3> QED
      BY <1>1, <1>2, <3>2, <3>4 DEF RelinkTypeOK
  <2>6. ASSUME NEW t \in Tables, FileOf[t] \in toApply'
        PROVE  links'[t] = inspected'[t] /\ verdict'[t] = Classify(t)'
    <3>1. t \notin Planned(f) /\ FileOf[t] \in toApply
      BY <1>1, <2>6 DEF Planned
    <3> QED
      BY <1>1, <2>1, <3>1, PlanStays DEF RelinkInv
  <2>7. \A t \in Tables : TableTells(t)'
    BY <2>3, <2>4
  <2> QED
    BY <1>1, <2>5, <2>6, <2>7 DEF RelinkInv
<1> QED
  BY <1>3, <1>4 DEF ApplyFile

LEMMA RelinkInvStep == RelinkInv /\ [RelinkNext]_relinkVars => RelinkInv'
<1> SUFFICES ASSUME RelinkInv, [RelinkNext]_relinkVars PROVE RelinkInv'
  OBVIOUS
<1>1. CASE UNCHANGED relinkVars
  <2>1. \A t \in Tables : TableTells(t)'
    BY <1>1, PlanStays DEF relinkVars, RelinkInv, TableTells
  <2>2. \A t \in Tables : Classify(t)' = Classify(t)
    BY <1>1, PlanStays DEF relinkVars
  <2> QED
    BY <1>1, <2>1, <2>2 DEF relinkVars, RelinkInv, RelinkTypeOK
<1> QED
  BY <1>1, InspectInv, PlanInv, ApplyFileInv DEF RelinkNext

(* resolveChain, buildPlanningState and the script that applies the plans, *)
(* for any tables, databases, number of unreadable ones and limit of hops, *)
(* whatever fails: a link that was applied leads to the native table at    *)
(* the end of its chain wherever the walk could find one and lies on no    *)
(* cycle that the walk could see; it dangles only when the walk found no   *)
(* end and left it at a link that the same call took away; and no link was *)
(* removed that had an end.                                                *)
THEOREM RelinksAreSafe == RelinkSpec => []RelinkSafe
<1>1. RelinkInv => RelinkSafe
  BY RelinkInvSafe
<1> QED
  BY <1>1, RelinkInvInit, RelinkInvStep, PTL DEF RelinkSpec
=============================================================================
