-------------------------- MODULE TransactionalWrite --------------------------
(***************************************************************************)
(* Calls with transactional: true on one database: the sweep of old        *)
(* staging directories, the copy beside the binary, the write against the  *)
(* copy, and the rename that commits it                                    *)
(* (src/core/services/transactional-write.ts, called from                  *)
(* VbaModulesAdapter.executeMappedToolTransactional).                      *)
(*                                                                         *)
(* The write inside locks the path of the copy, so nothing serialises two  *)
(* such calls, or such a call and an ordinary write of the binary.  The    *)
(* content of a file is the set of edits it holds; every file system call  *)
(* may fail; a call's process may be killed between any two steps.         *)
(***************************************************************************)
EXTENDS Naturals, FiniteSets

CONSTANTS
    Transactions,  \* transactional calls; each has its own staging directory
    DirectWrites   \* writes made to the binary itself

ASSUME EditsAssumption == Transactions \cap DirectWrites = {}

Edits == Transactions \cup DirectWrites

VARIABLES
    binary,    \* edits the database file holds
    txAt,      \* where each call is
    original,  \* content whose SHA-256 each call recorded
    staging,   \* each staging directory: absent, empty, or with a copy
    copy,      \* edits each staged copy holds
    aged,      \* staging directories whose mtime is past the threshold
    toSweep,   \* directories each call's sweep has still to look at
    judged,    \* the one it has found too old
    root,      \* the directory .dysflow-transactional exists
    txReport,  \* what each call told its caller
    landed,    \* auxiliary: edits that reached the binary since a call's copy
    overdue    \* auxiliary: directories that were past the threshold at some time

sweepVars == <<toSweep, judged>>
txVars == <<binary, txAt, original, staging, copy, aged, sweepVars, root,
            txReport, landed, overdue>>

TxPoints == {"idle", "sweep", "read", "mkdir", "copy", "execute", "rename",
             "rollback", "tidy", "rmdir", "done", "crashed"}
TxReports == {"none", "ok", "failed", "commitFailed", "rollbackFailed", "threw"}

TxInit ==
    /\ binary = {}
    /\ txAt = [t \in Transactions |-> "idle"]
    /\ original = [t \in Transactions |-> {}]
    /\ staging = [t \in Transactions |-> "absent"]
    /\ copy = [t \in Transactions |-> {}]
    /\ aged = {}
    /\ toSweep = [t \in Transactions |-> {}]
    /\ judged = [t \in Transactions |-> {}]
    /\ root = FALSE
    /\ txReport = [t \in Transactions |-> "none"]
    /\ landed = [t \in Transactions |-> {}]
    /\ overdue = {}

TxGoto(t, from, to) == txAt[t] = from /\ txAt' = [txAt EXCEPT ![t] = to]
Report(t, code) == txReport' = [txReport EXCEPT ![t] = code]

(***************************************************************************)
(* cleanupOrphanedTransactionalCopies: list the root, then stat one        *)
(* directory after the other and remove the old ones.                      *)
(***************************************************************************)
\* Mutant of Old: the age is not looked at.
EveryStaging == {t \in Transactions : staging[t] # "absent"}
Old == {t \in aged : staging[t] # "absent"}

Remove(t) ==
    /\ staging' = [staging EXCEPT ![t] = "absent"]
    /\ copy' = [copy EXCEPT ![t] = {}]

SweepList(t) ==
    /\ TxGoto(t, "idle", "sweep")
    /\ toSweep' = [toSweep EXCEPT ![t] = Old]
    /\ UNCHANGED <<binary, original, staging, copy, aged, judged, root, txReport,
                   landed, overdue>>

\* A directory that is gone, young again or refused is skipped ...
SweepStat(t, d) ==
    /\ txAt[t] = "sweep" /\ judged[t] = {} /\ d \in toSweep[t]
    /\ toSweep' = [toSweep EXCEPT ![t] = @ \ {d}]
    /\ \/ d \in Old /\ judged' = [judged EXCEPT ![t] = {d}]
       \/ UNCHANGED judged
    /\ UNCHANGED <<binary, txAt, original, staging, copy, aged, root, txReport,
                   landed, overdue>>

\* ... and one that was old is removed whatever happened to it since.
SweepRemove(t, d) ==
    /\ d \in judged[t]
    /\ txAt[t] = "sweep"
    /\ judged' = [judged EXCEPT ![t] = {}]
    /\ Remove(d) \/ UNCHANGED <<staging, copy>>
    /\ UNCHANGED <<binary, txAt, original, aged, toSweep, root, txReport,
                   landed, overdue>>

SweepEnds(t) ==
    /\ toSweep[t] = {} /\ judged[t] = {}
    /\ TxGoto(t, "sweep", "read")
    /\ UNCHANGED <<binary, original, staging, copy, aged, sweepVars, root,
                   txReport, landed, overdue>>

(***************************************************************************)
(* transactionalWrite.                                                     *)
(***************************************************************************)
\* A binary that cannot be read makes the call throw past its last rmdir.
ReadOriginal(t) ==
    /\ \/ /\ TxGoto(t, "read", "mkdir")
          /\ original' = [original EXCEPT ![t] = binary]
          /\ UNCHANGED txReport
       \/ TxGoto(t, "read", "done") /\ Report(t, "threw") /\ UNCHANGED original
    /\ UNCHANGED <<binary, staging, copy, aged, sweepVars, root, landed, overdue>>

MakeStaging(t) ==
    /\ \/ /\ TxGoto(t, "mkdir", "copy")
          /\ staging' = [staging EXCEPT ![t] = "empty"]
          /\ root' = TRUE
          /\ UNCHANGED txReport
       \/ /\ TxGoto(t, "mkdir", "rmdir")
          /\ Report(t, "failed")
          /\ root' \in {root, TRUE}
          /\ UNCHANGED staging
    /\ aged' = aged \ {t}
    /\ UNCHANGED <<binary, original, copy, sweepVars, landed, overdue>>

\* Mutant of CopyBinary: the bytes read for the SHA-256 are written out.
CopyRecorded(t) ==
    /\ staging[t] # "absent"
    /\ TxGoto(t, "copy", "execute")
    /\ staging' = [staging EXCEPT ![t] = "copy"]
    /\ copy' = [copy EXCEPT ![t] = original[t]]
    /\ landed' = [landed EXCEPT ![t] = {}]
    /\ aged' = aged \ {t}
    /\ UNCHANGED <<binary, original, sweepVars, root, txReport, overdue>>
CopyBinary(t) ==
    /\ \/ /\ staging[t] # "absent"
          /\ TxGoto(t, "copy", "execute")
          /\ staging' = [staging EXCEPT ![t] = "copy"]
          /\ copy' = [copy EXCEPT ![t] = binary]
          /\ landed' = [landed EXCEPT ![t] = {}]
          /\ aged' = aged \ {t}
       \/ TxGoto(t, "copy", "rollback") /\ UNCHANGED <<staging, copy, landed, aged>>
    /\ UNCHANGED <<binary, original, sweepVars, root, txReport, overdue>>

\* The write against the copy; Access touches the staging directory.  A failed
\* write may have changed the copy before it failed.
Execute(t) ==
    /\ \/ staging[t] = "copy" /\ TxGoto(t, "execute", "rename")
          /\ copy' = [copy EXCEPT ![t] = @ \cup {t}]
       \/ TxGoto(t, "execute", "rollback")
          /\ copy' = [copy EXCEPT ![t] = IF staging[t] = "copy" THEN @ \cup {t} ELSE @]
    /\ aged' = aged \ {t}
    /\ UNCHANGED <<binary, original, staging, sweepVars, root, txReport, landed, overdue>>

\* The edits that arrive are news to every copy in use.
Land(content) ==
    /\ binary' = content
    /\ landed' = [t \in Transactions |->
                     IF txAt[t] \in {"execute", "rename"}
                     THEN landed[t] \cup (content \ binary) ELSE {}]

\* Mutant of Commit: the copy is written over the binary, and that fails at its end.
CommitByCopy(t) ==
    /\ staging[t] = "copy"
    /\ TxGoto(t, "rename", "rmdir")
    /\ Land(copy[t])
    /\ Report(t, "commitFailed")
    /\ UNCHANGED <<original, staging, copy, aged, sweepVars, root, overdue>>
Commit(t) ==
    /\ \/ /\ staging[t] = "copy"
          /\ TxGoto(t, "rename", "tidy")
          /\ Land(copy[t])
          /\ staging' = [staging EXCEPT ![t] = "empty"]
          /\ Report(t, "ok")
       \/ /\ TxGoto(t, "rename", "rmdir")
          /\ Report(t, "commitFailed")
          /\ UNCHANGED <<binary, landed, staging>>
    /\ UNCHANGED <<original, copy, aged, sweepVars, root, overdue>>

RollbackCopy(t) ==
    /\ TxGoto(t, "rollback", "rmdir")
    /\ \/ Remove(t) /\ Report(t, "failed")
       \/ UNCHANGED <<staging, copy>> /\ Report(t, "rollbackFailed")
    /\ UNCHANGED <<binary, original, aged, sweepVars, root, landed, overdue>>

\* The best-effort removal after a commit, and the caller's rmdir of the root.
Tidy(t) ==
    /\ TxGoto(t, "tidy", "rmdir")
    /\ Remove(t) \/ UNCHANGED <<staging, copy>>
    /\ UNCHANGED <<binary, original, aged, sweepVars, root, txReport, landed, overdue>>

\* What a call holds in memory goes with it.
Forget(t) ==
    /\ original' = [original EXCEPT ![t] = {}]
    /\ landed' = [landed EXCEPT ![t] = {}]

RemoveRoot(t) ==
    /\ TxGoto(t, "rmdir", "done")
    /\ root' = (root /\ \E d \in Transactions : staging[d] # "absent")
    /\ Forget(t)
    /\ UNCHANGED <<binary, staging, copy, aged, sweepVars, txReport, overdue>>

(***************************************************************************)
(* The surroundings: a write of the binary itself, time, and a kill.       *)
(***************************************************************************)
DirectWrite(e) ==
    /\ e \notin binary
    /\ Land(binary \cup {e})
    /\ UNCHANGED <<txAt, original, staging, copy, aged, sweepVars, root, txReport, overdue>>

Age(t) ==
    /\ staging[t] # "absent" /\ t \notin aged
    /\ aged' = aged \cup {t} /\ overdue' = overdue \cup {t}
    /\ UNCHANGED <<binary, txAt, original, staging, copy, sweepVars, root,
                   txReport, landed>>

TxKilled(t) ==
    /\ txAt[t] \notin {"idle", "done", "crashed"}
    /\ txAt' = [txAt EXCEPT ![t] = "crashed"]
    /\ Forget(t)
    /\ toSweep' = [toSweep EXCEPT ![t] = {}]
    /\ judged' = [judged EXCEPT ![t] = {}]
    /\ UNCHANGED <<binary, staging, copy, aged, root, txReport, overdue>>

TxStep(t) ==
    \/ \E d \in Transactions : SweepStat(t, d) \/ SweepRemove(t, d)
    \/ SweepEnds(t)
    \/ ReadOriginal(t) \/ MakeStaging(t) \/ CopyBinary(t) \/ Execute(t)
    \/ Commit(t) \/ RollbackCopy(t) \/ Tidy(t) \/ RemoveRoot(t)

TxNext ==
    \/ \E t \in Transactions : SweepList(t) \/ TxStep(t) \/ Age(t) \/ TxKilled(t)
    \/ \E e \in DirectWrites : DirectWrite(e)

\* Every awaited call returns: the write inside has the executor's timeout.
TxSpec == TxInit /\ [][TxNext]_txVars /\ \A t \in Transactions : WF_txVars(TxStep(t))

-----------------------------------------------------------------------------
(* Correctness.                                                            *)

\* The values the variables take.
TxTypeOK ==
    /\ binary \subseteq Edits
    /\ txAt \in [Transactions -> TxPoints]
    /\ original \in [Transactions -> SUBSET Edits]
    /\ staging \in [Transactions -> {"absent", "empty", "copy"}]
    /\ copy \in [Transactions -> SUBSET Edits]
    /\ aged \subseteq Transactions
    /\ toSweep \in [Transactions -> SUBSET Transactions]
    /\ judged \in [Transactions -> SUBSET Transactions]
    /\ root \in BOOLEAN
    /\ txReport \in [Transactions -> TxReports]
    /\ landed \in [Transactions -> SUBSET Edits]
    /\ overdue \subseteq Transactions

\* A call that did not report success has changed nothing in the binary, also
\* through the copies that other calls took and committed meanwhile.
FailureLeavesNoTrace ==
    \A t \in Transactions :
        t \in binary \/ (\E d \in Transactions \ {t} : t \in copy[d])
        => txReport[t] = "ok"

\* An edit is lost only to the commit of a call whose copy was taken before the
\* edit reached the binary: calls that do not overlap never lose each other's
\* work, and neither does an edit that lands between the SHA-256 and the copy.
LostOnlyToOverlap ==
    [][\A e \in binary : e \notin binary' =>
          \E t \in Transactions : txAt[t] = "rename" /\ e \in landed[t]]_txVars

\* A call that failed leaves a copy behind only if it said so, and a commit that
\* failed keeps the copy for recovery until a later sweep finds it too old.
StagingAccounted ==
    \A t \in Transactions :
        txAt[t] \in {"rmdir", "done"} =>
            /\ txReport[t] = "failed" => staging[t] = "absent"
            /\ txReport[t] = "commitFailed" => staging[t] = "copy" \/ t \in overdue

\* A staging directory that never was past the threshold is removed by nobody
\* but the call it belongs to, however the sweeps and the calls interleave.
SweepSparesYoung ==
    [][\A t \in Transactions :
          staging[t] # "absent" /\ staging'[t] = "absent" =>
              txAt'[t] # txAt[t] \/ t \in overdue]_txVars

\* Once every call has returned and no staging directory is left, the root is
\* gone too, in whatever order the calls removed their parts.
NoStrayRoot ==
    (\A t \in Transactions : /\ txAt[t] = "done" /\ txReport[t] # "threw"
                             /\ staging[t] = "absent")
    => ~root

\* What a finished transactional write leaves behind: no trace of a failed edit in
\* the binary or in another call's copy, a staging directory only where the report
\* tells of one, and no empty staging root.
TransactionSafe == TxTypeOK /\ FailureLeavesNoTrace /\ StagingAccounted /\ NoStrayRoot

\* Every call that started returns unless its process is killed.
EveryTransactionEnds ==
    <>[](\A t \in Transactions : txAt[t] \in {"idle", "done", "crashed"})
=============================================================================
