---- MODULE VbaImport ----
(***************************************************************************)
(* One import_modules / import_all call inside its Access session.         *)
(*                                                                         *)
(* The TypeScript core decides (src/core/services/                         *)
(* vba-import-orchestration.ts): which modules a pass tries, whether the   *)
(* failed ones are tried again, what is saved, and when a lock on the      *)
(* database fails the whole batch.  The PowerShell transport               *)
(* (scripts/lib/dysflow-vba-import-transport.psm1) executes the decisions  *)
(* against the live session and keeps the rollback journal.  The manager   *)
(* script imports one module, saves, and closes the session.               *)
(*                                                                         *)
(* Access itself is external.  It holds two contents per module: session,  *)
(* what the open VBA project shows, and file, what the .accdb holds.  An   *)
(* edit changes session; a save copies it to file; closing or killing      *)
(* Access keeps or drops each unsaved change.                              *)
(***************************************************************************)
EXTENDS Integers, FiniteSets

CONSTANTS
    Modules,    \* the modules a call may name
    Documents,  \* those that are forms or reports
    Present,    \* those the database already holds
    Batches     \* the sets of modules one call may name

ASSUME ImportAssumption ==
    /\ IsFiniteSet(Modules)
    /\ Documents \subseteq Modules
    /\ Present \subseteq Modules
    /\ Batches \subseteq SUBSET Modules

VARIABLES
    targets,  \* the modules of this call
    phase,    \* where the transport's loop stands
    pending,  \* pendingTargets: what the current pass tries
    todo,     \* those of pending the current pass has still to try
    pass,     \* passes completed
    result,   \* lastResults, per module
    rolled,   \* rollbackAttempted and rollbackApplied of that result
    named,    \* created, modified component and modified document names
    failing,  \* completeAsFailure
    journal,  \* rollbackJournal: the content each entry restores
    saving,   \* outcome of the save
    session,  \* contents in the open VBA project
    file,     \* contents in the .accdb
    damaged,  \* auxiliary: modules a failed attempt or rollback left broken
    report    \* what the call tells its caller

importCore == <<targets, pending, todo, pass, result, rolled, named, failing>>
importVars == <<importCore, phase, journal, saving, session, file, damaged, report>>

Contents == {"absent", "orig", "partial", "new"}
ImportPhases == {"start", "pass", "save", "saved", "rollback", "rolledBack",
           "closing", "done"}
ImportResults == {"none", "ok", "error", "locked", "notSaved"}
ImportReports == {"none", "success", "warning", "failed", "bridgeUndone",
            "bridgeIncomplete", "threw", "quitFailed", "killed"}

OriginalContent == [m \in Modules |-> IF m \in Present THEN "orig" ELSE "absent"]

MaxPasses == IF Cardinality(targets) > 1 THEN Cardinality(targets) ELSE 1

ImportInit ==
    /\ targets = {}
    /\ phase = "start"
    /\ pending = {}
    /\ todo = {}
    /\ pass = 0
    /\ result = [m \in Modules |-> "none"]
    /\ rolled = [m \in Modules |-> "no"]
    /\ named = {}
    /\ failing = FALSE
    /\ journal = [m \in Modules |-> "none"]
    /\ saving = "none"
    /\ session = OriginalContent
    /\ file = OriginalContent
    /\ damaged = {}
    /\ report = "none"

(***************************************************************************)
(* Completions and the start of the orchestration.                         *)
(***************************************************************************)
CompleteImport(kind) == phase' = "closing" /\ report' = kind

RunPass(names) ==
    /\ phase' = "pass"
    /\ pending' = names
    /\ todo' = names
    /\ UNCHANGED report

ImportStart ==
    /\ phase = "start"
    /\ targets' \in Batches
    /\ \/ targets' = {} /\ CompleteImport("success") /\ UNCHANGED <<pending, todo>>
       \/ targets' # {} /\ RunPass(targets')
    /\ UNCHANGED <<pass, result, rolled, named, failing, journal,
                   saving, session, file, damaged>>

(***************************************************************************)
(* One module of a pass.  A success is journalled with the content it      *)
(* replaced; a form that the database did not hold reports neither a       *)
(* created nor a modified name, so no save is asked for it.                *)
(***************************************************************************)
SaveNameOf(m) == IF m \in Documents /\ session[m] = "absent" THEN {} ELSE {m}

ImportSucceeds(m) ==
    /\ phase = "pass" /\ m \in todo
    /\ todo' = todo \ {m}
    /\ session' = [session EXCEPT ![m] = "new"]
    /\ journal' = [journal EXCEPT ![m] = session[m]]
    /\ result' = [result EXCEPT ![m] = "ok"]
    /\ rolled' = [rolled EXCEPT ![m] = "no"]
    /\ named' = named \cup SaveNameOf(m)
    /\ UNCHANGED <<targets, phase, pending, pass, failing, saving, file,
                   damaged, report>>

(***************************************************************************)
(* A failure before the first edit leaves the module alone.  After it, the *)
(* code of an existing module is restored from its snapshot and a form     *)
(* whose load was cancelled is restored and verified; both can fail.       *)
(* Nothing undoes a component whose creation broke off, nor a form that    *)
(* loaded and then refused its code-behind.                                *)
(***************************************************************************)
AfterCodeFailure(m) ==
    {<<session[m], "no">>, <<session[m], "applied">>, <<"partial", "failed">>}

AfterCreationFailure == {<<"absent", "no">>, <<"partial", "no">>}

AfterDocumentFailure(m) ==
    {<<session[m], "no">>, <<"partial", "no">>}
    \cup (IF session[m] # "absent"
          THEN {<<session[m], "applied">>, <<"partial", "failed">>} ELSE {})

AfterFailure(m) ==
    IF m \in Documents THEN AfterDocumentFailure(m)
    ELSE IF session[m] = "absent" THEN AfterCreationFailure
    ELSE AfterCodeFailure(m)

ImportFails(m) ==
    /\ phase = "pass" /\ m \in todo
    /\ todo' = todo \ {m}
    /\ \E outcome \in AfterFailure(m), code \in {"error", "locked"} :
          /\ session' = [session EXCEPT ![m] = outcome[1]]
          /\ rolled' = [rolled EXCEPT ![m] = outcome[2]]
          /\ damaged' = damaged \cup {n \in {m} : outcome[1] = "partial"}
          /\ result' = [result EXCEPT ![m] = code]
    /\ UNCHANGED <<targets, phase, pending, pass, named, failing, journal,
                   saving, file, report>>

(***************************************************************************)
(* advanceVbaImportAfterPass and failBatchOnLock.                          *)
(***************************************************************************)
FailedModules == {m \in pending : result[m] # "ok"}
Imported == {m \in targets : result[m] = "ok"}

FailBatchOnLock ==
    /\ result' = [m \in Modules |->
                    IF m \in targets /\ result[m] \in {"none", "ok"}
                    THEN "locked" ELSE result[m]]
    /\ pending' = targets
    /\ failing' = TRUE
    /\ \/ Imported # {} /\ phase' = "rollback" /\ todo' = Imported
          /\ UNCHANGED report
       \/ Imported = {} /\ CompleteImport("failed") /\ UNCHANGED todo

MayRetry(passes) ==
    /\ Cardinality(targets) > 1
    /\ FailedModules # {}
    /\ FailedModules # pending
    /\ passes < MaxPasses

PassCompletedUnsaved ==  \* Mutant of PassCompleted: a partial failure completes unsaved
    /\ phase = "pass" /\ todo = {}
    /\ pass' = pass + 1
    /\ IF \E m \in pending : result[m] = "locked" THEN FailBatchOnLock
       ELSE /\ pending' = FailedModules
            /\ UNCHANGED <<result, todo, failing>>
            /\ \/ FailedModules = {} /\ named # {} /\ phase' = "save" /\ UNCHANGED report
               \/ FailedModules # {} /\ CompleteImport("failed")
               \/ FailedModules = {} /\ named = {} /\ CompleteImport("success")
    /\ UNCHANGED <<targets, rolled, named, journal, saving, session, file,
                   damaged>>
PassCompleted ==
    /\ phase = "pass" /\ todo = {}
    /\ pass' = pass + 1
    /\ IF \E m \in pending : result[m] = "locked" THEN FailBatchOnLock
       ELSE /\ UNCHANGED result
            /\ \/ MayRetry(pass + 1) /\ RunPass(FailedModules) /\ UNCHANGED failing
               \/ /\ ~MayRetry(pass + 1)
                  /\ pending' = FailedModules
                  /\ UNCHANGED todo
                  /\ failing' = (failing \/ (FailedModules # {} /\ named # {}))
                  /\ \/ named # {} /\ phase' = "save" /\ UNCHANGED report
                     \/ named = {} /\ FailedModules # {} /\ CompleteImport("failed")
                     \/ named = {} /\ FailedModules = {} /\ CompleteImport("success")
    /\ UNCHANGED <<targets, rolled, named, journal, saving, session, file,
                   damaged>>

(***************************************************************************)
(* Undoing journal entries: each entry restores its content or throws,     *)
(* leaving the module as it was or broken.                                 *)
(***************************************************************************)
UndoNothing(names, stuck, broken) ==  \* Mutant of Undo: a rollback that restores nothing
    UNCHANGED <<session, damaged>> /\ stuck = {} /\ broken = {}
Undo(names, stuck, broken) ==
    /\ session' = [m \in Modules |->
                     IF m \in broken THEN "partial"
                     ELSE IF m \in names \ stuck THEN journal[m]
                     ELSE session[m]]
    /\ damaged' = damaged \cup broken

Journalled == {m \in Modules : journal[m] # "none"}

\* The core process cannot be reached: before anything was done, or after a
\* pass, when the transport undoes its whole journal by itself.
BridgeFails ==
    \/ /\ phase \in {"start", "saved", "rolledBack"}
       /\ CompleteImport("threw")
       /\ UNCHANGED <<importCore, journal, saving, session, file, damaged>>
    \/ /\ phase = "pass" /\ todo = {}
       /\ \E stuck \in SUBSET Journalled : \E broken \in SUBSET stuck :
             /\ Undo(Journalled, stuck, broken)
             /\ CompleteImport(IF stuck = {} THEN "bridgeUndone" ELSE "bridgeIncomplete")
       /\ UNCHANGED <<importCore, journal, saving, file>>

RollbackBatch ==
    /\ phase = "rollback"
    /\ \E stuck \in SUBSET todo : \E broken \in SUBSET stuck :
          /\ Undo(todo, stuck, broken)
          /\ rolled' = [m \in Modules |-> IF m \in stuck THEN "failed"
                                          ELSE IF m \in todo THEN "applied"
                                          ELSE rolled[m]]
    /\ phase' = "rolledBack"
    /\ todo' = {}
    /\ UNCHANGED <<targets, pending, pass, result, named, failing, journal,
                   saving, file, report>>

RollbackCompleted ==
    /\ phase = "rolledBack"
    /\ CompleteImport("failed")
    /\ UNCHANGED <<importCore, journal, saving, session, file, damaged>>

(***************************************************************************)
(* Save-VbaProjectModules.  Components are saved by name one after the     *)
(* other, all of them even if one fails; documents by Save All, or one by  *)
(* one when that throws.  A failure that reads as a lock is handed to the  *)
(* core; another one of a component is thrown, of a document is a warning. *)
(***************************************************************************)
Written(names) == [m \in Modules |-> IF m \in names THEN session[m] ELSE file[m]]

SaveModules ==
    /\ phase = "save"
    /\ LET components == named \ Documents
           documents == named \cap Documents
       IN  \/ \* VBA_SAVE_CANDIDATE_CLASSIFICATION_FAILED
              CompleteImport("threw") /\ UNCHANGED <<file, saving>>
           \/ \E bad \in (SUBSET components) \ {{}} :
                 /\ file' = Written(components \ bad)
                 /\ \/ CompleteImport("threw") /\ UNCHANGED saving
                    \/ phase' = "saved" /\ saving' = "lock" /\ UNCHANGED report
           \/ /\ file' = Written(IF documents = {} THEN components ELSE Modules)
              /\ phase' = "saved" /\ saving' = "ok" /\ UNCHANGED report
           \/ \E bad \in SUBSET documents :
                 /\ documents # {}
                 /\ file' = Written(named \ bad)
                 /\ phase' = "saved" /\ UNCHANGED report
                 /\ saving' \in IF bad = {} THEN {"ok"} ELSE {"lock", "warning"}
    /\ UNCHANGED <<importCore, journal, session, damaged>>

\* advanceVbaImportAfterSave.
SaveCompleted ==
    /\ phase = "saved"
    /\ \/ saving = "lock" /\ FailBatchOnLock
       \/ /\ saving # "lock" /\ ~failing
          /\ CompleteImport(IF saving = "warning" THEN "warning" ELSE "success")
          /\ UNCHANGED <<result, pending, todo, failing>>
       \/ /\ saving # "lock" /\ failing
          /\ result' = [m \in Modules |-> IF saving = "warning" /\ m \in Imported
                                          THEN "notSaved" ELSE result[m]]
          /\ CompleteImport("failed")
          /\ UNCHANGED <<pending, todo, failing>>
    /\ UNCHANGED <<targets, pass, rolled, named, journal, saving, session, file,
                   damaged>>

(***************************************************************************)
(* The session ends: Complete-AccessSessionClose, or the runner's timeout  *)
(* kills PowerShell and Access before anything is reported.                *)
(***************************************************************************)
CloseSession ==
    /\ phase = "closing"
    /\ phase' = "done"
    /\ \E kept \in SUBSET Modules : file' = Written(kept)
    /\ \E quit \in {"quiet", "rpcUnavailable", "failed"} :
          report' = IF /\ report \in {"success", "warning"}
                       /\ quit # "quiet"
                       /\ ~(saving = "ok" /\ quit = "rpcUnavailable")
                    THEN "quitFailed" ELSE report
    /\ UNCHANGED <<importCore, journal, saving, session, damaged>>

KillSession ==
    /\ phase # "done"
    /\ phase' = "done"
    /\ report' = "killed"
    /\ \E kept \in SUBSET Modules : file' = Written(kept)
    /\ UNCHANGED <<importCore, journal, saving, session, damaged>>

ImportStep ==
    \/ ImportStart
    \/ \E m \in Modules : ImportSucceeds(m) \/ ImportFails(m)
    \/ PassCompleted \/ BridgeFails
    \/ SaveModules \/ SaveCompleted
    \/ RollbackBatch \/ RollbackCompleted
    \/ CloseSession

ImportNext == ImportStep \/ KillSession

ImportSpec == ImportInit /\ [][ImportNext]_importVars /\ WF_importVars(ImportStep)
----
\* The values the variables take.
ImportTypeOK ==
    /\ targets \subseteq Modules
    /\ phase \in ImportPhases
    /\ pending \subseteq targets
    /\ todo \subseteq targets
    /\ pass \in Nat
    /\ result \in [Modules -> ImportResults]
    /\ rolled \in [Modules -> {"no", "applied", "failed"}]
    /\ named \subseteq targets
    /\ failing \in BOOLEAN
    /\ journal \in [Modules -> Contents \cup {"none"}]
    /\ saving \in {"none", "ok", "warning", "lock"}
    /\ session \in [Modules -> Contents]
    /\ file \in [Modules -> Contents]
    /\ damaged \subseteq targets
    /\ report \in ImportReports

\* Retries pay for themselves: every pass but the last imported at least one
\* module, so a batch of n modules never needs more than n passes and the bound
\* maxPasses of startVbaImportOrchestration cuts off no useful pass.
RetriesShrink ==
    phase = "pass" => Cardinality(pending) + pass <= Cardinality(targets)

\* #1912: a module the report calls ok, and for which a save was asked, is in
\* the .accdb with its new content, whether the batch succeeded or failed in
\* part, and whatever the close did.  (A report that carries a save warning
\* makes no such promise.)
OkIsPersisted ==
    phase = "done" /\ report \in {"success", "failed"} =>
        \A m \in named : result[m] = "ok" => file[m] = "new"

\* A lock found during a pass fails every module of the batch, and a module
\* reported as rolled back holds the content it had before the call, unless an
\* earlier attempt of the same call had already broken it.
LockedBatchUndone ==
    phase = "done" /\ report = "failed" /\ saving = "none"
      /\ (\E m \in targets : result[m] = "locked") =>
        \A m \in targets :
            /\ result[m] # "ok"
            /\ m \notin damaged => file[m] = OriginalContent[m] \/ rolled[m] = "failed"

\* A core process that fails after a pass leaves no import behind, however
\* many passes had succeeded, when the transport says its journal was undone.
BridgeFailureUndone ==
    phase = "done" /\ report = "bridgeUndone" =>
        \A m \in targets \ damaged : file[m] = OriginalContent[m]

\* The retries of an import are bounded by the modules that are left, and a batch
\* that failed, by a locked module or with the bridge, is undone.
ImportSafe == ImportTypeOK /\ RetriesShrink /\ LockedBatchUndone /\ BridgeFailureUndone

\* Every import call that starts ends, by a report or by the kill.
EveryImportEnds == <>[](phase \in {"start", "done"})
====
