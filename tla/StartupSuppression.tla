-------------------------- MODULE StartupSuppression --------------------------
(***************************************************************************)
(* How the PowerShell scripts keep a database's startup code from running  *)
(* when they open it unattended, and give it back afterwards.  A session   *)
(* renames the macro AutoExec to AutoExec_TraeBackup and deletes the       *)
(* property StartupForm through DAO, opens Access, and undoes both.        *)
(* dysflow-access-runner.ps1 also leaves a sentinel file, from which the   *)
(* next run of that script restores what a killed run could not;           *)
(* dysflow-vba-manager.ps1 has none.  A session is killed with its process *)
(* tree when the operation times out.                                      *)
(*                                                                         *)
(* The DAO engine and the file system are external; each call to them is a *)
(* step that may fail.  AppIcon, which dysflow-vba-manager.ps1 deletes and  *)
(* restores in the same passes as StartupForm, is one with it here.        *)
(***************************************************************************)
EXTENDS Naturals, FiniteSets

CONSTANTS
    Sessions,     \* runs of one of the scripts against one database
    Manager,      \* those of dysflow-vba-manager.ps1
    ReadOnly,     \* those that run without the cross-process lock
    Diagnostics,  \* those of the runner script for Operation diagnostics
    Nobody,       \* nobody holds the execution lock
    NoSentinel,   \* there is no sentinel file
    MaxKills,     \* bound on the sessions killed
    MaxFaults     \* bound on failing DAO and file calls

RestoreInfo == [renamed : BOOLEAN, form : BOOLEAN]
NoInfo == [renamed |-> FALSE, form |-> FALSE]

ASSUME SessionsAssumption ==
    /\ Manager \subseteq Sessions /\ ReadOnly \subseteq Sessions
    /\ Diagnostics \subseteq ReadOnly \ Manager
    /\ Nobody \notin Sessions /\ NoSentinel \notin RestoreInfo
ASSUME BoundsAssumption == MaxKills \in Nat /\ MaxFaults \in Nat

VARIABLES
    autoExec,   \* the name the macro has now
    form,       \* is StartupForm set?
    sentinel,   \* the content of <db>.dysflow-restore.json, or NoSentinel
    info,       \* $startupInfo of each session
    pc,         \* where each session is
    lock,       \* the session whose operation holds the cross-process lock
    kills, faults,
    clean,      \* has nothing failed or been killed since the last Start?
    hurt        \* has a restoration failed, or a session been killed, ever?

db == <<autoExec, form>>
vars == <<autoExec, form, sentinel, info, pc, lock, kills, faults, clean, hurt>>

Points == {"idle", "pending", "pendingForm", "pendingRemove", "suppress",
           "suppressForm", "writeSentinel", "open", "opened", "restore",
           "restoreForm", "removeSentinel", "ended", "killed"}
Over == {"ended", "killed"}
Active(s) == pc[s] \notin Over \cup {"idle"}

TypeOK ==
    /\ autoExec \in {"AutoExec", "AutoExec_TraeBackup"}
    /\ form \in BOOLEAN
    /\ sentinel \in RestoreInfo \cup {NoSentinel}
    /\ info \in [Sessions -> RestoreInfo]
    /\ pc \in [Sessions -> Points]
    /\ lock \in Sessions \cup {Nobody}
    /\ kills \in 0..MaxKills /\ faults \in 0..MaxFaults
    /\ clean \in BOOLEAN /\ hurt \in BOOLEAN

\* A database with both kinds of startup code.
Init ==
    /\ autoExec = "AutoExec" /\ form = TRUE
    /\ sentinel = NoSentinel
    /\ info = [s \in Sessions |-> NoInfo]
    /\ pc = [s \in Sessions |-> "idle"]
    /\ lock = Nobody
    /\ kills = 0 /\ faults = 0
    /\ clean = TRUE /\ hurt = FALSE

Goto(s, from, to) == pc[s] = from /\ pc' = [pc EXCEPT ![s] = to]
Works == UNCHANGED <<faults, clean, hurt>>
Fault == faults < MaxFaults /\ faults' = faults + 1 /\ clean' = FALSE /\ UNCHANGED hurt
RestoreFault == faults < MaxFaults /\ faults' = faults + 1 /\ clean' = FALSE /\ hurt' = TRUE
Release(s) == lock' = IF lock = s THEN Nobody ELSE lock

\* Mutant of Start: every session runs like a read-only one.
StartUnlocked(s) ==
    /\ Goto(s, "idle", IF s \notin Manager /\ sentinel # NoSentinel
                       THEN "pending" ELSE "suppress")
    /\ info' = [info EXCEPT ![s] = IF s \notin Manager /\ sentinel # NoSentinel
                                   THEN sentinel ELSE NoInfo]
    /\ clean' = TRUE
    /\ UNCHANGED <<db, sentinel, lock, kills, faults, hurt>>

\* The operation gets its turn; a read-only one runs without the cross-process
\* lock.  The runner script looks for a sentinel first.
Start(s) ==
    /\ IF s \in ReadOnly THEN UNCHANGED lock ELSE lock = Nobody /\ lock' = s
    /\ Goto(s, "idle", IF s \notin Manager /\ sentinel # NoSentinel
                       THEN "pending" ELSE "suppress")
    /\ info' = [info EXCEPT ![s] = IF s \notin Manager /\ sentinel # NoSentinel
                                   THEN sentinel ELSE NoInfo]
    /\ clean' = TRUE
    /\ UNCHANGED <<db, sentinel, kills, faults, hurt>>

\* Restore-StartupFeatures: the macro and then the property.  If the database
\* cannot be opened, or a part fails, it goes on without it.
RestoreAutoExec(s, from, to, onError) ==
    \/ /\ Goto(s, from, to) /\ Works
       /\ autoExec' = IF info[s].renamed THEN "AutoExec" ELSE autoExec
    \/ RestoreFault /\ Goto(s, from, to) /\ UNCHANGED autoExec
    \/ RestoreFault /\ Goto(s, from, onError) /\ UNCHANGED autoExec

RestoreStartupForm(s, from, to) ==
    /\ Goto(s, from, to)
    /\ \/ Works /\ form' = (info[s].form \/ form)
       \/ RestoreFault /\ UNCHANGED form

\* The runner script restores what the sentinel says, and removes it whatever
\* came of that.
RestorePending(s) ==
    /\ RestoreAutoExec(s, "pending", "pendingForm", "pendingRemove")
    /\ UNCHANGED <<form, sentinel, info, lock, kills>>

RestorePendingForm(s) ==
    /\ RestoreStartupForm(s, "pendingForm", "pendingRemove")
    /\ UNCHANGED <<autoExec, sentinel, info, lock, kills>>

\* The removal fails silently: what is left is the next session's sentinel.
RemovePending(s) ==
    /\ Goto(s, "pendingRemove", "suppress")
    /\ \/ sentinel' = NoSentinel /\ Works
       \/ UNCHANGED sentinel /\ Fault
    /\ info' = [info EXCEPT ![s] = NoInfo]
    /\ UNCHANGED <<db, lock, kills>>

\* Mutant of SuppressAutoExec: a backup left behind is taken for no macro.
SuppressAutoExecOnly(s) ==
    /\ Goto(s, "suppress", "suppressForm") /\ Works
    /\ autoExec' = "AutoExec_TraeBackup"
    /\ info' = [info EXCEPT ![s].renamed = autoExec = "AutoExec"]
    /\ UNCHANGED <<form, sentinel, lock, kills>>

\* Disable-StartupFeatures, the macro: a backup left behind counts as AutoExec.
\* It throws when DAO fails: before it has renamed anything, when it has given a
\* backup left behind its name back, or after its own rename.
SuppressAutoExec(s) ==
    /\ \/ /\ Goto(s, "suppress", "suppressForm") /\ Works
          /\ autoExec' = "AutoExec_TraeBackup"
          /\ info' = [info EXCEPT ![s].renamed = TRUE]
       \/ /\ Goto(s, "suppress", "restore") /\ Fault
          /\ \/ autoExec' \in {autoExec, "AutoExec"} /\ UNCHANGED info
             \/ /\ autoExec' = "AutoExec_TraeBackup"
                /\ info' = [info EXCEPT ![s].renamed = TRUE]
    /\ UNCHANGED <<form, sentinel, lock, kills>>

\* Mutant of SuppressForm: the caller learns of the deletion from the result.
SuppressFormByResult(s) ==
    /\ form' = FALSE
    /\ \/ /\ Goto(s, "suppressForm", IF s \in Manager THEN "open" ELSE "writeSentinel")
          /\ Works /\ info' = [info EXCEPT ![s].form = form]
       \/ Goto(s, "suppressForm", "restore") /\ Fault /\ UNCHANGED info
    /\ UNCHANGED <<autoExec, sentinel, lock, kills>>

\* Disable-StartupFeatures, the property: remembered, then deleted.
SuppressForm(s) ==
    /\ \/ /\ Goto(s, "suppressForm", IF s \in Manager THEN "open" ELSE "writeSentinel")
          /\ Works /\ form' = FALSE
          /\ info' = [info EXCEPT ![s].form = form]
       \/ /\ Goto(s, "suppressForm", "restore") /\ Fault
          /\ \/ UNCHANGED <<form, info>>
             \/ /\ form' \in {form, FALSE}
                /\ info' = [info EXCEPT ![s].form = form]
    /\ UNCHANGED <<autoExec, sentinel, lock, kills>>

\* The sentinel is best-effort.
WriteSentinel(s) ==
    /\ Goto(s, "writeSentinel", IF s \in Diagnostics THEN "restore" ELSE "open")
    /\ \/ sentinel' = info[s] /\ Works
       \/ UNCHANGED sentinel /\ Fault
    /\ UNCHANGED <<db, info, lock, kills>>

OpenAccess(s) ==
    /\ Goto(s, "open", "opened")
    /\ UNCHANGED <<db, sentinel, info, lock, kills, faults, clean, hurt>>

\* The open failed, or the work is done or has failed; Access is closed.
CloseAccess(s) ==
    /\ Goto(s, "opened", "restore") \/ Goto(s, "open", "restore")
    /\ UNCHANGED <<db, sentinel, info, lock, kills, faults, clean, hurt>>

\* finally: restore, and remove the sentinel whatever came of that.
Restore(s) ==
    /\ RestoreAutoExec(s, "restore", "restoreForm",
                       IF s \in Manager THEN "ended" ELSE "removeSentinel")
    /\ IF pc'[s] = "ended" THEN Release(s) ELSE UNCHANGED lock
    /\ UNCHANGED <<form, sentinel, info, kills>>

RestoreForm(s) ==
    /\ RestoreStartupForm(s, "restoreForm",
                          IF s \in Manager THEN "ended" ELSE "removeSentinel")
    /\ IF pc'[s] = "ended" THEN Release(s) ELSE UNCHANGED lock
    /\ UNCHANGED <<autoExec, sentinel, info, kills>>

\* Mutant of RemoveSentinel: the entry for the form is cut, the file stays.
RemoveSentinelEntry(s) ==
    /\ Goto(s, "removeSentinel", "ended")
    /\ \/ sentinel' = [renamed |-> FALSE] /\ Works
       \/ UNCHANGED sentinel /\ Fault
    /\ Release(s)
    /\ UNCHANGED <<db, info, kills>>

RemoveSentinel(s) ==
    /\ Goto(s, "removeSentinel", "ended")
    /\ \/ sentinel' = NoSentinel /\ Works
       \/ UNCHANGED sentinel /\ Fault
    /\ Release(s)
    /\ UNCHANGED <<db, info, kills>>

\* The operation times out: taskkill /T /F, and the call releases its lock.
Kill(s) ==
    /\ Active(s) /\ kills < MaxKills
    /\ kills' = kills + 1
    /\ pc' = [pc EXCEPT ![s] = "killed"]
    /\ Release(s)
    /\ clean' = FALSE /\ hurt' = TRUE
    /\ UNCHANGED <<db, sentinel, info, faults>>

Next ==
    \E s \in Sessions :
        \/ Start(s) \/ RestorePending(s) \/ RestorePendingForm(s) \/ RemovePending(s)
        \/ SuppressAutoExec(s) \/ SuppressForm(s) \/ WriteSentinel(s)
        \/ OpenAccess(s) \/ CloseAccess(s)
        \/ Restore(s) \/ RestoreForm(s) \/ RemoveSentinel(s)
        \/ Kill(s)

Spec == Init /\ [][Next]_vars

-----------------------------------------------------------------------------
Idle == \A s \in Sessions : ~Active(s)

\* No session has run without the lock.
AllLocked == \A s \in ReadOnly : pc[s] = "idle"

Opens(s) == pc[s] = "open" /\ pc'[s] = "opened"

(***************************************************************************)
(* "Se aborta la apertura para evitar ejecucion no desatendida": a session *)
(* opens Access only on a database whose startup code is out of the way.   *)
(***************************************************************************)
NoUnattendedStartup ==
    [][\A s \in Sessions : Opens(s) => autoExec # "AutoExec" /\ ~form]_vars

(***************************************************************************)
(* The same of sessions that take the lock, whatever the killed and faulty *)
(* sessions before them left behind: it takes a session without the lock   *)
(* to put the startup code back under a session that is about to open.     *)
(***************************************************************************)
LockedOpensAreQuiet ==
    [][\A s \in Sessions : AllLocked /\ Opens(s) => autoExec # "AutoExec" /\ ~form]_vars

(***************************************************************************)
(* The sessions give back what they took, however those with and without   *)
(* the lock interleave and wherever a suppression throws half-way: if no   *)
(* session was killed and no restoration failed, then once they are over   *)
(* the database has its startup code back (Disable-StartupFeatures fills   *)
(* the caller's $RestoreInfo, and finally and catch use it).               *)
(***************************************************************************)
GivesBackWhatItTook == Idle /\ ~hurt => autoExec = "AutoExec" /\ form

(***************************************************************************)
(* A killed or faulty session's AutoExec is recovered by the next session  *)
(* that runs to its end without a fault, of either script and with or      *)
(* without a sentinel: Disable-StartupFeatures takes a backup left behind  *)
(* for its own.                                                            *)
(***************************************************************************)
AutoExecRecovered == AllLocked /\ Idle /\ clean => autoExec = "AutoExec"
=============================================================================
