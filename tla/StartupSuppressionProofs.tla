----------------------- MODULE StartupSuppressionProofs -----------------------
(***************************************************************************)
(* What StartupSuppression promises, for every number of sessions of       *)
(* either script, kills and faults.                                        *)
(***************************************************************************)
EXTENDS StartupSuppression, TLAPS

Steps(s) ==
    \/ Start(s) \/ RestorePending(s) \/ RestorePendingForm(s) \/ RemovePending(s)
    \/ SuppressAutoExec(s) \/ SuppressForm(s) \/ WriteSentinel(s)
    \/ OpenAccess(s) \/ CloseAccess(s)
    \/ Restore(s) \/ RestoreForm(s) \/ RemoveSentinel(s)
    \/ Kill(s)

-----------------------------------------------------------------------------
(***************************************************************************)
(* The type invariant in two halves, and that every step of a session      *)
(* keeps each: the flags and names, and the tables, counters and lock.     *)
(***************************************************************************)
FlagsOK ==
    /\ autoExec \in {"AutoExec", "AutoExec_TraeBackup"}
    /\ form \in BOOLEAN /\ clean \in BOOLEAN /\ hurt \in BOOLEAN

TablesOK ==
    /\ sentinel \in RestoreInfo \cup {NoSentinel}
    /\ info \in [Sessions -> RestoreInfo]
    /\ pc \in [Sessions -> Points]
    /\ lock \in Sessions \cup {Nobody}
    /\ kills \in 0..MaxKills /\ faults \in 0..MaxFaults

(* A step keeps the macro's name and the flags in their types.             *)
LEMMA FlagsStep == ASSUME TypeOK, NEW s \in Sessions, Steps(s) PROVE FlagsOK'
<1> USE DEF TypeOK, FlagsOK
<1>1. CASE Start(s)
  BY <1>1 DEF Start, Goto, db, NoInfo, RestoreInfo
<1>2. CASE RestorePending(s)
  BY <1>2 DEF RestorePending, RestoreAutoExec, Works, RestoreFault
<1>3. CASE RestorePendingForm(s)
  BY <1>3 DEF RestorePendingForm, RestoreStartupForm, Works, RestoreFault
<1>4. CASE RemovePending(s)
  BY <1>4 DEF RemovePending, db, Works, Fault
<1>5. CASE SuppressAutoExec(s)
  BY <1>5 DEF SuppressAutoExec, Works, Fault
<1>6. CASE SuppressForm(s)
  BY <1>6 DEF SuppressForm, Works, Fault
<1>7. CASE WriteSentinel(s)
  BY <1>7 DEF WriteSentinel, Works, Fault, db
<1>8. CASE OpenAccess(s)
  BY <1>8 DEF OpenAccess, db
<1>9. CASE CloseAccess(s)
  BY <1>9 DEF CloseAccess, db
<1>10. CASE Restore(s)
  BY <1>10 DEF Restore, RestoreAutoExec, Works, RestoreFault
<1>11. CASE RestoreForm(s)
  BY <1>11 DEF RestoreForm, RestoreStartupForm, Works, RestoreFault
<1>12. CASE RemoveSentinel(s)
  BY <1>12 DEF RemoveSentinel, db, Works, Fault
<1>13. CASE Kill(s)
  BY <1>13 DEF Kill, db
<1> QED
  BY <1>1, <1>2, <1>3, <1>4, <1>5, <1>6, <1>7, <1>8, <1>9, <1>10, <1>11, <1>12, <1>13
     DEF Steps

(* A step keeps the restore infos, the control points, the lock and the    *)
(* counters in their types.                                                *)
LEMMA TablesStep == ASSUME TypeOK, NEW s \in Sessions, Steps(s) PROVE TablesOK'
<1> USE DEF TypeOK, TablesOK
<1>1. CASE Start(s)
  BY <1>1, BoundsAssumption DEF Start, Goto, db, NoInfo, RestoreInfo, Points
<1>2. CASE RestorePending(s)
  BY <1>2, BoundsAssumption DEF RestorePending, RestoreAutoExec, Goto, Works, RestoreFault, Points
<1>3. CASE RestorePendingForm(s)
  BY <1>3, BoundsAssumption DEF RestorePendingForm, RestoreStartupForm, Goto, Works, RestoreFault, Points
<1>4. CASE RemovePending(s)
  BY <1>4, BoundsAssumption DEF RemovePending, Goto, NoInfo, RestoreInfo, Points, Works, Fault
<1>5. CASE SuppressAutoExec(s)
  <2>1. info' \in [Sessions -> RestoreInfo]
    BY <1>5 DEF SuppressAutoExec, RestoreInfo
  <2>2. PICK to \in Points : pc' = [pc EXCEPT ![s] = to]
    BY <1>5 DEF SuppressAutoExec, Goto, Points
  <2>3. pc' \in [Sessions -> Points]
    BY <2>2
  <2>4. faults' \in 0 .. MaxFaults
    BY <1>5, BoundsAssumption DEF SuppressAutoExec, Works, Fault
  <2>5. UNCHANGED <<sentinel, lock, kills>>
    BY <1>5 DEF SuppressAutoExec
  <2> QED BY <2>1, <2>3, <2>4, <2>5
<1>6. CASE SuppressForm(s)
  <2>1. info' \in [Sessions -> RestoreInfo]
    BY <1>6 DEF SuppressForm, RestoreInfo
  <2> DEFINE next == IF s \in Manager THEN "open" ELSE "writeSentinel"
  <2>a. Goto(s, "suppressForm", next) \/ Goto(s, "suppressForm", "restore")
    BY <1>6, Zenon DEF SuppressForm
  <2>2. PICK to \in Points : pc' = [pc EXCEPT ![s] = to]
    BY <2>a DEF Goto, Points
  <2>3. pc' \in [Sessions -> Points]
    BY <2>2
  <2>b. Works \/ Fault
    BY <1>6, Zenon DEF SuppressForm
  <2>4. faults' \in 0 .. MaxFaults
    BY <2>b, BoundsAssumption DEF Works, Fault
  <2>5. UNCHANGED <<sentinel, lock, kills>>
    BY <1>6 DEF SuppressForm
  <2> QED BY <2>1, <2>3, <2>4, <2>5
<1>7. CASE WriteSentinel(s)
  BY <1>7, BoundsAssumption DEF WriteSentinel, Goto, Works, Fault, Points
<1>8. CASE OpenAccess(s)
  BY <1>8, BoundsAssumption DEF OpenAccess, Goto, Points
<1>9. CASE CloseAccess(s)
  BY <1>9, BoundsAssumption DEF CloseAccess, Goto, Points
<1>10. CASE Restore(s)
  BY <1>10, BoundsAssumption DEF Restore, RestoreAutoExec, Goto, Works, RestoreFault, Release, Points
<1>11. CASE RestoreForm(s)
  BY <1>11, BoundsAssumption DEF RestoreForm, RestoreStartupForm, Goto, Works, RestoreFault, Release, Points
<1>12. CASE RemoveSentinel(s)
  BY <1>12, BoundsAssumption DEF RemoveSentinel, Goto, Release, Points, Works, Fault
<1>13. CASE Kill(s)
  BY <1>13, BoundsAssumption DEF Kill, Release, Points
<1> QED
  BY <1>1, <1>2, <1>3, <1>4, <1>5, <1>6, <1>7, <1>8, <1>9, <1>10, <1>11, <1>12, <1>13
     DEF Steps

(***************************************************************************)
(* The variables of the model keep their types in every reachable state,   *)
(* whatever fails and whoever is killed.                                   *)
(***************************************************************************)
THEOREM TypeCorrect == Spec => []TypeOK
<1>1. Init => TypeOK
  <2> SUFFICES ASSUME Init PROVE FlagsOK /\ TablesOK
    BY DEF TypeOK, FlagsOK, TablesOK
  <2>1. FlagsOK BY DEF Init, FlagsOK
  <2>2. TablesOK BY BoundsAssumption DEF Init, TablesOK, Points, RestoreInfo, NoInfo
  <2> QED BY <2>1, <2>2
<1>2. TypeOK /\ [Next]_vars => TypeOK'
  <2> SUFFICES ASSUME TypeOK, [Next]_vars PROVE TypeOK' OBVIOUS
  <2>1. CASE Next
    <3>1. PICK s \in Sessions : Steps(s) BY <2>1 DEF Next, Steps
    <3> QED BY <3>1, FlagsStep, TablesStep DEF TypeOK, FlagsOK, TablesOK
  <2>2. CASE UNCHANGED vars
    BY <2>2 DEF TypeOK, vars
  <2> QED BY <2>1, <2>2
<1> QED BY <1>1, <1>2, PTL DEF Spec

-----------------------------------------------------------------------------
(***************************************************************************)
(* GivesBackWhatItTook is not inductive: it says nothing while a session   *)
(* runs.  The invariant says who will give what is missing back: while no  *)
(* restoration has failed and nobody was killed, a renamed AutoExec and a  *)
(* deleted StartupForm are each on the account of a session that has still *)
(* to restore them.                                                        *)
(***************************************************************************)
OwesAutoExec(s) ==
    /\ info[s].renamed
    /\ pc[s] \in {"suppressForm", "writeSentinel", "open", "opened", "restore"}

OwesForm(s) ==
    /\ info[s].form
    /\ pc[s] \in {"writeSentinel", "open", "opened", "restore", "restoreForm"}

AutoExecOwed == ~hurt /\ autoExec # "AutoExec" => \E s \in Sessions : OwesAutoExec(s)
FormOwed == ~hurt /\ ~form => \E s \in Sessions : OwesForm(s)

(* A renamed AutoExec stays on some session's account.                     *)
LEMMA AutoExecOwedStep ==
  ASSUME TypeOK, AutoExecOwed, NEW s \in Sessions, Steps(s) PROVE AutoExecOwed'
<1> USE DEF TypeOK, AutoExecOwed, OwesAutoExec, RestoreInfo
<1>1. CASE Start(s)
  BY <1>1 DEF Start, Goto, db
<1>2. CASE RestorePending(s)
  BY <1>2 DEF RestorePending, RestoreAutoExec, Goto, Works, RestoreFault
<1>3. CASE RestorePendingForm(s)
  BY <1>3 DEF RestorePendingForm, RestoreStartupForm, Goto, Works, RestoreFault
<1>4. CASE RemovePending(s)
  BY <1>4 DEF RemovePending, Goto, db, Works, Fault
<1>5. CASE SuppressAutoExec(s)
  BY <1>5 DEF SuppressAutoExec, Goto, Works, Fault
<1>6. CASE SuppressForm(s)
  BY <1>6 DEF SuppressForm, Goto, Works, Fault
<1>7. CASE WriteSentinel(s)
  BY <1>7 DEF WriteSentinel, Goto, Works, Fault, db
<1>8. CASE OpenAccess(s)
  BY <1>8 DEF OpenAccess, Goto, db
<1>9. CASE CloseAccess(s)
  BY <1>9 DEF CloseAccess, Goto, db
<1>10. CASE Restore(s)
  BY <1>10 DEF Restore, RestoreAutoExec, Goto, Works, RestoreFault
<1>11. CASE RestoreForm(s)
  BY <1>11 DEF RestoreForm, RestoreStartupForm, Goto, Works, RestoreFault
<1>12. CASE RemoveSentinel(s)
  BY <1>12 DEF RemoveSentinel, Goto, db, Works, Fault
<1>13. CASE Kill(s)
  BY <1>13 DEF Kill
<1> QED
  BY <1>1, <1>2, <1>3, <1>4, <1>5, <1>6, <1>7, <1>8, <1>9, <1>10, <1>11, <1>12, <1>13
     DEF Steps

(* A deleted StartupForm stays on some session's account.                  *)
LEMMA FormOwedStep ==
  ASSUME TypeOK, FormOwed, NEW s \in Sessions, Steps(s) PROVE FormOwed'
<1> USE DEF TypeOK, FormOwed, OwesForm, RestoreInfo
<1>1. CASE Start(s)
  BY <1>1 DEF Start, Goto, db
<1>2. CASE RestorePending(s)
  BY <1>2 DEF RestorePending, RestoreAutoExec, Goto, Works, RestoreFault
<1>3. CASE RestorePendingForm(s)
  BY <1>3 DEF RestorePendingForm, RestoreStartupForm, Goto, Works, RestoreFault
<1>4. CASE RemovePending(s)
  BY <1>4 DEF RemovePending, Goto, db, Works, Fault
<1>5. CASE SuppressAutoExec(s)
  BY <1>5 DEF SuppressAutoExec, Goto, Works, Fault
<1>6. CASE SuppressForm(s)
  BY <1>6 DEF SuppressForm, Goto, Works, Fault
<1>7. CASE WriteSentinel(s)
  BY <1>7 DEF WriteSentinel, Goto, Works, Fault, db
<1>8. CASE OpenAccess(s)
  BY <1>8 DEF OpenAccess, Goto, db
<1>9. CASE CloseAccess(s)
  BY <1>9 DEF CloseAccess, Goto, db
<1>10. CASE Restore(s)
  BY <1>10 DEF Restore, RestoreAutoExec, Goto, Works, RestoreFault
<1>11. CASE RestoreForm(s)
  BY <1>11 DEF RestoreForm, RestoreStartupForm, Goto, Works, RestoreFault
<1>12. CASE RemoveSentinel(s)
  BY <1>12 DEF RemoveSentinel, Goto, db, Works, Fault
<1>13. CASE Kill(s)
  BY <1>13 DEF Kill
<1> QED
  BY <1>1, <1>2, <1>3, <1>4, <1>5, <1>6, <1>7, <1>8, <1>9, <1>10, <1>11, <1>12, <1>13
     DEF Steps

Owed == AutoExecOwed /\ FormOwed

(***************************************************************************)
(* Sessions of either script, with and without the cross-process lock,     *)
(* however they interleave and wherever a suppression throws: when they    *)
(* are over, none having been killed and no restoration having failed, the *)
(* database has its AutoExec and its StartupForm back.                     *)
(***************************************************************************)
THEOREM GivesBack == Spec => []GivesBackWhatItTook
<1>1. Init => Owed
  BY DEF Init, Owed, AutoExecOwed, FormOwed
<1>2. TypeOK /\ Owed /\ [Next]_vars => Owed'
  <2> SUFFICES ASSUME TypeOK, Owed, [Next]_vars PROVE Owed' OBVIOUS
  <2>1. CASE Next
    <3>1. PICK s \in Sessions : Steps(s) BY <2>1 DEF Next, Steps
    <3> QED BY <3>1, AutoExecOwedStep, FormOwedStep DEF Owed
  <2>2. CASE UNCHANGED vars
    BY <2>2 DEF vars, Owed, AutoExecOwed, FormOwed, OwesAutoExec, OwesForm
  <2> QED BY <2>1, <2>2
<1>3. TypeOK /\ Owed => GivesBackWhatItTook
  <2> SUFFICES ASSUME TypeOK, AutoExecOwed, FormOwed, Idle, ~hurt
               PROVE  autoExec = "AutoExec" /\ form
    BY DEF Owed, GivesBackWhatItTook
  <2>1. autoExec = "AutoExec"
    BY DEF AutoExecOwed, OwesAutoExec, Idle, Active, Over
  <2>2. form
    BY DEF FormOwed, OwesForm, Idle, Active, Over
  <2> QED BY <2>1, <2>2
<1> QED BY <1>1, <1>2, <1>3, TypeCorrect, PTL DEF Spec

-----------------------------------------------------------------------------
(***************************************************************************)
(* While all sessions have taken the lock: a session that runs holds it,   *)
(* so from the suppression to the opening nobody else touches the startup  *)
(* code.                                                                   *)
(***************************************************************************)
Alone == AllLocked => \A s \in Sessions : Active(s) => lock = s

Suppressed ==
    AllLocked => \A s \in Sessions :
        /\ pc[s] \in {"suppressForm", "writeSentinel", "open"} => autoExec # "AutoExec"
        /\ pc[s] \in {"writeSentinel", "open"} => ~form

(* A session that has run without the lock is never idle again; so while   *)
(* all are locked, they were before the step, which is of a locked one.    *)
LEMMA LockedStep ==
  ASSUME TypeOK, NEW s \in Sessions, Steps(s), AllLocked'
  PROVE  AllLocked /\ s \notin ReadOnly
<1> USE SessionsAssumption DEF TypeOK, AllLocked
<1>1. CASE Start(s)
  BY <1>1 DEF Start, Goto, db
<1>2. CASE RestorePending(s)
  BY <1>2 DEF RestorePending, RestoreAutoExec, Goto, Works, RestoreFault
<1>3. CASE RestorePendingForm(s)
  BY <1>3 DEF RestorePendingForm, RestoreStartupForm, Goto, Works, RestoreFault
<1>4. CASE RemovePending(s)
  BY <1>4 DEF RemovePending, Goto, db, Works, Fault
<1>5. CASE SuppressAutoExec(s)
  BY <1>5 DEF SuppressAutoExec, Goto, Works, Fault
<1>6. CASE SuppressForm(s)
  BY <1>6 DEF SuppressForm, Goto, Works, Fault
<1>7. CASE WriteSentinel(s)
  BY <1>7 DEF WriteSentinel, Goto, Works, Fault, db
<1>8. CASE OpenAccess(s)
  BY <1>8 DEF OpenAccess, Goto, db
<1>9. CASE CloseAccess(s)
  BY <1>9 DEF CloseAccess, Goto, db
<1>10. CASE Restore(s)
  BY <1>10 DEF Restore, RestoreAutoExec, Goto, Works, RestoreFault
<1>11. CASE RestoreForm(s)
  BY <1>11 DEF RestoreForm, RestoreStartupForm, Goto, Works, RestoreFault
<1>12. CASE RemoveSentinel(s)
  BY <1>12 DEF RemoveSentinel, Goto, db, Works, Fault
<1>13. CASE Kill(s)
  BY <1>13 DEF Kill, Active
<1> QED
  BY <1>1, <1>2, <1>3, <1>4, <1>5, <1>6, <1>7, <1>8, <1>9, <1>10, <1>11, <1>12, <1>13
     DEF Steps

(* Only the holder of the lock runs.                                       *)
LEMMA AloneStep ==
  ASSUME TypeOK, Alone, NEW s \in Sessions, Steps(s) PROVE Alone'
<1> SUFFICES ASSUME AllLocked' PROVE Alone' BY DEF Alone
<1>0. AllLocked /\ s \notin ReadOnly BY LockedStep
<1> USE <1>0, SessionsAssumption DEF TypeOK, Alone, Active, Over
<1>1. CASE Start(s)
  BY <1>1 DEF Start, Goto, db, Release
<1>2. CASE RestorePending(s)
  BY <1>2 DEF RestorePending, RestoreAutoExec, Goto, Works, RestoreFault, Release
<1>3. CASE RestorePendingForm(s)
  BY <1>3 DEF RestorePendingForm, RestoreStartupForm, Goto, Works, RestoreFault, Release
<1>4. CASE RemovePending(s)
  BY <1>4 DEF RemovePending, Goto, db, Works, Fault, Release
<1>5. CASE SuppressAutoExec(s)
  BY <1>5 DEF SuppressAutoExec, Goto, Works, Fault, Release
<1>6. CASE SuppressForm(s)
  BY <1>6 DEF SuppressForm, Goto, Works, Fault, Release
<1>7. CASE WriteSentinel(s)
  BY <1>7 DEF WriteSentinel, Goto, Works, Fault, db, Release
<1>8. CASE OpenAccess(s)
  BY <1>8 DEF OpenAccess, Goto, db, Release
<1>9. CASE CloseAccess(s)
  BY <1>9 DEF CloseAccess, Goto, db, Release
<1>10. CASE Restore(s)
  BY <1>10 DEF Restore, RestoreAutoExec, Goto, Works, RestoreFault, Release
<1>11. CASE RestoreForm(s)
  BY <1>11 DEF RestoreForm, RestoreStartupForm, Goto, Works, RestoreFault, Release
<1>12. CASE RemoveSentinel(s)
  BY <1>12 DEF RemoveSentinel, Goto, db, Works, Fault, Release
<1>13. CASE Kill(s)
  BY <1>13 DEF Kill, Release
<1> QED
  BY <1>1, <1>2, <1>3, <1>4, <1>5, <1>6, <1>7, <1>8, <1>9, <1>10, <1>11, <1>12, <1>13
     DEF Steps

(* What the suppression has put out of the way stays so until the opening. *)
LEMMA SuppressedStep ==
  ASSUME TypeOK, Alone, Suppressed, NEW s \in Sessions, Steps(s) PROVE Suppressed'
<1> SUFFICES ASSUME AllLocked' PROVE Suppressed' BY DEF Suppressed
<1>0. AllLocked /\ s \notin ReadOnly BY LockedStep
<1> USE <1>0 DEF TypeOK, Alone, Active, Over, Suppressed
<1>1. CASE Start(s)
  BY <1>1 DEF Start, Goto, db
<1>2. CASE RestorePending(s)
  BY <1>2 DEF RestorePending, RestoreAutoExec, Goto, Works, RestoreFault
<1>3. CASE RestorePendingForm(s)
  BY <1>3 DEF RestorePendingForm, RestoreStartupForm, Goto, Works, RestoreFault
<1>4. CASE RemovePending(s)
  BY <1>4 DEF RemovePending, Goto, db, Works, Fault
<1>5. CASE SuppressAutoExec(s)
  BY <1>5 DEF SuppressAutoExec, Goto, Works, Fault
<1>6. CASE SuppressForm(s)
  BY <1>6 DEF SuppressForm, Goto, Works, Fault
<1>7. CASE WriteSentinel(s)
  BY <1>7 DEF WriteSentinel, Goto, Works, Fault, db
<1>8. CASE OpenAccess(s)
  BY <1>8 DEF OpenAccess, Goto, db
<1>9. CASE CloseAccess(s)
  BY <1>9 DEF CloseAccess, Goto, db
<1>10. CASE Restore(s)
  BY <1>10 DEF Restore, RestoreAutoExec, Goto, Works, RestoreFault
<1>11. CASE RestoreForm(s)
  BY <1>11 DEF RestoreForm, RestoreStartupForm, Goto, Works, RestoreFault
<1>12. CASE RemoveSentinel(s)
  BY <1>12 DEF RemoveSentinel, Goto, db, Works, Fault
<1>13. CASE Kill(s)
  BY <1>13 DEF Kill
<1> QED
  BY <1>1, <1>2, <1>3, <1>4, <1>5, <1>6, <1>7, <1>8, <1>9, <1>10, <1>11, <1>12, <1>13
     DEF Steps

Quiet == Alone /\ Suppressed

(* The lock and the suppression together, in every reachable state.        *)
LEMMA QuietAlways == Spec => []Quiet
<1>1. Init => Quiet
  BY DEF Init, Quiet, Alone, Suppressed, Active, Over
<1>2. TypeOK /\ Quiet /\ [Next]_vars => Quiet'
  <2> SUFFICES ASSUME TypeOK, Quiet, [Next]_vars PROVE Quiet' OBVIOUS
  <2>1. CASE Next
    <3>1. PICK s \in Sessions : Steps(s) BY <2>1 DEF Next, Steps
    <3> QED BY <3>1, AloneStep, SuppressedStep DEF Quiet
  <2>2. CASE UNCHANGED vars
    BY <2>2 DEF vars, Quiet, Alone, Suppressed, Active, AllLocked
  <2> QED BY <2>1, <2>2
<1> QED BY <1>1, <1>2, TypeCorrect, PTL DEF Spec

(***************************************************************************)
(* As long as every session that ran took the cross-process lock, whatever *)
(* was killed and whatever failed before, no session opens Access with the *)
(* startup code in place.                                                  *)
(***************************************************************************)
THEOREM OpensOnlySuppressed == Spec => LockedOpensAreQuiet
<1>1. Quiet => [\A s \in Sessions : AllLocked /\ Opens(s)
                                     => autoExec # "AutoExec" /\ ~form]_vars
  BY DEF Quiet, Suppressed, Opens
<1> QED BY <1>1, QuietAlways, PTL DEF LockedOpensAreQuiet

-----------------------------------------------------------------------------
(***************************************************************************)
(* How a left-behind AutoExec comes back: as long as nothing has failed    *)
(* since a session started, that session counts the macro as renamed by    *)
(* itself once past the suppression, and has it back once past the         *)
(* restoration.                                                            *)
(***************************************************************************)
Taken ==
    AllLocked /\ clean => \A s \in Sessions :
        pc[s] \in {"suppressForm", "writeSentinel", "open", "opened", "restore"}
        => info[s].renamed

GivenBack ==
    AllLocked /\ clean => \A s \in Sessions :
        pc[s] \in {"restoreForm", "removeSentinel"} => autoExec = "AutoExec"

IdleIntact == AllLocked /\ clean /\ Idle => autoExec = "AutoExec"

(* A session past the suppression has taken the macro.                     *)
LEMMA TakenStep ==
  ASSUME TypeOK, Alone, Taken, NEW s \in Sessions, Steps(s) PROVE Taken'
<1> SUFFICES ASSUME AllLocked' PROVE Taken' BY DEF Taken
<1>0. AllLocked /\ s \notin ReadOnly BY LockedStep
<1> USE <1>0, SessionsAssumption DEF TypeOK, Taken, Alone, Active, Over, RestoreInfo
<1>1. CASE Start(s)
  BY <1>1 DEF Start, Goto, db
<1>2. CASE RestorePending(s)
  BY <1>2 DEF RestorePending, RestoreAutoExec, Goto, Works, RestoreFault
<1>3. CASE RestorePendingForm(s)
  BY <1>3 DEF RestorePendingForm, RestoreStartupForm, Goto, Works, RestoreFault
<1>4. CASE RemovePending(s)
  BY <1>4 DEF RemovePending, Goto, db, Works, Fault
<1>5. CASE SuppressAutoExec(s)
  BY <1>5 DEF SuppressAutoExec, Goto, Works, Fault
<1>6. CASE SuppressForm(s)
  <2> SUFFICES ASSUME clean', NEW t \in Sessions,
                      pc'[t] \in {"suppressForm", "writeSentinel", "open", "opened", "restore"}
               PROVE  info'[t].renamed
    BY Zenon DEF Taken
  <2>1. Works
    BY <1>6, Zenon DEF SuppressForm, Fault
  <2>2. pc[s] = "suppressForm" /\ \A u \in Sessions \ {s} : pc'[u] = pc[u]
    BY <1>6 DEF SuppressForm, Goto
  <2>3. info[t].renamed
    BY <2>1, <2>2 DEF Works
  <2>a. info' = info \/ info' = [info EXCEPT ![s].form = form]
    BY <1>6, Zenon DEF SuppressForm
  <2>4. info'[t].renamed = info[t].renamed
    BY <2>a
  <2> QED BY <2>3, <2>4
<1>7. CASE WriteSentinel(s)
  BY <1>7 DEF WriteSentinel, Goto, Works, Fault, db
<1>8. CASE OpenAccess(s)
  BY <1>8 DEF OpenAccess, Goto, db
<1>9. CASE CloseAccess(s)
  BY <1>9 DEF CloseAccess, Goto, db
<1>10. CASE Restore(s)
  BY <1>10 DEF Restore, RestoreAutoExec, Goto, Works, RestoreFault
<1>11. CASE RestoreForm(s)
  BY <1>11 DEF RestoreForm, RestoreStartupForm, Goto, Works, RestoreFault
<1>12. CASE RemoveSentinel(s)
  BY <1>12 DEF RemoveSentinel, Goto, db, Works, Fault
<1>13. CASE Kill(s)
  BY <1>13 DEF Kill
<1> QED
  BY <1>1, <1>2, <1>3, <1>4, <1>5, <1>6, <1>7, <1>8, <1>9, <1>10, <1>11, <1>12, <1>13
     DEF Steps

(* A session past the restoration has given it back.                       *)
LEMMA GivenBackStep ==
  ASSUME TypeOK, Alone, Taken, GivenBack, NEW s \in Sessions, Steps(s)
  PROVE  GivenBack'
<1> SUFFICES ASSUME AllLocked' PROVE GivenBack' BY DEF GivenBack
<1>0. AllLocked /\ s \notin ReadOnly BY LockedStep
<1> USE <1>0, SessionsAssumption DEF TypeOK, Taken, GivenBack, Alone, Active, Over, RestoreInfo
<1>1. CASE Start(s)
  BY <1>1 DEF Start, Goto, db
<1>2. CASE RestorePending(s)
  BY <1>2 DEF RestorePending, RestoreAutoExec, Goto, Works, RestoreFault
<1>3. CASE RestorePendingForm(s)
  BY <1>3 DEF RestorePendingForm, RestoreStartupForm, Goto, Works, RestoreFault
<1>4. CASE RemovePending(s)
  BY <1>4 DEF RemovePending, Goto, db, Works, Fault
<1>5. CASE SuppressAutoExec(s)
  BY <1>5 DEF SuppressAutoExec, Goto, Works, Fault
<1>6. CASE SuppressForm(s)
  BY <1>6 DEF SuppressForm, Goto, Works, Fault
<1>7. CASE WriteSentinel(s)
  BY <1>7 DEF WriteSentinel, Goto, Works, Fault, db
<1>8. CASE OpenAccess(s)
  BY <1>8 DEF OpenAccess, Goto, db
<1>9. CASE CloseAccess(s)
  BY <1>9 DEF CloseAccess, Goto, db
<1>10. CASE Restore(s)
  BY <1>10 DEF Restore, RestoreAutoExec, Goto, Works, RestoreFault
<1>11. CASE RestoreForm(s)
  BY <1>11 DEF RestoreForm, RestoreStartupForm, Goto, Works, RestoreFault
<1>12. CASE RemoveSentinel(s)
  BY <1>12 DEF RemoveSentinel, Goto, db, Works, Fault
<1>13. CASE Kill(s)
  BY <1>13 DEF Kill
<1> QED
  BY <1>1, <1>2, <1>3, <1>4, <1>5, <1>6, <1>7, <1>8, <1>9, <1>10, <1>11, <1>12, <1>13
     DEF Steps

(* The session that ends leaves the macro in place.                        *)
LEMMA IdleIntactStep ==
  ASSUME TypeOK, Alone, Taken, GivenBack, IdleIntact, NEW s \in Sessions, Steps(s)
  PROVE  IdleIntact'
<1> SUFFICES ASSUME AllLocked' PROVE IdleIntact' BY DEF IdleIntact
<1>0. AllLocked /\ s \notin ReadOnly BY LockedStep
<1> USE <1>0 DEF TypeOK, Taken, GivenBack, IdleIntact, Idle, Active, Over, RestoreInfo
<1>1. CASE Start(s)
  BY <1>1 DEF Start, Goto, db
<1>2. CASE RestorePending(s)
  BY <1>2 DEF RestorePending, RestoreAutoExec, Goto, Works, RestoreFault
<1>3. CASE RestorePendingForm(s)
  BY <1>3 DEF RestorePendingForm, RestoreStartupForm, Goto, Works, RestoreFault
<1>4. CASE RemovePending(s)
  BY <1>4 DEF RemovePending, Goto, db, Works, Fault
<1>5. CASE SuppressAutoExec(s)
  BY <1>5 DEF SuppressAutoExec, Goto, Works, Fault
<1>6. CASE SuppressForm(s)
  BY <1>6 DEF SuppressForm, Goto, Works, Fault
<1>7. CASE WriteSentinel(s)
  BY <1>7 DEF WriteSentinel, Goto, Works, Fault, db
<1>8. CASE OpenAccess(s)
  BY <1>8 DEF OpenAccess, Goto, db
<1>9. CASE CloseAccess(s)
  BY <1>9 DEF CloseAccess, Goto, db
<1>10. CASE Restore(s)
  BY <1>10 DEF Restore, RestoreAutoExec, Goto, Works, RestoreFault
<1>11. CASE RestoreForm(s)
  BY <1>11 DEF RestoreForm, RestoreStartupForm, Goto, Works, RestoreFault
<1>12. CASE RemoveSentinel(s)
  BY <1>12 DEF RemoveSentinel, Goto, db, Works, Fault
<1>13. CASE Kill(s)
  BY <1>13 DEF Kill
<1> QED
  BY <1>1, <1>2, <1>3, <1>4, <1>5, <1>6, <1>7, <1>8, <1>9, <1>10, <1>11, <1>12, <1>13
     DEF Steps

(***************************************************************************)
(* As long as every session that ran took the lock, one that runs to its   *)
(* end without a fault brings AutoExec back, however the sessions before   *)
(* it were killed or failed.                                               *)
(***************************************************************************)
THEOREM RecoversAutoExec == Spec => []AutoExecRecovered
<1> DEFINE Inv == Taken /\ GivenBack /\ IdleIntact
<1>1. Init => Inv
  BY DEF Init, Taken, GivenBack, IdleIntact
<1>2. TypeOK /\ Quiet /\ Inv /\ [Next]_vars => Inv'
  <2> SUFFICES ASSUME TypeOK, Alone, Inv, [Next]_vars PROVE Inv'
    BY DEF Quiet
  <2>1. CASE Next
    <3>1. PICK s \in Sessions : Steps(s) BY <2>1 DEF Next, Steps
    <3> QED BY <3>1, TakenStep, GivenBackStep, IdleIntactStep
  <2>2. CASE UNCHANGED vars
    BY <2>2 DEF vars, Taken, GivenBack, IdleIntact, Idle, Active, AllLocked
  <2> QED BY <2>1, <2>2
<1>3. Inv => AutoExecRecovered
  BY DEF IdleIntact, AutoExecRecovered
<1> QED BY <1>1, <1>2, <1>3, TypeCorrect, QuietAlways, PTL DEF Spec
=============================================================================
