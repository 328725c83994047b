---------------------------- MODULE RelinkDirectory ----------------------------
(***************************************************************************)
(* relink_directory: the linked tables of the databases under a directory  *)
(* are pointed at the copies of their backends in that directory           *)
(* (src/core/services/relink-directory-orchestration.ts plans,             *)
(* scripts/dysflow-access-runner.ps1 applies one file after the other).    *)
(*                                                                         *)
(* A table is a node; a link leads from the table that is a link to the    *)
(* table it names.  classifyBackend is the kind of a link: inside the root *)
(* already, mapped to the one database of that name under the root, or     *)
(* unresolved.  Paths, names and the alias map are abstracted to that.     *)
(***************************************************************************)
EXTENDS Naturals, FiniteSets

CONSTANTS
    Tables,      \* tables of the databases that are scanned
    FileOf,      \* the database of each
    NotScanned,  \* a table under the root in a database that is not scanned
    MaxHops,     \* 5 in the code
    MaxUnread,   \* bound of the databases whose inspection fails
    Directories  \* the directories to relink: what each table is

Files == {FileOf[t] : t \in Tables}

LinkKinds == {"inside", "mapped"}
Entries ==
    [kind : {"absent", "local", "unresolved"}, to : {NotScanned}]
    \cup [kind : {"inside"}, to : Tables \cup {NotScanned}]
    \cup [kind : {"mapped"}, to : Tables]

ASSUME RelinkAssumption ==
    /\ NotScanned \notin Tables /\ MaxHops \in Nat \ {0, 1} /\ MaxUnread \in Nat
    /\ Directories \subseteq [Tables -> Entries]

VARIABLES
    relinkAt,   \* start, apply or done
    inspected,  \* the tables as the inspection found them
    unread,     \* databases whose inspection failed
    removing,   \* removeUnresolved
    links,      \* the tables as they are now
    verdict,    \* the classification of each table's link
    toApply     \* databases whose plan has not been applied

relinkVars == <<relinkAt, inspected, unread, removing, links, verdict, toApply>>

Nothing == [t \in Tables |-> [kind |-> "absent", to |-> NotScanned]]

RelinkInit ==
    /\ relinkAt = "start"
    /\ inspected = Nothing /\ unread = {} /\ removing = FALSE
    /\ links = Nothing
    /\ verdict = [t \in Tables |-> "none"]
    /\ toApply = {}

(***************************************************************************)
(* resolveChain: follow the inspected links from a table.  The first hop   *)
(* count at which one of the loop's returns applies ends the walk.         *)
(***************************************************************************)
Walk(tables, start) ==
    LET at[k \in 0..MaxHops] ==
            IF k = 0 THEN start
            ELSE IF at[k - 1] = NotScanned THEN NotScanned
            ELSE tables[at[k - 1]].to
    IN  at

\* Mutant of Chain: the limit is met before the cycle is looked for.
ChainNoCycle(tables, failed, start) ==
    LET at == Walk(tables, start)
        Returns(k) ==
            IF k = MaxHops \/ (at[k] # NotScanned /\ FileOf[at[k]] \in failed)
            THEN "fallback"
            ELSE IF at[k] = NotScanned \/ tables[at[k]].kind = "absent" THEN "missing"
            ELSE IF tables[at[k]].kind = "local" THEN "resolved"
            ELSE IF tables[at[k]].kind = "unresolved" THEN "fallback"
            ELSE "next"
        hops == CHOOSE k \in 0..MaxHops :
                    Returns(k) # "next" /\ \A j \in 0..k - 1 : Returns(j) = "next"
    IN  [kind |-> Returns(hops), hops |-> hops,
         to |-> IF Returns(hops) = "resolved" THEN at[hops] ELSE tables[start].to]
Chain(tables, failed, start) ==
    LET at == Walk(tables, start)
        Returns(k) ==
            IF \E j \in 0..k - 1 : at[j] = at[k] THEN "cycle"
            ELSE IF k = MaxHops \/ (at[k] # NotScanned /\ FileOf[at[k]] \in failed)
            THEN "fallback"
            ELSE IF at[k] = NotScanned \/ tables[at[k]].kind = "absent" THEN "missing"
            ELSE IF tables[at[k]].kind = "local" THEN "resolved"
            ELSE IF tables[at[k]].kind = "unresolved" THEN "fallback"
            ELSE "next"
        hops == CHOOSE k \in 0..MaxHops :
                    Returns(k) # "next" /\ \A j \in 0..k - 1 : Returns(j) = "next"
    IN  [kind |-> Returns(hops), hops |-> hops,
         to |-> IF Returns(hops) = "resolved" THEN at[hops] ELSE tables[start].to]

(***************************************************************************)
(* buildPlanningState: the classification of each link, and its action.    *)
(***************************************************************************)
Classify(t) ==
    IF FileOf[t] \in unread THEN "none"
    ELSE CASE inspected[t].kind = "inside" -> "alreadyLocal"
           [] inspected[t].kind = "unresolved" -> "unresolved"
           [] inspected[t].kind = "mapped" ->
                 LET kind == Chain(inspected, unread, t).kind
                 IN  IF kind = "cycle" THEN "cycle"
                     ELSE IF kind = "missing" THEN "unresolved"
                     ELSE "plannedRelink"
           [] OTHER -> "none"

ActionOf(t) ==
    IF Classify(t) = "plannedRelink" THEN "relink"
    ELSE IF Classify(t) = "unresolved" /\ removing THEN "remove"
    ELSE "none"

Planned(f) == {t \in Tables : FileOf[t] = f /\ ActionOf(t) # "none"}

\* The databases are inspected; a dry run ends with the first classification.
Inspect ==
    /\ relinkAt = "start"
    /\ inspected' \in Directories
    /\ links' = inspected'
    /\ unread' \in {failed \in SUBSET Files : Cardinality(failed) <= MaxUnread}
    /\ removing' \in BOOLEAN
    /\ relinkAt' = "plan"
    /\ UNCHANGED <<verdict, toApply>>

Plan ==
    /\ relinkAt = "plan"
    /\ \/ /\ verdict' = [t \in Tables |-> Classify(t)]
          /\ toApply' = {f \in Files : Planned(f) # {}}
          /\ relinkAt' = IF toApply' = {} THEN "done" ELSE "apply"
       \/ /\ verdict' = [t \in Tables |->
                            IF Classify(t) # "none" /\ inspected[t].kind = "mapped"
                            THEN "plannedRelink" ELSE Classify(t)]
          /\ relinkAt' = "done"
          /\ UNCHANGED toApply
    /\ UNCHANGED <<inspected, unread, removing, links>>

(***************************************************************************)
(* Invoke-RelinkDirectoryFilePlanPrimitive: every action of the plan is    *)
(* tried.  A link that gets another source table is deleted and created    *)
(* anew, so a failure in between loses it.                                 *)
(***************************************************************************)
Outcomes(t) ==
    IF ActionOf(t) = "relink" /\ Chain(inspected, unread, t).to # inspected[t].to
    THEN {"ok", "failed", "lost"} ELSE {"ok", "failed"}

After(t, outcome) ==
    IF outcome = "failed" THEN links[t]
    ELSE IF outcome = "lost" \/ ActionOf(t) = "remove"
    THEN [kind |-> "absent", to |-> NotScanned]
    ELSE [kind |-> "inside", to |-> Chain(inspected, unread, t).to]

VerdictAfter(t, outcome) ==
    IF outcome # "ok" THEN verdict[t]
    ELSE IF ActionOf(t) = "remove" THEN "removed" ELSE "applied"

ApplyFile(f) ==
    /\ relinkAt = "apply" /\ f \in toApply
    /\ \/ \* backupError or openError: nothing of this file is done
          UNCHANGED <<links, verdict>>
       \/ \E outcome \in [Planned(f) -> {"ok", "failed", "lost"}] :
             /\ \A t \in Planned(f) : outcome[t] \in Outcomes(t)
             /\ links' = [t \in Tables |-> IF t \in Planned(f)
                            THEN After(t, outcome[t]) ELSE links[t]]
             /\ verdict' = [t \in Tables |-> IF t \in Planned(f)
                            THEN VerdictAfter(t, outcome[t]) ELSE verdict[t]]
    /\ toApply' = toApply \ {f}
    /\ relinkAt' = IF toApply' = {} THEN "done" ELSE "apply"
    /\ UNCHANGED <<inspected, unread, removing>>

RelinkNext == Inspect \/ Plan \/ \E f \in Files : ApplyFile(f)

RelinkSpec == RelinkInit /\ [][RelinkNext]_relinkVars

-----------------------------------------------------------------------------
(* Correctness.                                                            *)

\* The values the variables take.
RelinkTypeOK ==
    /\ relinkAt \in {"start", "plan", "apply", "done"}
    /\ inspected \in [Tables -> Entries] /\ links \in [Tables -> Entries]
    /\ unread \subseteq Files /\ removing \in BOOLEAN
    /\ verdict \in [Tables -> {"none", "alreadyLocal", "plannedRelink", "unresolved",
                               "cycle", "applied", "removed"}]
    /\ toApply \subseteq Files

\* Reference: m is k links away from t in the given tables.
Reaches(tables, t, k, m) ==
    \E path \in [0..k -> Tables] :
        /\ path[0] = t /\ path[k] = m
        /\ \A i \in 0..k - 1 : /\ tables[path[i]].kind \in LinkKinds
                               /\ path[i + 1] = tables[path[i]].to

\* "The plan points directly to the native endpoint": a link that was relinked
\* and whose chain of readable databases has a native table less than MaxHops
\* away points at that table, at every moment and whatever failed elsewhere.
NativeEndpointReached ==
    \A t, m \in Tables : \A k \in 1..MaxHops - 1 :
        /\ verdict[t] = "applied" /\ unread = {}
        /\ inspected[m].kind = "local" /\ Reaches(inspected, t, k, m)
        => links[t].to = m /\ links[m].kind = "local"

\* No link is applied that lies on a cycle of links, unless the cycle is longer
\* than the walk of resolveChain or goes through a database it could not read.
NoShortCycleApplied ==
    \A t \in Tables :
        verdict[t] = "applied" /\ unread = {} =>
            \A k \in 1..MaxHops : ~Reaches(links, t, k, t)

\* An applied link whose table is missing from a readable database was left by
\* the walk at the first table of its chain, as it found no end, and that table
\* was a link the same call took away: as unresolved, or lost it between deleting
\* and creating it.
DanglingIsExplained ==
    \A t \in Tables :
        LET m == links[t].to IN
        verdict[t] = "applied" /\ FileOf[m] \notin unread /\ links[m].kind = "absent" =>
            /\ m = inspected[t].to
            /\ \/ removing /\ verdict[m] = "removed"
                  /\ inspected[m].kind \in {"mapped", "unresolved"}
               \/ inspected[m].kind = "mapped" /\ verdict[m] = "plannedRelink"

\* A link is removed only if no native table of the scanned databases is at the
\* end of its chain, however long the chain is.
RemovedHadNoEndpoint ==
    \A t, m \in Tables : \A k \in 1..Cardinality(Tables) :
        verdict[t] = "removed" /\ inspected[m].kind = "local"
        => ~Reaches(inspected, t, k, m)

\* The relinked directory: links lead to the native table wherever the walk could
\* find one, form no cycle it could see, dangle only where it found no end and the
\* same call took the link they were left at away, and no link was removed that had
\* an end.
RelinkSafe ==
    /\ RelinkTypeOK
    /\ NativeEndpointReached /\ NoShortCycleApplied
    /\ DanglingIsExplained /\ RemovedHadNoEndpoint
=============================================================================
