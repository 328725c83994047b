--------------------------- MODULE RegistryRecords ---------------------------
(***************************************************************************)
(* The record map kept by the Access operation registry and the pure part  *)
(* of its two mutations (core/operations/access-operation-registry.ts).    *)
(* A map is a total function from operation ids to a record or NoRecord;   *)
(* of a record only the status and the caller-supplied updatedAt stamp     *)
(* drive the registry's own decisions, so only those are kept.             *)
(***************************************************************************)
EXTENDS Integers, FiniteSets

CONSTANTS
    OpIds,        \* operation ids that callers may use
    Stamps,       \* values of updatedAt (ISO strings compare like numbers)
    MaxRecords,   \* maxRecords: the cap enforced by evictOldestRecords
    NoRecord,     \* "no record under this id"
    Requests      \* the requests that calls may carry

ASSUME StampsAssumption == Stamps \subseteq Nat
ASSUME MaxRecordsAssumption == MaxRecords \in Nat \ {0}

\* AccessOperationStatus
Statuses == {"starting", "running", "completed", "failed", "timed_out",
             "cleanup_pending", "cleaned", "pid_unknown",
             "running_untracked", "abandoned"}

PURGED_PERSISTENT_STATUSES == {"completed", "cleaned"}

Record == [status : Statuses, at : Stamps]

ASSUME NoRecordAssumption == NoRecord \notin Record

RecordMaps == [OpIds -> Record \cup {NoRecord}]

NoRecords == [o \in OpIds |-> NoRecord]

\* A call of create(record) or update(operationId, patch).
Request == [kind : {"create", "update"}, op : OpIds,
            status : Statuses, at : Stamps]

ASSUME RequestsAssumption == Requests \subseteq Request

Present(r) == {o \in OpIds : r[o] # NoRecord}

Without(r, E) == [o \in OpIds |-> IF o \in E THEN NoRecord ELSE r[o]]

\* Mutant of Evictions: the cap is compared off by one.
EvictionsOffByOne(r) ==
    LET overCount == Cardinality(Present(r)) - (MaxRecords + 1)
    IN  IF overCount <= 0
        THEN {r}
        ELSE {Without(r, E) : E \in
                {F \in SUBSET Present(r) : Cardinality(F) = overCount}}

(***************************************************************************)
(* evictOldestRecordsFromMap: drop the overCount records with the smallest *)
(* updatedAt.  Equal stamps are ordered by the map's insertion order, which *)
(* the model does not keep, so every choice among ties is allowed.         *)
(***************************************************************************)
Evictions(r) ==
    LET overCount == Cardinality(Present(r)) - MaxRecords
    IN  IF overCount <= 0
        THEN {r}
        ELSE {Without(r, E) : E \in
                {F \in SUBSET Present(r) :
                    /\ Cardinality(F) = overCount
                    /\ \A e \in F, k \in Present(r) \ F : r[e].at <= r[k].at}}

\* Does the mutation reach writeRecords?
Writes(q, r) ==
    IF q.kind = "create" THEN q.status \notin PURGED_PERSISTENT_STATUSES
                         ELSE r[q.op] # NoRecord

\* What the call returns: the stored record, or undefined for an absent id.
Returned(q, r) ==
    IF q.kind = "update" /\ r[q.op] = NoRecord THEN "undefined" ELSE "stored"

\* The maps create and update may write, given the map they read.
Effects(q, r) ==
    IF q.status \in PURGED_PERSISTENT_STATUSES
    THEN {Without(r, {q.op})}
    ELSE Evictions([r EXCEPT ![q.op] = [status |-> q.status, at |-> q.at]])
=============================================================================
