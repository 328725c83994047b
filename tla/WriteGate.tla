------------------------------- MODULE WriteGate -------------------------------
(***************************************************************************)
(* The end of diagnoseProjectConfig, which every write passes: it flips    *)
(* the running records of operations.json that are older than a threshold  *)
(* to abandoned, and then refuses the write if a running record is left    *)
(* (src/adapters/config/project-config-diagnostic.ts).                     *)
(*                                                                         *)
(* The file is the one FileRegistry keeps, but the gate takes no lock and  *)
(* rewrites it in place: it reads the file, truncates it and writes it,    *)
(* while the operations of other processes change it under the registry's  *)
(* lock by a read and a rename.  Module FileRegistry shows that the lock   *)
(* serialises the operations among themselves, so here one operation at a  *)
(* time is between its read and its rename.                                *)
(*                                                                         *)
(* The gate also lists the marker files of VBA runs and reaps old ones.    *)
(* Windows PowerShell writes them with a byte-order mark, which JSON.parse *)
(* rejects (vba-sync-adapter.ts strips it, the gate does not), so that     *)
(* they name nobody and stay as they are: they are left out.               *)
(***************************************************************************)
EXTENDS Naturals, FiniteSets

CONSTANTS
    Operations,     \* operations on one project
    Gates,          \* the processes that evaluate the gate
    MaxGateFaults   \* bound on failing rewrites

ASSUME GateAssumption == MaxGateFaults \in Nat

RecordStates == {"none", "starting", "running", "failed", "abandoned"}
Ledgers == [Operations -> RecordStates]
NoLedger == [o \in Operations |-> "none"]

VARIABLES
    ledger,    \* the records in operations.json
    torn,      \* the file is truncated: JSON.parse rejects it
    handles,   \* gates that have this very file open for writing
    opAt,      \* what each operation's process has done
    seen,      \* the records the operation in its mutation has read
    mutating,  \* the operations between read and rename: at most one
    stale,     \* operations whose running record is older than the threshold
    gateAt,    \* where each gate is
    plan,      \* what each gate is going to write
    blockers,  \* each gate's verdict: the operations it named
    gateFaults,
    overlap    \* auxiliary: a rewrite and a mutation have overlapped

opVars == <<opAt, seen, mutating, stale>>
gateVars == <<ledger, torn, handles, opVars, gateAt, plan, blockers,
              gateFaults, overlap>>

GateInit ==
    /\ ledger = NoLedger /\ torn = FALSE /\ handles = {}
    /\ opAt = [o \in Operations |-> "new"]
    /\ seen = NoLedger /\ mutating = {} /\ stale = {}
    /\ gateAt = [g \in Gates |-> "idle"]
    /\ plan = [g \in Gates |-> NoLedger]
    /\ blockers = [g \in Gates |-> {}]
    /\ gateFaults = 0 /\ overlap = FALSE

(***************************************************************************)
(* The operations: create, attach the process, finish.                     *)
(***************************************************************************)
NextStates(o) ==
    CASE opAt[o] = "new" -> {"starting"}
      [] opAt[o] = "starting" -> {"running"}
      [] opAt[o] = "running" -> {"none", "failed"}
      [] OTHER -> {}

\* readRecords under the lock: a file that is empty reads as no records, and one
\* it cannot parse is moved away, if it can be.
BeginMutation(o) ==
    /\ mutating = {} /\ NextStates(o) # {}
    /\ mutating' = {o}
    /\ seen' = IF torn THEN NoLedger ELSE ledger
    /\ \/ ~torn /\ UNCHANGED <<ledger, torn, handles, overlap>>
       \/ /\ torn
          /\ \/ ledger' = NoLedger /\ torn' = FALSE /\ handles' = {}
             \/ UNCHANGED <<ledger, torn, handles>>
          /\ overlap' = TRUE
    /\ UNCHANGED <<opAt, stale, gateAt, plan, blockers, gateFaults>>

\* writeRecords renames a new file into place; update leaves the file alone when
\* the record is not there.
EndMutation(o) ==
    /\ o \in mutating
    /\ mutating' = {} /\ seen' = NoLedger
    /\ \E state \in NextStates(o) :
          /\ opAt' = [opAt EXCEPT ![o] =
                        IF state \in {"starting", "running"} THEN state ELSE "over"]
          /\ IF opAt[o] = "new" \/ seen[o] # "none"
             THEN /\ ledger' = [seen EXCEPT ![o] = state]
                  /\ torn' = FALSE /\ handles' = {}
                  /\ overlap' = (overlap \/ \E g \in Gates :
                                               gateAt[g] \in {"reap", "truncated"})
             ELSE UNCHANGED <<ledger, torn, handles, overlap>>
    /\ UNCHANGED <<stale, gateAt, plan, blockers, gateFaults>>

OperationDies(o) ==
    /\ opAt[o] \in {"starting", "running"}
    /\ opAt' = [opAt EXCEPT ![o] = "dead"]
    /\ mutating' = mutating \ {o}
    /\ seen' = IF o \in mutating THEN NoLedger ELSE seen
    /\ UNCHANGED <<ledger, torn, handles, stale, gateAt, plan, blockers,
                   gateFaults, overlap>>

RecordAges(o) ==
    /\ opAt[o] \notin {"new", "starting"} /\ o \notin stale
    /\ stale' = stale \cup {o}
    /\ UNCHANGED <<ledger, torn, handles, opAt, seen, mutating, gateAt, plan,
                   blockers, gateFaults, overlap>>

(***************************************************************************)
(* The gate.                                                               *)
(***************************************************************************)
GateGoto(g, from, to) == gateAt[g] = from /\ gateAt' = [gateAt EXCEPT ![g] = to]

\* Mutant of Reapable: the comparison of ages is turned round.
ReapableYoung == {o \in Operations \ stale : ledger[o] = "running"}
Reapable == {o \in stale : ledger[o] = "running"}

\* reapStaleOperationsRegistry: read and decide; nothing to reap or nothing
\* that parses goes straight on to the verdict.
ReapRead(g) ==
    /\ \/ /\ ~torn /\ Reapable # {}
          /\ GateGoto(g, "idle", "reap")
          /\ plan' = [plan EXCEPT ![g] = [o \in Operations |->
                        IF o \in Reapable THEN "abandoned" ELSE ledger[o]]]
       \/ (torn \/ Reapable = {}) /\ GateGoto(g, "idle", "list") /\ UNCHANGED plan
    /\ blockers' = [blockers EXCEPT ![g] = {}]
    /\ UNCHANGED <<ledger, torn, handles, opVars, gateFaults, overlap>>

\* writeFileSync opens the file, which truncates it ...
ReapOpen(g) ==
    /\ GateGoto(g, "reap", "truncated")
    /\ torn' = TRUE
    /\ handles' = handles \cup {g}
    /\ overlap' = (overlap \/ mutating # {})
    /\ UNCHANGED <<ledger, opVars, plan, blockers, gateFaults>>

\* ... and writes: to nobody's file if another one was renamed over it, and
\* perhaps a mixture if another gate has had it open too.
ReapWrite(g) ==
    /\ GateGoto(g, "truncated", "list")
    /\ handles' = handles \ {g}
    /\ \/ g \in handles /\ ledger' = plan[g] /\ torn' = FALSE
       \/ g \in handles /\ (handles # {g} \/ ~torn) /\ torn' = TRUE /\ UNCHANGED ledger
       \/ g \notin handles /\ UNCHANGED <<ledger, torn>>
    /\ overlap' = (overlap \/ mutating # {})
    /\ plan' = [plan EXCEPT ![g] = NoLedger]
    /\ UNCHANGED <<opVars, blockers, gateFaults>>

\* The open, or the write after it, fails.
ReapFails(g) ==
    /\ gateFaults < MaxGateFaults /\ gateFaults' = gateFaults + 1
    /\ GateGoto(g, "reap", "list") \/ GateGoto(g, "truncated", "list")
    /\ handles' = handles \ {g}
    /\ plan' = [plan EXCEPT ![g] = NoLedger]
    /\ UNCHANGED <<ledger, torn, opVars, blockers, overlap>>

\* findRunningOperations: an unreadable file names nobody.
FindRunning(g) ==
    /\ GateGoto(g, "list", "idle")
    /\ blockers' = [blockers EXCEPT ![g] =
          {o \in Operations : ~torn /\ ledger[o] = "running"}]
    /\ UNCHANGED <<ledger, torn, handles, opVars, plan, gateFaults, overlap>>

GateStep(g) == ReapRead(g) \/ ReapOpen(g) \/ ReapWrite(g) \/ FindRunning(g)

GateNextOf(operations, gates) ==
    \/ \E o \in operations : \/ BeginMutation(o) \/ EndMutation(o)
                             \/ OperationDies(o) \/ RecordAges(o)
    \/ \E g \in gates : GateStep(g) \/ ReapFails(g)

GateNext == GateNextOf(Operations, Gates)

\* A gate's code is synchronous and every write calls it; time passes.
GateSpec ==
    /\ GateInit /\ [][GateNext]_gateVars
    /\ \A g \in Gates : WF_gateVars(GateStep(g))
    /\ \A o \in Operations : WF_gateVars(RecordAges(o))
    /\ WF_gateVars(\E o \in Operations : EndMutation(o))

-----------------------------------------------------------------------------
(* Correctness.                                                            *)

\* The values the variables take.
GateTypeOK ==
    /\ ledger \in Ledgers /\ torn \in BOOLEAN /\ handles \subseteq Gates
    /\ opAt \in [Operations -> {"new", "starting", "running", "over", "dead"}]
    /\ seen \in Ledgers /\ mutating \subseteq Operations /\ stale \subseteq Operations
    /\ gateAt \in [Gates -> {"idle", "reap", "truncated", "list"}]
    /\ plan \in [Gates -> Ledgers]
    /\ blockers \in [Gates -> SUBSET Operations]
    /\ gateFaults \in 0..MaxGateFaults /\ overlap \in BOOLEAN

\* A running operation younger than the threshold keeps its running record as
\* long as no rewrite of the gate has overlapped a mutation of the registry:
\* the reap itself, also one that fails half-way, takes no record of a live
\* operation.
RunningKeepsRecord ==
    ~overlap => \A o \in Operations :
        opAt[o] = "running" /\ o \notin mutating /\ o \notin stale =>
            torn \/ ledger[o] = "running"

\* The records and the operations at work keep telling the same.
GateSafe == GateTypeOK /\ RunningKeepsRecord

\* #967: an operation that died or ended never blocks the writes for good, not
\* even when a racing rewrite brought its running record back.
EveryBlockerClears ==
    <>[](\A o \in Operations : opAt[o] \in {"over", "dead"} =>
            \A g \in Gates : o \notin blockers[g])
=============================================================================
