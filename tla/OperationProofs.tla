---------------------------- MODULE OperationProofs ----------------------------
(***************************************************************************)
(* Proofs about what other processes do to the record and to the Access of *)
(* an operation: the gate that every write passes (WriteGate), and the two *)
(* cleanup tools (TrackedAccess).                                          *)
(***************************************************************************)
EXTENDS WriteGate, TrackedAccess, SequenceTheorems, TLAPS

-----------------------------------------------------------------------------
(* The gate.                                                               *)


\* At most one operation is between its read and its rename.
OneMutates == \A o, p \in mutating : o = p

\* As long as nothing has overlapped, the records of the operations that have not
\* ended say where they are, what a mutation read is what the file holds, and
\* what a gate is going to write takes no such record either.
Tells(records) ==
    \A o \in Operations :
        /\ opAt[o] = "starting" => records[o] = "starting"
        /\ opAt[o] = "running" /\ o \notin stale => records[o] = "running"
FileTells == torn \/ Tells(ledger)
MutationIsFresh == mutating # {} => ~torn /\ seen = ledger
PlansTell == \A g \in Gates : gateAt[g] \in {"reap", "truncated"} => Tells(plan[g])

GateInv ==
    /\ GateTypeOK /\ OneMutates
    /\ ~overlap => FileTells /\ MutationIsFresh /\ PlansTell

LEMMA NextStatesFacts ==
  ASSUME GateTypeOK, NEW o \in Operations
  PROVE  /\ NextStates(o) \subseteq RecordStates
         /\ opAt[o] = "new" => NextStates(o) = {"starting"}
         /\ opAt[o] = "starting" => NextStates(o) = {"running"}
         /\ opAt[o] = "running" => NextStates(o) = {"none", "failed"}
         /\ NextStates(o) # {} => opAt[o] \in {"new", "starting", "running"}
<1>1. opAt[o] \in {"new", "starting", "running", "over", "dead"}
  BY DEF GateTypeOK
<1> QED
  BY <1>1 DEF NextStates, RecordStates

LEMMA LedgerFacts == NoLedger \in Ledgers
BY DEF NoLedger, Ledgers, RecordStates

LEMMA GateTypesNext ==
  ASSUME GateTypeOK, OneMutates, [GateNext]_gateVars
  PROVE  GateTypeOK' /\ OneMutates'
<1> USE DEF GateTypeOK, OneMutates
<1>1. ASSUME NEW o \in Operations, BeginMutation(o) PROVE GateTypeOK' /\ OneMutates'
  <2>1. seen' \in Ledgers /\ ledger' \in Ledgers
    BY <1>1, LedgerFacts DEF BeginMutation
  <2> QED
    BY <1>1, <2>1 DEF BeginMutation
<1>2. ASSUME NEW o \in Operations, EndMutation(o) PROVE GateTypeOK' /\ OneMutates'
  <2>1. PICK state \in NextStates(o) :
          /\ opAt' = [opAt EXCEPT ![o] =
                        IF state \in {"starting", "running"} THEN state ELSE "over"]
          /\ \/ ledger' = [seen EXCEPT ![o] = state] /\ torn' = FALSE /\ handles' = {}
             \/ UNCHANGED <<ledger, torn, handles>>
    BY <1>2 DEF EndMutation
  <2>2. [seen EXCEPT ![o] = state] \in Ledgers
    BY <2>1, NextStatesFacts DEF Ledgers
  <2>3. opAt' \in [Operations -> {"new", "starting", "running", "over", "dead"}]
    BY <2>1
  <2>4. overlap' \in BOOLEAN
    BY <1>2, Zenon DEF EndMutation
  <2>5. /\ mutating' = {} /\ seen' = NoLedger
        /\ UNCHANGED <<stale, gateAt, plan, blockers, gateFaults>>
    BY <1>2 DEF EndMutation
  <2> QED
    BY <2>1, <2>2, <2>3, <2>4, <2>5, LedgerFacts
<1>3. ASSUME NEW o \in Operations, OperationDies(o) PROVE GateTypeOK' /\ OneMutates'
  BY <1>3, LedgerFacts DEF OperationDies
<1>4. ASSUME NEW o \in Operations, RecordAges(o) PROVE GateTypeOK' /\ OneMutates'
  BY <1>4 DEF RecordAges
<1>5. ASSUME NEW g \in Gates, ReapRead(g) PROVE GateTypeOK' /\ OneMutates'
  <2>1. [o \in Operations |-> IF o \in Reapable THEN "abandoned" ELSE ledger[o]] \in Ledgers
    BY DEF Ledgers, RecordStates
  <2>2. plan' \in [Gates -> Ledgers]
    BY <1>5, <2>1 DEF ReapRead
  <2>3. gateAt' \in [Gates -> {"idle", "reap", "truncated", "list"}]
    BY <1>5 DEF ReapRead, GateGoto
  <2> QED
    BY <1>5, <2>2, <2>3 DEF ReapRead, opVars
<1>6. ASSUME NEW g \in Gates, ReapOpen(g) PROVE GateTypeOK' /\ OneMutates'
  <2>1. overlap' \in BOOLEAN
    BY <1>6, Zenon DEF ReapOpen
  <2> QED
    BY <1>6, <2>1 DEF ReapOpen, GateGoto, opVars
<1>7. ASSUME NEW g \in Gates, ReapWrite(g) PROVE GateTypeOK' /\ OneMutates'
  <2>1. overlap' \in BOOLEAN
    BY <1>7, Zenon DEF ReapWrite
  <2> QED
    BY <1>7, <2>1, LedgerFacts DEF ReapWrite, GateGoto, opVars
<1>8. ASSUME NEW g \in Gates, ReapFails(g) PROVE GateTypeOK' /\ OneMutates'
  BY <1>8, LedgerFacts, GateAssumption DEF ReapFails, GateGoto, opVars
<1>9. ASSUME NEW g \in Gates, FindRunning(g) PROVE GateTypeOK' /\ OneMutates'
  BY <1>9 DEF FindRunning, GateGoto, opVars
<1>10. CASE UNCHANGED gateVars
  BY <1>10 DEF gateVars, opVars
<1> QED
  BY <1>1, <1>2, <1>3, <1>4, <1>5, <1>6, <1>7, <1>8, <1>9, <1>10
  DEF GateNext, GateNextOf, GateStep

LEMMA GateInvNext == ASSUME GateInv, [GateNext]_gateVars PROVE GateInv'
<1>0. GateTypeOK /\ OneMutates /\ GateTypeOK' /\ OneMutates'
  BY GateTypesNext DEF GateInv
<1> SUFFICES ASSUME ~overlap' PROVE FileTells' /\ MutationIsFresh' /\ PlansTell'
  BY <1>0 DEF GateInv
<1> DEFINE Goal == FileTells' /\ MutationIsFresh' /\ PlansTell'
<1>1. ASSUME NEW o \in Operations, BeginMutation(o) PROVE Goal
  <2>1. ~torn /\ seen' = ledger /\ UNCHANGED <<ledger, torn, overlap, opAt, stale, gateAt, plan>>
    BY <1>1 DEF BeginMutation
  <2>2. FileTells /\ PlansTell
    BY <2>1 DEF GateInv
  <2> QED
    BY <2>1, <2>2 DEF FileTells, MutationIsFresh, PlansTell, Tells
<1>2. ASSUME NEW o \in Operations, EndMutation(o) PROVE Goal
  <2>1. PICK state \in NextStates(o) :
          /\ opAt' = [opAt EXCEPT ![o] =
                        IF state \in {"starting", "running"} THEN state ELSE "over"]
          /\ IF opAt[o] = "new" \/ seen[o] # "none"
             THEN /\ ledger' = [seen EXCEPT ![o] = state]
                  /\ torn' = FALSE /\ handles' = {}
                  /\ overlap' = (overlap \/ \E g \in Gates :
                                               gateAt[g] \in {"reap", "truncated"})
             ELSE UNCHANGED <<ledger, torn, handles, overlap>>
    BY <1>2 DEF EndMutation
  <2>2. ~overlap
    <3>1. CASE opAt[o] = "new" \/ seen[o] # "none"
      <4>1. overlap' = (overlap \/ \E g \in Gates : gateAt[g] \in {"reap", "truncated"})
        BY <2>1, <3>1
      <4> QED
        BY <4>1, Zenon
    <3>2. CASE ~(opAt[o] = "new" \/ seen[o] # "none")
      BY <2>1, <3>2
    <3> QED
      BY <3>1, <3>2
  <2>3. /\ mutating # {} /\ mutating' = {} /\ UNCHANGED <<stale, gateAt, plan>>
    BY <1>2 DEF EndMutation
  <2>4. ~torn /\ seen = ledger /\ Tells(ledger) /\ PlansTell
    BY <2>2, <2>3 DEF GateInv, FileTells, MutationIsFresh
  <2>5. seen \in [Operations -> RecordStates]
    BY <1>0 DEF GateTypeOK, Ledgers
  <2>6. \A q \in Operations : q # o => opAt'[q] = opAt[q]
    BY <1>0, <2>1 DEF GateTypeOK
  <2>7. opAt'[o] = IF state \in {"starting", "running"} THEN state ELSE "over"
    BY <1>0, <2>1 DEF GateTypeOK
  <2>8. CASE opAt[o] = "new" \/ seen[o] # "none"
    <3>1. ledger' = [seen EXCEPT ![o] = state]
      BY <2>1, <2>8
    <3>2. ~\E g \in Gates : gateAt[g] \in {"reap", "truncated"}
      <4>1. overlap' = (overlap \/ \E g \in Gates : gateAt[g] \in {"reap", "truncated"})
        BY <2>1, <2>8
      <4> QED
        BY <4>1, Zenon
    <3>3. FileTells'
      BY <2>3, <2>4, <2>5, <2>6, <2>7, <3>1 DEF FileTells, Tells
    <3>4. PlansTell'
      BY <2>3, <3>2 DEF PlansTell
    <3> QED
      BY <2>3, <3>3, <3>4 DEF MutationIsFresh
  <2>9. CASE ~(opAt[o] = "new" \/ seen[o] # "none")
    <3>1. opAt[o] # "starting" /\ opAt[o] # "new"
      BY <2>4, <2>9 DEF Tells
    <3>2. state \in {"none", "failed"}
      BY <1>0, <2>1, <3>1, NextStatesFacts
    <3>3. opAt'[o] = "over" /\ UNCHANGED <<ledger, torn>>
      BY <2>1, <2>7, <2>9, <3>2
    <3>4. ASSUME NEW records, Tells(records) PROVE
            \A q \in Operations : /\ opAt'[q] = "starting" => records[q] = "starting"
                                  /\ opAt'[q] = "running" /\ q \notin stale' => records[q] = "running"
      BY <2>3, <2>6, <3>3, <3>4 DEF Tells
    <3> QED
      BY <2>3, <2>4, <3>3, <3>4 DEF FileTells, PlansTell, MutationIsFresh, Tells
  <2> QED
    BY <2>8, <2>9
<1>3. ASSUME NEW o \in Operations, OperationDies(o) PROVE Goal
  <2>1. /\ opAt' = [opAt EXCEPT ![o] = "dead"] /\ mutating' = mutating \ {o}
        /\ seen' = IF o \in mutating THEN NoLedger ELSE seen
        /\ UNCHANGED <<ledger, torn, stale, gateAt, plan, overlap>>
    BY <1>3 DEF OperationDies
  <2>2. FileTells /\ MutationIsFresh /\ PlansTell
    BY <2>1 DEF GateInv
  <2>3. \A q \in Operations : opAt'[q] # "dead" => opAt'[q] = opAt[q]
    BY <1>0, <2>1 DEF GateTypeOK
  <2>4. MutationIsFresh'
    BY <1>0, <2>1, <2>2 DEF MutationIsFresh, OneMutates
  <2> QED
    BY <2>1, <2>2, <2>3, <2>4 DEF FileTells, PlansTell, Tells
<1>4. ASSUME NEW o \in Operations, RecordAges(o) PROVE Goal
  BY <1>4 DEF RecordAges, GateInv, FileTells, MutationIsFresh, PlansTell, Tells
<1>5. ASSUME NEW g \in Gates, ReapRead(g) PROVE Goal
  <2>1. UNCHANGED <<ledger, torn, opAt, seen, mutating, stale, overlap>>
    BY <1>5 DEF ReapRead, opVars
  <2>2. FileTells /\ MutationIsFresh /\ PlansTell
    BY <2>1 DEF GateInv
  <2>3. CASE /\ ~torn /\ GateGoto(g, "idle", "reap")
             /\ plan' = [plan EXCEPT ![g] = [o \in Operations |->
                          IF o \in Reapable THEN "abandoned" ELSE ledger[o]]]
    <3>1. \A h \in Gates : h # g => gateAt'[h] = gateAt[h] /\ plan'[h] = plan[h]
      BY <1>0, <2>3 DEF GateTypeOK, GateGoto
    <3>2. \A o \in Operations : plan'[g][o] = IF o \in Reapable THEN "abandoned" ELSE ledger[o]
      BY <1>0, <2>3 DEF GateTypeOK
    <3>3. \A o \in Operations : o \in Reapable => o \in stale /\ ledger[o] = "running"
      BY DEF Reapable
    <3>4. \A o \in Operations : /\ opAt[o] = "starting" => plan'[g][o] = "starting"
                                /\ opAt[o] = "running" /\ o \notin stale => plan'[g][o] = "running"
      BY <2>2, <2>3, <3>2, <3>3 DEF FileTells, Tells
    <3> QED
      BY <2>1, <2>2, <3>1, <3>4 DEF FileTells, MutationIsFresh, PlansTell, Tells
  <2>4. CASE GateGoto(g, "idle", "list") /\ UNCHANGED plan
    <3>1. \A h \in Gates : gateAt'[h] \in {"reap", "truncated"} => gateAt[h] = gateAt'[h]
      BY <1>0, <2>4 DEF GateTypeOK, GateGoto
    <3> QED
      BY <2>1, <2>2, <2>4, <3>1 DEF FileTells, MutationIsFresh, PlansTell, Tells
  <2> QED
    BY <1>5, <2>3, <2>4 DEF ReapRead
<1>6. ASSUME NEW g \in Gates, ReapOpen(g) PROVE Goal
  <2>1. overlap' = (overlap \/ mutating # {})
    BY <1>6 DEF ReapOpen
  <2>2. ~overlap /\ mutating = {}
    BY <2>1, Zenon
  <2>3. /\ gateAt[g] = "reap" /\ torn' = TRUE /\ UNCHANGED <<opAt, mutating, stale, plan>>
        /\ \A h \in Gates : h # g => gateAt'[h] = gateAt[h]
    BY <1>0, <1>6 DEF ReapOpen, GateGoto, opVars, GateTypeOK
  <2>4. PlansTell
    BY <2>2 DEF GateInv
  <2>5. PlansTell'
    BY <2>3, <2>4 DEF PlansTell, Tells
  <2> QED
    BY <2>2, <2>3, <2>5 DEF FileTells, MutationIsFresh
<1>7. ASSUME NEW g \in Gates, ReapWrite(g) PROVE Goal
  <2>1. overlap' = (overlap \/ mutating # {})
    BY <1>7 DEF ReapWrite
  <2>2. ~overlap /\ mutating = {}
    BY <2>1, Zenon
  <2>3. /\ gateAt[g] = "truncated" /\ gateAt'[g] = "list" /\ UNCHANGED <<opAt, mutating, stale>>
        /\ \A h \in Gates : h # g => gateAt'[h] = gateAt[h] /\ plan'[h] = plan[h]
        /\ ledger' = plan[g] \/ torn' = TRUE \/ UNCHANGED <<ledger, torn>>
    BY <1>0, <1>7 DEF ReapWrite, GateGoto, opVars, GateTypeOK
  <2>4. PlansTell /\ FileTells
    BY <2>2 DEF GateInv
  <2>5. Tells(plan[g])
    BY <2>3, <2>4 DEF PlansTell
  <2>6. PlansTell'
    BY <2>3, <2>4 DEF PlansTell, Tells
  <2>7. FileTells'
    BY <2>3, <2>4, <2>5 DEF FileTells, Tells
  <2> QED
    BY <2>2, <2>3, <2>6, <2>7 DEF MutationIsFresh
<1>8. ASSUME NEW g \in Gates, ReapFails(g) \/ FindRunning(g) PROVE Goal
  <2>1. /\ UNCHANGED <<ledger, torn, opAt, seen, mutating, stale, overlap>>
        /\ \A h \in Gates : gateAt'[h] \in {"reap", "truncated"} =>
              gateAt[h] = gateAt'[h] /\ plan'[h] = plan[h]
    BY <1>0, <1>8 DEF ReapFails, FindRunning, GateGoto, opVars, GateTypeOK
  <2>2. FileTells /\ MutationIsFresh /\ PlansTell
    BY <2>1 DEF GateInv
  <2> QED
    BY <2>1, <2>2 DEF FileTells, MutationIsFresh, PlansTell, Tells
<1>9. CASE UNCHANGED gateVars
  BY <1>9 DEF gateVars, opVars, GateInv, FileTells, MutationIsFresh, PlansTell, Tells
<1> QED
  BY <1>1, <1>2, <1>3, <1>4, <1>5, <1>6, <1>7, <1>8, <1>9
  DEF GateNext, GateNextOf, GateStep

LEMMA GateInvInit == GateInit => GateInv
<1> SUFFICES ASSUME GateInit PROVE GateInv
  OBVIOUS
<1>1. GateTypeOK
  <2>1. 0 \in 0..MaxGateFaults
    BY GateAssumption
  <2>2. torn \in BOOLEAN /\ overlap \in BOOLEAN
    BY Zenon DEF GateInit
  <2> QED
    BY <2>1, <2>2, LedgerFacts DEF GateInit, GateTypeOK
<1> QED
  BY <1>1 DEF GateInit, GateInv, OneMutates, FileTells, MutationIsFresh, PlansTell, Tells

(* For any operations and gates: a running operation younger than the      *)
(* threshold keeps its running record, as long as the file is not torn and *)
(* no rewrite by a gate has overlapped a mutation of the registry. What is *)
(* said is that the reap's own decision takes no live record, also when it *)
(* fails half-way.                                                         *)
THEOREM RunningRecordsAreKept == GateSpec => []GateSafe
<1>1. GateInv => GateSafe
  BY DEF GateInv, GateSafe, RunningKeepsRecord, FileTells, Tells
<1> QED
  BY <1>1, GateInvInit, GateInvNext, PTL DEF GateSpec

-----------------------------------------------------------------------------
(* The Access of a tracked run.                                            *)

Procs == Strangers \cup {"own", "gone"}
Over == runAt \in {"ended", "dead"}

\* The run's Access has come and gone: it is started once.
OwnIsGone == opened /\ occupant # "own"

CallLocals ==
    [at : {"idle", "gate", "inspect", "kill", "verify", "mark", "retire", "unlist", "attribute",
           "create", "failed", "cleaned", "retired", "killed"},
     op : Orphans \cup {TrackedRun}, start : 0..3, line : {"none", "bare", "path"},
     target : Procs \cup {"none"}, clear : BOOLEAN]

TrackedTypes ==
    /\ occupant \in Procs /\ registry \in Seq(OperationRecord)
    /\ marker \in Markers /\ polled \in Markers
    /\ runAt \in {"idle", "executing", "stopping", "reaping", "killing", "finishing", "ended", "dead"}
    /\ poll \in {"idle", "write"} /\ opened \in BOOLEAN
    /\ outcome \in {"completed", "failed", "timed_out"}
    /\ reap \in [result : {"none", "not_recorded", "exited", "killed", "refused",
                           "inspect_failed", "kill_failed"},
                 clear : BOOLEAN, target : Procs]
    /\ call \in [Cleanups \cup Orphans -> CallLocals]

\* What a record tells.  A synthetic record of start second 1 goes back to the
\* record of a run that is over, and none is of second 3.
RecordTells(r) ==
    /\ r.start # 3
    /\ r.op = TrackedRun => /\ r.pid => opened
                            /\ r.status \notin LiveStatuses => Over
                            /\ r.status = "starting" => ~r.pid
    /\ r.op # TrackedRun => /\ r.status = "cleanup_pending"
                            /\ r.start = 1 => Over /\ opened
RecordsTell == \A r \in Records : RecordTells(r)

\* What a call of cleanup_access_operation knows of its target.
CleanupKnows(c) ==
    LET l == call[c] IN
    /\ l.at \in {"gate", "inspect"} => l.start # 3
    /\ l.at \in {"gate", "inspect", "kill", "verify"} /\ l.op = TrackedRun => opened
    /\ l.at = "gate" => l.op = TrackedRun
    /\ l.at = "inspect" /\ l.clear /\ l.start = 1 => Over \/ OwnIsGone
    /\ l.at = "kill" => /\ l.target \notin {"later", "shown"}
                        /\ l.target = "own" /\ l.clear => Over
    /\ l.at \in {"mark", "cleaned"} /\ l.op = TrackedRun /\ l.clear => OwnIsGone

\* What a call of access_force_cleanup_orphaned knows.
OrphanKnows(c) ==
    LET l == call[c]
        p == ProcessInfo(l.target)
    IN
    /\ l.at = "attribute" =>
         /\ IsAccess(p) /\ p.headless /\ l.start \in {0, p.second}
         /\ l.line \in {p.line, "none"} /\ (l.clear => l.start = p.second)
    /\ l.at \in {"create", "kill"} =>
         /\ l.target \notin {"later", "shown"} /\ l.start # 3
         /\ l.start = 1 => Over /\ opened
         /\ l.target = "own" /\ l.clear => l.start = 1
CallsKnow == (\A c \in Cleanups : CleanupKnows(c)) /\ (\A c \in Orphans : OrphanKnows(c))

\* Some call has taken the run's record away.
Taken == \E c \in Cleanups : call[c].at \in {"cleaned", "retired"}

RunKnows ==
    /\ occupant = "own" => opened
    /\ runAt = "idle" => ~opened
    /\ marker.pid => opened
    /\ polled.pid => opened
    /\ poll = "write" => runAt \in {"executing", "stopping"} /\ polled.pid
    /\ runAt \in {"idle", "executing", "stopping", "reaping", "killing"} => reap.result = "none"
    /\ runAt = "killing" => reap.target \notin {"later", "shown"}
    /\ runAt = "finishing" => reap.result # "none"
    /\ runAt \in {"finishing", "ended"} /\ reap.result = "exited" /\ reap.clear => OwnIsGone
    /\ Driving /\ RecordsOf(TrackedRun) = {} => Taken
    /\ LeakIsExplained

TrackedInv == TrackedTypes /\ RecordsTell /\ CallsKnow /\ RunKnows

LEMMA ProcessFacts ==
  /\ \A p \in Procs : IsAccess(ProcessInfo(p)) <=> p \notin {"gone", "other"}
  /\ ProcessInfo("own").second = 1 /\ ProcessInfo("own").line = "bare"
  /\ ProcessInfo("twin").second = 1 /\ ProcessInfo("twin").line = "bare"
  /\ ProcessInfo("later").second = 3 /\ ProcessInfo("later").line = "bare"
  /\ ProcessInfo("named").second = 2
  /\ ProcessInfo("shown").second = 3 /\ ProcessInfo("shown").headless = FALSE
BY DEF ProcessInfo, IsAccess, Procs, Strangers

LEMMA ProcessTypes ==
  \A p \in Procs : ProcessInfo(p) \in [name : {"MSACCESS.EXE", "none"}, second : 0..3,
                                       line : {"none", "bare", "path"}, headless : BOOLEAN]
BY DEF ProcessInfo, Procs, Strangers

(* What an answer of the inspector tells of the process that has the pid.  *)
LEMMA InspectFacts ==
  ASSUME occupant \in Procs, NEW info, NEW clear \in BOOLEAN, GetProcess(info, clear)
  PROVE  LET p == ProcessInfo(occupant) IN
         /\ info.second \in 0..3 /\ info.line \in {"none", "bare", "path"}
         /\ IsAccess(info) => /\ IsAccess(p) /\ info.headless = p.headless
                              /\ info.second \in {0, p.second} /\ info.line \in {p.line, "none"}
                              /\ clear => info.second = p.second
         /\ clear /\ IsAccess(p) => IsAccess(info) /\ info.second = p.second
         /\ ~IsAccess(NoProcess)
<1> DEFINE p == ProcessInfo(occupant)
           slow == [p EXCEPT !.name = "MSACCESS", !.line = "none"]
<1>1. /\ p \in [name : {"MSACCESS.EXE", "none"}, second : 0..3,
                line : {"none", "bare", "path"}, headless : BOOLEAN]
      /\ NoProcess = [name |-> "none", second |-> 0, line |-> "none", headless |-> FALSE]
  BY ProcessTypes DEF NoProcess, ProcessInfo
<1>2. /\ ~IsAccess(NoProcess) /\ NoProcess.second = 0 /\ NoProcess.line = "none" /\ 0 \in 0..3
      /\ p.second \in 0..3 /\ p.line \in {"none", "bare", "path"}
  BY <1>1 DEF IsAccess
<1>3. CASE ~IsAccess(p)
  <2>1. info = NoProcess
    BY <1>3 DEF GetProcess
  <2> QED
    BY <1>2, <1>3, <2>1
<1>4. CASE IsAccess(p) /\ clear
  <2>1. info \in {p, [p EXCEPT !.line = "none"]}
    BY <1>4 DEF GetProcess, Complete
  <2> QED
    BY <1>1, <1>2, <1>4, <2>1 DEF IsAccess
<1>5. CASE IsAccess(p) /\ ~clear
  <2>1. info \in {NoProcess, slow, [p EXCEPT !.second = 0]}
    BY <1>5 DEF GetProcess, Degraded
  <2>2. /\ slow.second = p.second /\ slow.line = "none" /\ ~IsAccess(slow)
        /\ [p EXCEPT !.second = 0].second = 0 /\ [p EXCEPT !.second = 0].line = p.line
        /\ [p EXCEPT !.second = 0].headless = p.headless
    BY <1>1 DEF IsAccess
  <2> DEFINE unknown == [p EXCEPT !.second = 0]
  <2>3. info \in {NoProcess, slow, unknown}
    BY <2>1
  <2>4. /\ unknown.second = 0 /\ unknown.line = p.line /\ unknown.headless = p.headless
    BY <2>2
  <2> HIDE DEF slow, unknown
  <2> QED
    BY <1>2, <1>5, <2>2, <2>3, <2>4
<1> QED
  BY <1>3, <1>4, <1>5

(* The records of a sequence, and what an update makes of them.            *)
LEMMA OthersShape ==
  ASSUME registry \in Seq(OperationRecord), NEW op, RecordsOf(op) # {}
  PROVE  \E i \in 1..Len(registry) :
           /\ registry[i].op = op
           /\ Others(op) \in Seq(OperationRecord) /\ DOMAIN Others(op) = 1..Len(registry) - 1
           /\ \A j \in 1..Len(registry) - 1 :
                Others(op)[j] = IF j < i THEN registry[j] ELSE registry[j + 1]
<1> DEFINE i == CHOOSE i \in DOMAIN registry : registry[i].op = op
           n == Len(registry)
           before == SubSeq(registry, 1, i - 1)
           after == SubSeq(registry, i + 1, n)
<1>1. i \in DOMAIN registry /\ registry[i].op = op
  BY DEF RecordsOf, Records
<1>2. n \in Nat /\ DOMAIN registry = 1..n /\ i \in 1..n
  BY <1>1
<1> HIDE DEF i, n
<1>3. /\ before \in Seq(OperationRecord) /\ Len(before) = i - 1
      /\ \A j \in 1..i - 1 : before[j] = registry[j]
  <2>1. \A j \in 1..i - 1 : registry[j] \in OperationRecord
    BY <1>2
  <2> QED
    BY <1>2, <2>1, SubSeqProperties DEF before
<1>4. /\ after \in Seq(OperationRecord) /\ Len(after) = n - i
      /\ \A j \in 1..n - i : after[j] = registry[i + j]
  <2>1. \A j \in i + 1..n : registry[j] \in OperationRecord
    BY <1>2
  <2>2. /\ after \in Seq(OperationRecord)
        /\ Len(after) = IF i + 1 <= n THEN n - (i + 1) + 1 ELSE 0
        /\ \A j \in 1..n - (i + 1) + 1 : after[j] = registry[(i + 1) + j - 1]
    BY <1>2, <2>1, SubSeqProperties
  <2>3. n - (i + 1) + 1 = n - i /\ \A j \in 1..n - i : (i + 1) + j - 1 = i + j
    BY <1>2
  <2> QED
    BY <1>2, <2>2, <2>3
<1>5. Others(op) = before \o after
  BY DEF Others, i, n
<1> HIDE DEF before, after
<1>6. /\ Others(op) \in Seq(OperationRecord) /\ DOMAIN Others(op) = 1..n - 1
      /\ \A j \in 1..n - 1 : Others(op)[j] = IF j < i THEN registry[j] ELSE registry[j + 1]
  <2>1. /\ Others(op) \in Seq(OperationRecord) /\ Len(Others(op)) = Len(before) + Len(after)
        /\ \A j \in 1..Len(before) + Len(after) :
             Others(op)[j] = IF j <= Len(before) THEN before[j] ELSE after[j - Len(before)]
    <3>1. /\ before \o after \in Seq(OperationRecord) /\ Len(before \o after) = Len(before) + Len(after)
          /\ \A j \in 1..Len(before) + Len(after) :
               (before \o after)[j] = IF j <= Len(before) THEN before[j] ELSE after[j - Len(before)]
      <4>1. before \in Seq(OperationRecord) /\ after \in Seq(OperationRecord)
        BY <1>3, <1>4
      <4> QED
        BY <4>1, ConcatProperties
    <3> QED
      BY <1>5, <3>1
  <2>2. (i - 1) + (n - i) = n - 1
    BY <1>2
  <2>3. ASSUME NEW j \in 1..n - 1
        PROVE  Others(op)[j] = IF j < i THEN registry[j] ELSE registry[j + 1]
    <3>1. CASE j < i
      <4>1. j \in 1..i - 1 /\ j <= i - 1
        BY <1>2, <3>1
      <4> QED
        BY <1>3, <1>4, <2>1, <2>2, <3>1, <4>1
    <3>2. CASE ~(j < i)
      <4>1. ~(j <= i - 1) /\ j - (i - 1) \in 1..n - i /\ i + (j - (i - 1)) = j + 1
        BY <1>2, <3>2
      <4> QED
        BY <1>3, <1>4, <2>1, <2>2, <3>2, <4>1
    <3> QED
      BY <3>1, <3>2
  <2> QED
    BY <1>2, <1>3, <1>4, <2>1, <2>2, <2>3
<1> QED
  BY <1>1, <1>2, <1>6 DEF n

LEMMA OthersFacts ==
  ASSUME registry \in Seq(OperationRecord), NEW op, RecordsOf(op) # {}
  PROVE  /\ Others(op) \in Seq(OperationRecord) /\ Range(Others(op)) \subseteq Records
         /\ \A r \in Records : r.op # op => r \in Range(Others(op))
<1> DEFINE n == Len(registry)
<1>1. n \in Nat /\ DOMAIN registry = 1..n
  OBVIOUS
<1>6. PICK i \in 1..n :
        /\ registry[i].op = op
        /\ Others(op) \in Seq(OperationRecord) /\ DOMAIN Others(op) = 1..n - 1
        /\ \A j \in 1..n - 1 : Others(op)[j] = IF j < i THEN registry[j] ELSE registry[j + 1]
  BY OthersShape
<1>2. n \in Nat /\ DOMAIN registry = 1..n /\ i \in 1..n
  BY <1>1
<1> HIDE DEF n
<1>7. ASSUME NEW r \in Records, r.op # op PROVE r \in Range(Others(op))
  <2>1. PICK j \in 1..n : r = registry[j]
    BY <1>2 DEF Records
  <2>2. j # i
    BY <1>6, <1>7, <2>1
  <2>3. CASE j < i
    BY <1>2, <1>6, <2>1, <2>3 DEF Range
  <2>4. CASE j > i
    <3>1. j - 1 \in 1..n - 1 /\ ~(j - 1 < i) /\ (j - 1) + 1 = j
      BY <1>2, <2>4
    <3> QED
      BY <1>6, <2>1, <3>1 DEF Range
  <2> QED
    BY <1>2, <2>2, <2>3, <2>4
<1>8. \A j \in 1..n - 1 : j \in 1..n /\ j + 1 \in 1..n
  BY <1>2
<1>9. Range(Others(op)) \subseteq Records
  BY <1>2, <1>6, <1>8 DEF Range, Records
<1> QED
  BY <1>6, <1>7, <1>9

LEMMA AppendFacts ==
  ASSUME NEW s \in Seq(OperationRecord), NEW r \in OperationRecord
  PROVE  Append(s, r) \in Seq(OperationRecord) /\ Range(Append(s, r)) = Range(s) \cup {r}
<1>1. /\ Append(s, r) \in Seq(OperationRecord) /\ Len(s) \in Nat /\ DOMAIN s = 1..Len(s)
      /\ DOMAIN Append(s, r) = 1..Len(s) + 1
      /\ \A i \in 1..Len(s) : Append(s, r)[i] = s[i]
      /\ Append(s, r)[Len(s) + 1] = r
  OBVIOUS
<1>2. 1..Len(s) + 1 = 1..Len(s) \cup {Len(s) + 1}
  BY <1>1
<1> QED
  BY <1>1, <1>2 DEF Range

\* What an update that results in the registry u has done.
UpdateTells(u, op, status, pid, start) ==
    /\ u \in Seq(OperationRecord)
    /\ \A r \in Range(u) :
         \/ r \in Records
         \/ /\ status \notin {"completed", "cleaned"}
            /\ r.op = op /\ r.status = status /\ r.pid = pid /\ r.start = start
    /\ \A r \in Records : r.op # op => r \in Range(u)
    /\ status \notin {"completed", "cleaned"} /\ RecordsOf(op) # {} =>
         \E r \in Range(u) : r.op = op

LEMMA UpdatedFacts ==
  ASSUME registry \in Seq(OperationRecord), NEW op \in Orphans \cup {TrackedRun},
         NEW status \in LiveStatuses \cup EligibleStatuses \cup {"completed", "cleaned"},
         NEW pid \in BOOLEAN, NEW start \in 0..3
  PROVE  UpdateTells(UpdatedRecord(op, status, pid, start), op, status, pid, start)
<1> DEFINE old == CHOOSE r \in RecordsOf(op) : TRUE
           new == [op |-> op, status |-> status, pid |-> pid, start |-> start, line |-> old.line]
<1>1. CASE RecordsOf(op) = {}
  <2>1. UpdatedRecord(op, status, pid, start) = registry
    BY <1>1 DEF UpdatedRecord
  <2> QED
    BY <1>1, <2>1 DEF UpdateTells, Range, Records
<1>2. CASE RecordsOf(op) # {} /\ status \in {"completed", "cleaned"}
  <2>1. UpdatedRecord(op, status, pid, start) = Others(op)
    BY <1>2 DEF UpdatedRecord
  <2> QED
    BY <1>2, <2>1, OthersFacts DEF UpdateTells
<1>3. CASE RecordsOf(op) # {} /\ status \notin {"completed", "cleaned"}
  <2>1. UpdatedRecord(op, status, pid, start) = Append(Others(op), new)
    BY <1>3 DEF UpdatedRecord
  <2>2. old \in RecordsOf(op)
    BY <1>3
  <2> HIDE DEF old
  <2>3. old \in OperationRecord
    BY <2>2 DEF RecordsOf, Records
  <2>4. new \in OperationRecord
    BY <1>3, <2>3 DEF OperationRecord
  <2>5. /\ new.op = op /\ new.status = status /\ new.pid = pid /\ new.start = start
    OBVIOUS
  <2> HIDE DEF new
  <2>6. /\ Append(Others(op), new) \in Seq(OperationRecord)
        /\ Range(Append(Others(op), new)) = Range(Others(op)) \cup {new}
    BY <1>3, <2>4, OthersFacts, AppendFacts
  <2> QED
    BY <1>3, <2>1, <2>5, <2>6, OthersFacts DEF UpdateTells
<1> QED
  BY <1>1, <1>2, <1>3

(* One record per operation.                                               *)
OneEach(records) ==
    \A i, j \in DOMAIN records : records[i].op = records[j].op => i = j

LEMMA OthersOneEach ==
  ASSUME registry \in Seq(OperationRecord), NEW op, RecordsOf(op) # {}, OneEach(registry)
  PROVE  OneEach(Others(op)) /\ \A r \in Range(Others(op)) : r.op # op
<1> DEFINE n == Len(registry)
<1>1. n \in Nat /\ DOMAIN registry = 1..n
  OBVIOUS
<1>2. PICK i \in 1..n :
        /\ registry[i].op = op
        /\ Others(op) \in Seq(OperationRecord) /\ DOMAIN Others(op) = 1..n - 1
        /\ \A j \in 1..n - 1 : Others(op)[j] = IF j < i THEN registry[j] ELSE registry[j + 1]
  BY OthersShape
<1> DEFINE old(j) == IF j < i THEN j ELSE j + 1
<1>3. ASSUME NEW j \in 1..n - 1
      PROVE  old(j) \in 1..n /\ old(j) # i /\ Others(op)[j] = registry[old(j)]
  BY <1>1, <1>2
<1>4. ASSUME NEW j \in 1..n - 1, NEW k \in 1..n - 1, old(j) = old(k) PROVE j = k
  BY <1>1, <1>4
<1> HIDE DEF n, old
<1>5. ASSUME NEW j \in 1..n - 1, NEW k \in 1..n - 1, Others(op)[j].op = Others(op)[k].op
      PROVE  j = k
  BY <1>1, <1>3, <1>4, <1>5 DEF OneEach
<1>6. ASSUME NEW j \in 1..n - 1 PROVE Others(op)[j].op # op
  BY <1>1, <1>2, <1>3 DEF OneEach
<1> QED
  BY <1>2, <1>5, <1>6 DEF OneEach, Range

LEMMA AppendOneEach ==
  ASSUME NEW s \in Seq(OperationRecord), NEW r \in OperationRecord, OneEach(s),
         \A q \in Range(s) : q.op # r.op
  PROVE  OneEach(Append(s, r))
<1>1. /\ Len(s) \in Nat /\ DOMAIN s = 1..Len(s) /\ DOMAIN Append(s, r) = 1..Len(s) + 1
      /\ \A i \in 1..Len(s) : Append(s, r)[i] = s[i]
      /\ Append(s, r)[Len(s) + 1] = r
  OBVIOUS
<1>2. ASSUME NEW i \in 1..Len(s) + 1 PROVE i \in 1..Len(s) \/ i = Len(s) + 1
  BY <1>1
<1>3. \A i \in 1..Len(s) : s[i].op # r.op
  BY <1>1 DEF Range
<1> QED
  BY <1>1, <1>2, <1>3 DEF OneEach

(* An update keeps one record per operation and brings none for an         *)
(* operation that has none.                                                *)
LEMMA UpdatedOneEach ==
  ASSUME registry \in Seq(OperationRecord), OneEach(registry),
         NEW op \in Orphans \cup {TrackedRun},
         NEW status \in LiveStatuses \cup EligibleStatuses \cup {"completed", "cleaned"},
         NEW pid \in BOOLEAN, NEW start \in 0..3,
         registry' = UpdatedRecord(op, status, pid, start)
  PROVE  /\ OneEach(registry')
         /\ \A o : RecordsOf(o) = {} => RecordsOf(o)' = {}
<1> DEFINE old == CHOOSE r \in RecordsOf(op) : TRUE
           new == [op |-> op, status |-> status, pid |-> pid, start |-> start, line |-> old.line]
<1>1. OneEach(registry')
  <2>1. CASE RecordsOf(op) = {}
    BY <2>1 DEF UpdatedRecord
  <2>2. CASE RecordsOf(op) # {} /\ status \in {"completed", "cleaned"}
    BY <2>2, OthersOneEach DEF UpdatedRecord
  <2>3. CASE RecordsOf(op) # {} /\ status \notin {"completed", "cleaned"}
    <3>1. registry' = Append(Others(op), new)
      BY <2>3 DEF UpdatedRecord
    <3>2. old \in RecordsOf(op)
      BY <2>3
    <3> HIDE DEF old
    <3>3. old \in OperationRecord
      BY <3>2 DEF RecordsOf, Records
    <3>4. new \in OperationRecord /\ new.op = op
      BY <2>3, <3>3 DEF OperationRecord
    <3> HIDE DEF new
    <3> QED
      BY <2>3, <3>1, <3>4, OthersFacts, OthersOneEach, AppendOneEach
  <2> QED
    BY <2>1, <2>2, <2>3
<1>2. ASSUME NEW o, RecordsOf(o) = {} PROVE RecordsOf(o)' = {}
  <2>1. Records' = Range(registry')
    BY DEF Records, Range
  <2>2. CASE RecordsOf(op) = {}
    BY <1>2, <2>2 DEF UpdatedRecord, RecordsOf, Records
  <2>3. CASE RecordsOf(op) # {}
    <3>1. op # o
      BY <1>2, <2>3
    <3>2. UpdateTells(registry', op, status, pid, start)
      BY UpdatedFacts
    <3>3. \A r \in Range(registry') : r \in Records \/ r.op = op
      BY <3>2 DEF UpdateTells
    <3> QED
      BY <1>2, <2>1, <3>1, <3>3 DEF RecordsOf
  <2> QED
    BY <2>2, <2>3
<1> QED
  BY <1>1, <1>2

(* What never comes back: the end of the run, the start of its Access and  *)
(* the end of that Access.                                                 *)
Progress ==
    /\ Over => Over'
    /\ opened => opened'
    /\ OwnIsGone => OwnIsGone'

LEMMA KnownStays ==
  ASSUME RecordsTell, CallsKnow, Progress
  PROVE  /\ \A r \in Records : RecordTells(r)'
         /\ \A c \in Cleanups : call'[c] = call[c] => CleanupKnows(c)'
         /\ \A c \in Orphans : call'[c] = call[c] => OrphanKnows(c)'
<1>1. ASSUME NEW r \in Records PROVE RecordTells(r)'
  BY DEF RecordsTell, RecordTells, Progress
<1>2. ASSUME NEW c \in Cleanups, call'[c] = call[c] PROVE CleanupKnows(c)'
  <2>1. CleanupKnows(c)
    BY DEF CallsKnow
  <2> QED
    BY <1>2, <2>1 DEF CleanupKnows, Progress
<1>3. ASSUME NEW c \in Orphans, call'[c] = call[c] PROVE OrphanKnows(c)'
  <2>1. OrphanKnows(c)
    BY DEF CallsKnow
  <2> QED
    BY <1>3, <2>1 DEF OrphanKnows, Progress
<1> QED
  BY <1>1, <1>2, <1>3

LEMMA RecordsTellStep ==
  ASSUME RecordsTell, CallsKnow, Progress,
         \A r \in Records' : r \in Records \/ RecordTells(r)'
  PROVE  RecordsTell'
BY KnownStays DEF RecordsTell

(* The other calls keep their local states.                                *)
CallsStay(c) ==
    /\ call' \in [Cleanups \cup Orphans -> CallLocals]
    /\ \A d \in Cleanups \cup Orphans : d # c => call'[d] = call[d]

LEMMA CallsKnowStep ==
  ASSUME RecordsTell, CallsKnow, Progress, NEW c \in Cleanups \cup Orphans, CallsStay(c),
         c \in Cleanups => CleanupKnows(c)', c \in Orphans => OrphanKnows(c)'
  PROVE  CallsKnow'
<1>1. ASSUME NEW d \in Cleanups PROVE CleanupKnows(d)'
  BY KnownStays DEF CallsStay
<1>2. ASSUME NEW d \in Orphans PROVE OrphanKnows(d)'
  BY KnownStays DEF CallsStay
<1> QED
  BY <1>1, <1>2 DEF CallsKnow

(* A step that is not one of the run's own.                                *)
LEMMA RunKnowsStep ==
  ASSUME TrackedTypes, RunKnows, UNCHANGED runVars, occupant' = occupant \/ occupant' # "own",
         Taken => Taken',
         RecordsOf(TrackedRun)' = {} => RecordsOf(TrackedRun) = {} \/ Taken'
  PROVE  Progress /\ RunKnows'
<1>1. UNCHANGED <<marker, runAt, poll, polled, outcome, opened, reap>>
  BY DEF runVars
<1>2. OwnIsGone => OwnIsGone'
  BY <1>1 DEF OwnIsGone
<1>3. Progress
  BY <1>1, <1>2 DEF Progress, Over
<1>4. Driving' = Driving
  BY <1>1 DEF Driving
<1>5. LeakIsExplained'
  BY <1>1 DEF LeakIsExplained, RunKnows, Taken
<1>6. (Driving /\ RecordsOf(TrackedRun) = {} => Taken)'
  BY <1>4 DEF RunKnows
<1>7. /\ (occupant = "own" => opened)' /\ (runAt = "idle" => ~opened)'
      /\ (marker.pid => opened)' /\ (polled.pid => opened)'
      /\ (poll = "write" => runAt \in {"executing", "stopping"} /\ polled.pid)'
      /\ (runAt \in {"idle", "executing", "stopping", "reaping", "killing"} => reap.result = "none")'
      /\ (runAt = "killing" => reap.target \notin {"later", "shown"})'
      /\ (runAt = "finishing" => reap.result # "none")'
      /\ (runAt \in {"finishing", "ended"} /\ reap.result = "exited" /\ reap.clear => OwnIsGone)'
  BY <1>1, <1>2 DEF RunKnows
<1> QED
  BY <1>3, <1>5, <1>6, <1>7 DEF RunKnows

LEMMA NoCallLocals == NoCall \in CallLocals
BY DEF NoCall, CallLocals

(* What Becomes makes of the local state of a call.                        *)
LEMMA BecomesLocals ==
  ASSUME call \in [Cleanups \cup Orphans -> CallLocals], NEW c \in Cleanups \cup Orphans,
         NEW l \in CallLocals, Becomes(c, l)
  PROVE  /\ CallsStay(c) /\ call'[c].at = l.at
         /\ l.at \notin {"failed", "retired", "killed", "cleaned"} => call'[c] = l
         /\ l.at = "cleaned" => call'[c].op = l.op /\ call'[c].clear = l.clear
<1> DEFINE over == [NoCall EXCEPT !.at = l.at]
           cleaned == [NoCall EXCEPT !.at = "cleaned", !.op = l.op, !.clear = l.clear]
           new == CASE l.at \in {"failed", "retired", "killed"} -> over
                    [] l.at = "cleaned" -> cleaned
                    [] OTHER -> l
<1>1. over \in CallLocals /\ over.at = l.at
  BY NoCallLocals DEF CallLocals
<1>2. cleaned \in CallLocals /\ cleaned.at = "cleaned" /\ cleaned.op = l.op /\ cleaned.clear = l.clear
  BY NoCallLocals DEF CallLocals
<1>3. call' = [call EXCEPT ![c] = new]
  BY DEF Becomes
<1> HIDE DEF over, cleaned
<1>4. /\ new \in CallLocals /\ new.at = l.at
      /\ l.at \notin {"failed", "retired", "killed", "cleaned"} => new = l
      /\ l.at = "cleaned" => new.op = l.op /\ new.clear = l.clear
  BY <1>1, <1>2
<1> HIDE DEF new
<1> QED
  BY <1>3, <1>4 DEF CallsStay

(* A call that goes on to another point with its local variables.          *)
LEMMA GotoLocals ==
  ASSUME TrackedTypes, NEW c \in Cleanups \cup Orphans,
         NEW to \in {"kill", "verify", "mark", "create", "unlist", "failed", "retired", "killed",
                     "cleaned"},
         CallGoto(c, to)
  PROVE  /\ CallsStay(c) /\ call'[c].at = to
         /\ to \in {"kill", "verify", "mark", "create"} =>
              /\ call'[c].op = call[c].op /\ call'[c].start = call[c].start
              /\ call'[c].target = call[c].target /\ call'[c].clear = call[c].clear
         /\ to = "cleaned" => call'[c].op = call[c].op /\ call'[c].clear = call[c].clear
<1> DEFINE l == [call[c] EXCEPT !.at = to]
<1>1. call[c] \in CallLocals /\ call \in [Cleanups \cup Orphans -> CallLocals]
  BY DEF TrackedTypes
<1>2. /\ l \in CallLocals /\ l.at = to /\ l.op = call[c].op /\ l.start = call[c].start
      /\ l.target = call[c].target /\ l.clear = call[c].clear
  BY <1>1 DEF CallLocals
<1>3. Becomes(c, l)
  BY DEF CallGoto
<1> HIDE DEF l
<1> QED
  BY <1>1, <1>2, <1>3, BecomesLocals

LEMMA KillFacts ==
  ASSUME NEW returns \in BOOLEAN, Kill(returns), occupant \in Procs
  PROVE  occupant' \in {occupant, "gone"} /\ occupant' \in Procs
<1>1. "gone" \in Procs
  BY DEF Procs
<1>2. occupant' \in {occupant, "gone"}
  BY DEF Kill, world
<1> QED
  BY <1>1, <1>2

(* A step of call c keeps the invariant if it keeps what c knows.          *)
LEMMA CallKeeps ==
  ASSUME TrackedInv, NEW c \in Cleanups \cup Orphans, CallsStay(c), UNCHANGED runVars,
         occupant' \in Procs, occupant' = occupant \/ occupant' # "own",
         registry' \in Seq(OperationRecord), call[c].at \notin {"cleaned", "retired"},
         Progress => \A r \in Records' : r \in Records \/ RecordTells(r)',
         RecordsOf(TrackedRun)' = {} => RecordsOf(TrackedRun) = {} \/ Taken',
         Progress => (c \in Cleanups => CleanupKnows(c)') /\ (c \in Orphans => OrphanKnows(c)')
  PROVE  TrackedInv'
<1>1. Taken => Taken'
  BY DEF Taken, CallsStay
<1>2. Progress /\ RunKnows'
  BY <1>1, RunKnowsStep DEF TrackedInv
<1>3. RecordsTell' /\ CallsKnow'
  BY <1>2, RecordsTellStep, CallsKnowStep DEF TrackedInv
<1>4. TrackedTypes'
  BY DEF TrackedInv, TrackedTypes, CallsStay, runVars
<1> QED
  BY <1>2, <1>3, <1>4 DEF TrackedInv

(* The same when the registry stays as it is.                              *)
LEMMA CallKeepsRegistry ==
  ASSUME TrackedInv, NEW c \in Cleanups \cup Orphans, CallsStay(c), UNCHANGED runVars,
         occupant' \in {occupant, "gone"}, registry' = registry,
         call[c].at \notin {"cleaned", "retired"},
         Progress => (c \in Cleanups => CleanupKnows(c)') /\ (c \in Orphans => OrphanKnows(c)')
  PROVE  TrackedInv'
<1>1. Records' = Records /\ RecordsOf(TrackedRun)' = RecordsOf(TrackedRun)
  BY DEF Records, RecordsOf
<1>2. occupant' \in Procs /\ registry' \in Seq(OperationRecord)
  BY DEF TrackedInv, TrackedTypes, Procs
<1> QED
  BY <1>1, <1>2, CallKeeps

LEMMA FailedKnows ==
  ASSUME NEW c, call'[c].at \in {"failed", "retire", "unlist", "retired", "killed"}
  PROVE  CleanupKnows(c)' /\ OrphanKnows(c)'
BY DEF CleanupKnows, OrphanKnows

LEMMA CleanupReadInv ==
  ASSUME TrackedInv, NEW c \in Cleanups, NEW op \in Orphans \cup {TrackedRun},
         NEW force \in BOOLEAN, CleanupRead(c, op, force)
  PROVE  TrackedInv'
<1>0. /\ TrackedTypes /\ c \in Cleanups \cup Orphans /\ c \notin Orphans
      /\ call \in [Cleanups \cup Orphans -> CallLocals]
  BY TrackedAssumption DEF TrackedInv, TrackedTypes
<1>1. UNCHANGED <<occupant, registry, runVars>> /\ call[c].at = "idle"
  BY DEF CleanupRead, world
<1>2. CASE Fails(c)
  <2>1. CallsStay(c) /\ call'[c].at = "failed"
    BY <1>0, <1>2, GotoLocals DEF Fails
  <2> QED
    BY <1>0, <1>1, <2>1, FailedKnows, CallKeepsRegistry
<1>3. CASE RecordsOf(op) # {}
  <2>1. PICK r \in RecordsOf(op), stale_ \in BOOLEAN :
          Becomes(c, [NoCall EXCEPT !.op = op, !.start = r.start, !.line = r.line,
               !.at = IF r.status = "starting" /\ ~r.pid /\ r.start = 0 /\ stale_ THEN "retire"
                      ELSE IF ~r.pid \/ r.start = 0
                           THEN IF force THEN "retire" ELSE "failed"
                      ELSE IF force /\ r.status = "running" THEN "gate"
                      ELSE IF ~force /\ r.status \notin EligibleStatuses THEN "failed"
                      ELSE "inspect"])
    BY <1>3 DEF CleanupRead
  <2> DEFINE at == IF r.status = "starting" /\ ~r.pid /\ r.start = 0 /\ stale_ THEN "retire"
                      ELSE IF ~r.pid \/ r.start = 0
                           THEN IF force THEN "retire" ELSE "failed"
                      ELSE IF force /\ r.status = "running" THEN "gate"
                      ELSE IF ~force /\ r.status \notin EligibleStatuses THEN "failed"
                      ELSE "inspect"
             l == [NoCall EXCEPT !.op = op, !.start = r.start, !.line = r.line, !.at = at]
  <2>2. r \in Records /\ r.op = op /\ r \in OperationRecord /\ RecordTells(r)
    BY DEF RecordsOf, Records, TrackedInv, TrackedTypes, RecordsTell
  <2>3. /\ at \in {"retire", "failed", "gate", "inspect"}
        /\ at = "gate" => r.pid /\ r.status = "running"
        /\ at = "inspect" => r.pid /\ (r.status \in EligibleStatuses \/ r.status = "starting")
    BY <2>2 DEF OperationRecord, LiveStatuses
  <2> HIDE DEF at
  <2>4. l \in CallLocals /\ l.at = at /\ l.op = op /\ l.start = r.start
    BY <2>2, <2>3, NoCallLocals DEF OperationRecord, CallLocals
  <2>5. Becomes(c, l)
    BY <2>1 DEF at
  <2> HIDE DEF l
  <2>6. CallsStay(c) /\ call'[c].at = at /\ (at # "failed" => call'[c] = l)
    BY <1>0, <2>3, <2>4, <2>5, BecomesLocals
  <2>7. CASE at \in {"retire", "failed"}
    BY <1>0, <1>1, <2>6, <2>7, FailedKnows, CallKeepsRegistry
  <2>8. CASE at = "gate"
    <3>1. op = TrackedRun /\ opened /\ r.start # 3
      BY <2>2, <2>3, <2>8 DEF RecordTells
    <3>2. Progress => CleanupKnows(c)'
      BY <2>4, <2>6, <2>8, <3>1 DEF CleanupKnows, Progress
    <3> QED
      BY <1>0, <1>1, <2>6, <2>8, <3>2, CallKeepsRegistry
  <2>9. CASE at = "inspect"
    <3>1. /\ r.start # 3 /\ (op = TrackedRun => opened)
          /\ r.start = 1 => Over
      BY <2>2, <2>3, <2>9 DEF RecordTells, LiveStatuses, EligibleStatuses
    <3>2. Progress => CleanupKnows(c)'
      BY <2>4, <2>6, <2>9, <3>1 DEF CleanupKnows, Progress
    <3> QED
      BY <1>0, <1>1, <2>6, <2>9, <3>2, CallKeepsRegistry
  <2> QED
    BY <2>3, <2>7, <2>8, <2>9
<1> QED
  BY <1>2, <1>3 DEF CleanupRead

LEMMA CleanupGateInv ==
  ASSUME TrackedInv, NEW c \in Cleanups, CleanupGate(c)
  PROVE  TrackedInv'
<1>0. /\ TrackedTypes /\ c \in Cleanups \cup Orphans /\ c \notin Orphans /\ occupant \in Procs
      /\ call \in [Cleanups \cup Orphans -> CallLocals] /\ call[c] \in CallLocals
  BY TrackedAssumption DEF TrackedInv, TrackedTypes
<1>1. UNCHANGED <<occupant, registry, runVars>> /\ call[c].at = "gate"
  BY DEF CleanupGate, world
<1>2. CASE Fails(c)
  <2>1. CallsStay(c) /\ call'[c].at = "failed"
    BY <1>0, <1>2, GotoLocals DEF Fails
  <2> QED
    BY <1>0, <1>1, <2>1, FailedKnows, CallKeepsRegistry
<1>3. ASSUME NEW info, NEW clear \in BOOLEAN, GetProcess(info, clear),
             Becomes(c, [call[c] EXCEPT !.clear = clear,
                  !.at = IF IsAccess(info) /\ SameProcessStartTime(info.second, call[c].start)
                         THEN "failed" ELSE "inspect"])
      PROVE  TrackedInv'
  <2> DEFINE at == IF IsAccess(info) /\ SameProcessStartTime(info.second, call[c].start)
                   THEN "failed" ELSE "inspect"
             l == [call[c] EXCEPT !.clear = clear, !.at = at]
  <2>1. at \in {"failed", "inspect"}
    OBVIOUS
  <2>2. l \in CallLocals /\ l.at = at /\ l.op = call[c].op /\ l.start = call[c].start /\ l.clear = clear
    BY <1>0, <2>1 DEF CallLocals
  <2>3. Becomes(c, l)
    BY <1>3
  <2> HIDE DEF l
  <2>4. CallsStay(c) /\ call'[c].at = at /\ (at # "failed" => call'[c] = l)
    BY <1>0, <2>1, <2>2, <2>3, BecomesLocals
  <2>5. CASE at = "failed"
    BY <1>0, <1>1, <2>4, <2>5, FailedKnows, CallKeepsRegistry
  <2>6. CASE at = "inspect"
    <3>1. call[c].op = TrackedRun /\ opened /\ call[c].start # 3
      BY <1>1 DEF TrackedInv, CallsKnow, CleanupKnows
    <3>2. clear /\ call[c].start = 1 => occupant # "own"
      <4> SUFFICES ASSUME clear, call[c].start = 1, occupant = "own" PROVE FALSE
        OBVIOUS
      <4>1. IsAccess(ProcessInfo("own")) /\ ProcessInfo("own").second = 1
        BY <1>0, ProcessFacts
      <4>2. IsAccess(info) /\ info.second = 1
        BY <1>0, <1>3, <4>1, InspectFacts
      <4> QED
        BY <2>6, <4>2 DEF SameProcessStartTime
    <3>3. Progress => CleanupKnows(c)'
      BY <2>2, <2>4, <2>6, <3>1, <3>2 DEF CleanupKnows, Progress, OwnIsGone
    <3> QED
      BY <1>0, <1>1, <2>4, <2>6, <3>3, CallKeepsRegistry
  <2> QED
    BY <2>1, <2>5, <2>6
<1> QED
  BY <1>2, <1>3 DEF CleanupGate

LEMMA CleanupInspectInv ==
  ASSUME TrackedInv, NEW c \in Cleanups, CleanupInspect(c)
  PROVE  TrackedInv'
<1>0. /\ TrackedTypes /\ c \in Cleanups \cup Orphans /\ c \notin Orphans /\ occupant \in Procs
      /\ call \in [Cleanups \cup Orphans -> CallLocals] /\ call[c] \in CallLocals
  BY TrackedAssumption DEF TrackedInv, TrackedTypes
<1>1. UNCHANGED <<occupant, registry, runVars>> /\ call[c].at = "inspect"
  BY DEF CleanupInspect, world
<1>2. CASE Fails(c)
  <2>1. CallsStay(c) /\ call'[c].at = "failed"
    BY <1>0, <1>2, GotoLocals DEF Fails
  <2> QED
    BY <1>0, <1>1, <2>1, FailedKnows, CallKeepsRegistry
<1>3. ASSUME NEW info, NEW clear \in BOOLEAN, NEW line, GetProcess(info, clear),
             Becomes(c, [call[c] EXCEPT !.clear = @ /\ clear, !.target = occupant,
                     !.at = IF info = NoProcess THEN "mark"
                            ELSE IF /\ IsAccess(info)
                                    /\ SameProcessStartTime(info.second, call[c].start)
                                    /\ line # "bare"
                            THEN "kill" ELSE "failed"])
      PROVE  TrackedInv'
  <2> DEFINE at == IF info = NoProcess THEN "mark"
                   ELSE IF /\ IsAccess(info)
                           /\ SameProcessStartTime(info.second, call[c].start)
                           /\ line # "bare"
                   THEN "kill" ELSE "failed"
             still == call[c].clear /\ clear
             l == [call[c] EXCEPT !.clear = still, !.target = occupant, !.at = at]
  <2>1. /\ at \in {"failed", "mark", "kill"}
        /\ at = "kill" => IsAccess(info) /\ SameProcessStartTime(info.second, call[c].start)
        /\ at = "mark" => info = NoProcess
    OBVIOUS
  <2>2. still \in BOOLEAN
    BY Zenon
  <2> HIDE DEF at
  <2>3. /\ l \in CallLocals /\ l.at = at /\ l.op = call[c].op /\ l.start = call[c].start
        /\ l.clear = still /\ l.target = occupant
    <3> HIDE DEF still
    <3> QED
      BY <1>0, <2>1, <2>2 DEF CallLocals
  <2>4. Becomes(c, l)
    BY <1>3 DEF at
  <2> HIDE DEF l
  <2>5. CallsStay(c) /\ call'[c].at = at /\ (at # "failed" => call'[c] = l)
    BY <1>0, <2>1, <2>3, <2>4, BecomesLocals
  <2>6. CASE at = "failed"
    BY <1>0, <1>1, <2>5, <2>6, FailedKnows, CallKeepsRegistry
  <2>7. /\ call[c].op = TrackedRun => opened
        /\ call[c].start # 3
        /\ call[c].clear /\ call[c].start = 1 => Over \/ OwnIsGone
    BY <1>1 DEF TrackedInv, CallsKnow, CleanupKnows
  <2>8. CASE at = "mark"
    <3>1. clear => occupant # "own"
      BY <1>0, <1>3, <2>1, <2>8, InspectFacts, ProcessFacts
    <3>2. Progress => CleanupKnows(c)'
      BY <2>3, <2>5, <2>7, <2>8, <3>1 DEF CleanupKnows, Progress, OwnIsGone
    <3> QED
      BY <1>0, <1>1, <2>5, <2>8, <3>2, CallKeepsRegistry
  <2>9. CASE at = "kill"
    <3>1. call[c].start # 0 /\ ProcessInfo(occupant).second = call[c].start
      BY <1>0, <1>3, <2>1, <2>9, InspectFacts DEF SameProcessStartTime
    <3>2. occupant \notin {"later", "shown"} /\ (occupant = "own" => call[c].start = 1)
      BY <2>7, <3>1, ProcessFacts
    <3>3. Progress => CleanupKnows(c)'
      BY <2>3, <2>5, <2>7, <2>9, <3>2 DEF CleanupKnows, Progress, OwnIsGone
    <3> QED
      BY <1>0, <1>1, <2>5, <2>9, <3>3, CallKeepsRegistry
  <2> QED
    BY <2>1, <2>6, <2>8, <2>9
<1> QED
  BY <1>2, <1>3 DEF CleanupInspect

LEMMA CleanupKillInv ==
  ASSUME TrackedInv, NEW c \in Cleanups, CleanupKill(c)
  PROVE  TrackedInv'
<1>0. TrackedTypes /\ c \in Cleanups \cup Orphans /\ c \notin Orphans /\ occupant \in Procs
  BY TrackedAssumption DEF TrackedInv, TrackedTypes
<1>1. UNCHANGED <<registry, runVars>> /\ call[c].at = "kill"
  BY DEF CleanupKill
<1>2. PICK returns \in BOOLEAN : Kill(returns) /\ CallGoto(c, IF returns THEN "verify" ELSE "failed")
  BY DEF CleanupKill
<1>3. occupant' \in {occupant, "gone"}
  BY <1>0, <1>2, KillFacts
<1>4. CASE CallGoto(c, "failed")
  BY <1>0, <1>1, <1>3, <1>4, GotoLocals, FailedKnows, CallKeepsRegistry
<1>5. CASE CallGoto(c, "verify")
  <2>1. CallsStay(c) /\ call'[c].at = "verify" /\ call'[c].op = call[c].op
    BY <1>0, <1>5, GotoLocals
  <2>2. call[c].op = TrackedRun => opened
    BY <1>1 DEF TrackedInv, CallsKnow, CleanupKnows
  <2>3. Progress => CleanupKnows(c)'
    BY <2>1, <2>2 DEF CleanupKnows, Progress
  <2> QED
    BY <1>0, <1>1, <1>3, <2>1, <2>3, CallKeepsRegistry
<1> QED
  BY <1>2, <1>4, <1>5

LEMMA CleanupVerifyInv ==
  ASSUME TrackedInv, NEW c \in Cleanups, CleanupVerify(c)
  PROVE  TrackedInv'
<1>0. /\ TrackedTypes /\ c \in Cleanups \cup Orphans /\ c \notin Orphans /\ occupant \in Procs
      /\ call \in [Cleanups \cup Orphans -> CallLocals] /\ call[c] \in CallLocals
  BY TrackedAssumption DEF TrackedInv, TrackedTypes
<1>1. UNCHANGED <<occupant, registry, runVars>> /\ call[c].at = "verify"
  BY DEF CleanupVerify, world
<1>2. CASE Fails(c)
  <2>1. CallsStay(c) /\ call'[c].at = "failed"
    BY <1>0, <1>2, GotoLocals DEF Fails
  <2> QED
    BY <1>0, <1>1, <2>1, FailedKnows, CallKeepsRegistry
<1>3. ASSUME NEW info, NEW clear \in BOOLEAN, GetProcess(info, clear),
             Becomes(c, [call[c] EXCEPT !.clear = @ /\ clear,
                                        !.at = IF IsAccess(info) THEN "failed" ELSE "mark"])
      PROVE  TrackedInv'
  <2> DEFINE at == IF IsAccess(info) THEN "failed" ELSE "mark"
             still == call[c].clear /\ clear
             l == [call[c] EXCEPT !.clear = still, !.at = at]
  <2>1. at \in {"failed", "mark"} /\ (at = "mark" => ~IsAccess(info))
    OBVIOUS
  <2>2. still \in BOOLEAN
    BY Zenon
  <2> HIDE DEF at
  <2>3. l \in CallLocals /\ l.at = at /\ l.op = call[c].op /\ l.clear = still
    <3> HIDE DEF still
    <3> QED
      BY <1>0, <2>1, <2>2 DEF CallLocals
  <2>4. Becomes(c, l)
    BY <1>3 DEF at
  <2> HIDE DEF l
  <2>5. CallsStay(c) /\ call'[c].at = at /\ (at # "failed" => call'[c] = l)
    BY <1>0, <2>1, <2>3, <2>4, BecomesLocals
  <2>6. CASE at = "failed"
    BY <1>0, <1>1, <2>5, <2>6, FailedKnows, CallKeepsRegistry
  <2>7. CASE at = "mark"
    <3>1. call[c].op = TrackedRun => opened
      BY <1>1 DEF TrackedInv, CallsKnow, CleanupKnows
    <3>2. clear => occupant # "own"
      BY <1>0, <1>3, <2>1, <2>7, InspectFacts, ProcessFacts
    <3>3. Progress => CleanupKnows(c)'
      BY <2>3, <2>5, <2>7, <3>1, <3>2 DEF CleanupKnows, Progress, OwnIsGone
    <3> QED
      BY <1>0, <1>1, <2>5, <2>7, <3>3, CallKeepsRegistry
  <2> QED
    BY <2>1, <2>6, <2>7
<1> QED
  BY <1>2, <1>3 DEF CleanupVerify

(* The records that a cleanup leaves.                                      *)
LEMMA CleanedRecords ==
  ASSUME TrackedTypes, NEW op \in Orphans \cup {TrackedRun},
         registry' = UpdatedRecord(op, "cleaned", FALSE, 0)
  PROVE  /\ registry' \in Seq(OperationRecord) /\ Records' \subseteq Records
         /\ op # TrackedRun => RecordsOf(TrackedRun) \subseteq RecordsOf(TrackedRun)'
<1>1. registry \in Seq(OperationRecord) /\ 0 \in 0..3 /\ FALSE \in BOOLEAN
  BY DEF TrackedTypes
<1>2. Records' = Range(registry')
  BY DEF Records, Range
<1>3. /\ registry' \in Seq(OperationRecord)
      /\ \A r \in Range(registry') : r \in Records
      /\ \A r \in Records : r.op # op => r \in Range(registry')
  <2>1. UpdateTells(registry', op, "cleaned", FALSE, 0)
    BY <1>1, UpdatedFacts
  <2> QED
    BY <2>1 DEF UpdateTells
<1> QED
  BY <1>2, <1>3 DEF RecordsOf

LEMMA CleanupMarkInv ==
  ASSUME TrackedInv, NEW c \in Cleanups, CleanupMark(c)
  PROVE  TrackedInv'
<1>0. /\ TrackedTypes /\ c \in Cleanups \cup Orphans /\ c \notin Orphans /\ occupant \in Procs
      /\ call[c].op \in Orphans \cup {TrackedRun}
  BY TrackedAssumption DEF TrackedInv, TrackedTypes, CallLocals
<1>1. UNCHANGED <<occupant, runVars>> /\ call[c].at = "mark"
  BY DEF CleanupMark, world
<1>2. CASE Fails(c) /\ registry' = registry
  <2>1. CallsStay(c) /\ call'[c].at = "failed"
    BY <1>0, <1>2, GotoLocals DEF Fails
  <2> QED
    BY <1>0, <1>1, <1>2, <2>1, FailedKnows, CallKeepsRegistry
<1>3. CASE registry' = UpdatedRecord(call[c].op, "cleaned", FALSE, 0) /\ CallGoto(c, "cleaned")
  <2>1. /\ CallsStay(c) /\ call'[c].at = "cleaned"
        /\ call'[c].op = call[c].op /\ call'[c].clear = call[c].clear
    BY <1>0, <1>3, GotoLocals
  <2>2. registry' \in Seq(OperationRecord) /\ Records' \subseteq Records
    BY <1>0, <1>3, CleanedRecords
  <2>3. Taken'
    BY <2>1 DEF Taken
  <2>4. CleanupKnows(c)
    BY DEF TrackedInv, CallsKnow
  <2>5. Progress => CleanupKnows(c)'
    BY <1>1, <2>1, <2>4 DEF CleanupKnows, Progress
  <2> QED
    BY <1>0, <1>1, <2>1, <2>2, <2>3, <2>5, CallKeeps
<1> QED
  BY <1>2, <1>3 DEF CleanupMark

LEMMA CleanupRetireInv ==
  ASSUME TrackedInv, NEW c \in Cleanups, CleanupRetire(c)
  PROVE  TrackedInv'
<1>0. /\ TrackedTypes /\ c \in Cleanups \cup Orphans /\ c \notin Orphans /\ occupant \in Procs
      /\ call[c].op \in Orphans \cup {TrackedRun}
  BY TrackedAssumption DEF TrackedInv, TrackedTypes, CallLocals
<1>1. UNCHANGED <<occupant, registry, runVars>> /\ call[c].at = "retire"
  BY DEF CleanupRetire, world
<1>2. \E to \in {"failed", "unlist"} : CallGoto(c, to)
  BY DEF CleanupRetire, Fails
<1>3. CallsStay(c) /\ call'[c].at \in {"failed", "unlist"}
  BY <1>0, <1>2, GotoLocals
<1> QED
  BY <1>0, <1>1, <1>3, FailedKnows, CallKeepsRegistry

LEMMA CleanupUnlistInv ==
  ASSUME TrackedInv, NEW c \in Cleanups, CleanupUnlist(c)
  PROVE  TrackedInv'
<1>0. /\ TrackedTypes /\ c \in Cleanups \cup Orphans /\ c \notin Orphans /\ occupant \in Procs
      /\ call[c].op \in Orphans \cup {TrackedRun}
  BY TrackedAssumption DEF TrackedInv, TrackedTypes, CallLocals
<1>1. UNCHANGED <<occupant, runVars>> /\ call[c].at = "unlist"
  BY DEF CleanupUnlist, world
<1>2. CASE Fails(c) /\ registry' = registry
  <2>1. CallsStay(c) /\ call'[c].at = "failed"
    BY <1>0, <1>2, GotoLocals DEF Fails
  <2> QED
    BY <1>0, <1>1, <1>2, <2>1, FailedKnows, CallKeepsRegistry
<1>3. CASE registry' = UpdatedRecord(call[c].op, "cleaned", FALSE, 0) /\ CallGoto(c, "retired")
  <2>1. CallsStay(c) /\ call'[c].at = "retired"
    BY <1>0, <1>3, GotoLocals
  <2>2. registry' \in Seq(OperationRecord) /\ Records' \subseteq Records
    BY <1>0, <1>3, CleanedRecords
  <2>3. Taken'
    BY <2>1 DEF Taken
  <2> QED
    BY <1>0, <1>1, <2>1, <2>2, <2>3, FailedKnows, CallKeeps
<1> QED
  BY <1>2, <1>3 DEF CleanupUnlist

LEMMA OrphanInspectInv ==
  ASSUME TrackedInv, NEW c \in Orphans, OrphanInspect(c)
  PROVE  TrackedInv'
<1>0. /\ TrackedTypes /\ c \in Cleanups \cup Orphans /\ c \notin Cleanups /\ occupant \in Procs
      /\ call \in [Cleanups \cup Orphans -> CallLocals] /\ call[c] \in CallLocals
  BY TrackedAssumption DEF TrackedInv, TrackedTypes
<1>1. UNCHANGED <<occupant, registry, runVars>> /\ call[c].at = "idle"
  BY DEF OrphanInspect, world
<1>2. CASE Fails(c)
  <2>1. CallsStay(c) /\ call'[c].at = "failed"
    BY <1>0, <1>2, GotoLocals DEF Fails
  <2> QED
    BY <1>0, <1>1, <2>1, FailedKnows, CallKeepsRegistry
<1>3. ASSUME NEW info, NEW clear \in BOOLEAN, GetProcess(info, clear),
             Becomes(c, [call[c] EXCEPT !.target = occupant, !.clear = clear,
                  !.start = info.second, !.line = info.line,
                  !.at = IF IsAccess(info) /\ info.headless THEN "attribute" ELSE "failed"])
      PROVE  TrackedInv'
  <2> DEFINE at == IF IsAccess(info) /\ info.headless THEN "attribute" ELSE "failed"
             l == [call[c] EXCEPT !.target = occupant, !.clear = clear,
                                  !.start = info.second, !.line = info.line, !.at = at]
             p == ProcessInfo(occupant)
  <2>1. at \in {"failed", "attribute"} /\ (at = "attribute" => IsAccess(info) /\ info.headless)
    OBVIOUS
  <2>2. info.second \in 0..3 /\ info.line \in {"none", "bare", "path"}
    BY <1>0, <1>3, InspectFacts
  <2> HIDE DEF at
  <2>3. /\ l \in CallLocals /\ l.at = at /\ l.target = occupant /\ l.clear = clear
        /\ l.start = info.second /\ l.line = info.line
    BY <1>0, <2>1, <2>2 DEF CallLocals
  <2>4. Becomes(c, l)
    BY <1>3 DEF at
  <2> HIDE DEF l
  <2>5. CallsStay(c) /\ call'[c].at = at /\ (at # "failed" => call'[c] = l)
    BY <1>0, <2>1, <2>3, <2>4, BecomesLocals
  <2>6. CASE at = "failed"
    BY <1>0, <1>1, <2>5, <2>6, FailedKnows, CallKeepsRegistry
  <2>7. CASE at = "attribute"
    <3>1. /\ IsAccess(p) /\ p.headless /\ info.second \in {0, p.second}
          /\ info.line \in {p.line, "none"} /\ (clear => info.second = p.second)
      BY <1>0, <1>3, <2>1, <2>7, InspectFacts
    <3>2. OrphanKnows(c)'
      BY <2>3, <2>5, <2>7, <3>1 DEF OrphanKnows
    <3> QED
      BY <1>0, <1>1, <2>5, <2>7, <3>2, CallKeepsRegistry
  <2> QED
    BY <2>1, <2>6, <2>7
<1> QED
  BY <1>2, <1>3 DEF OrphanInspect

LEMMA OrphanAttributeInv ==
  ASSUME TrackedInv, NEW c \in Orphans, OrphanAttribute(c)
  PROVE  TrackedInv'
<1>0. TrackedTypes /\ c \in Cleanups \cup Orphans /\ c \notin Cleanups /\ occupant \in Procs
  BY TrackedAssumption DEF TrackedInv, TrackedTypes
<1>1. UNCHANGED <<occupant, registry, runVars>> /\ call[c].at = "attribute"
  BY DEF OrphanAttribute, world
<1>2. CASE CallGoto(c, "failed")
  BY <1>0, <1>1, <1>2, GotoLocals, FailedKnows, CallKeepsRegistry
<1>3. CASE CallGoto(c, "create") /\ Attributed(call[c].start, call[c].line)
  <2> DEFINE l == call[c]
             p == ProcessInfo(l.target)
  <2>1. /\ CallsStay(c) /\ call'[c].at = "create" /\ call'[c].start = l.start
        /\ call'[c].target = l.target /\ call'[c].clear = l.clear
    BY <1>0, <1>3, GotoLocals
  <2>2. /\ IsAccess(p) /\ p.headless /\ l.start \in {0, p.second}
        /\ l.line \in {p.line, "none"} /\ (l.clear => l.start = p.second)
    BY <1>1 DEF TrackedInv, CallsKnow, OrphanKnows
  <2>3. l.target \in {"own", "twin", "later", "named"}
    <3>1. l.target \in Procs \cup {"none"}
      BY <1>0 DEF TrackedTypes, CallLocals
    <3>2. ~IsAccess(ProcessInfo("none"))
      BY DEF ProcessInfo, IsAccess
    <3> QED
      BY <2>2, <3>1, <3>2, ProcessFacts DEF Procs, Strangers
  <2>4. CASE l.line = "path"
    <3>1. l.target = "named"
      BY <2>2, <2>3, <2>4, ProcessFacts
    <3>2. l.start \in {0, 2}
      BY <2>2, <3>1, ProcessFacts
    <3>3. OrphanKnows(c)'
      BY <2>1, <3>1, <3>2 DEF OrphanKnows
    <3> QED
      BY <1>0, <1>1, <2>1, <3>3, CallKeepsRegistry
  <2>5. CASE \E i \in DOMAIN registry : /\ registry[i].pid
                                        /\ SameProcessStartTime(l.start, registry[i].start)
    <3>1. PICK r \in Records : r.pid /\ r.start # 0 /\ l.start = r.start
      BY <2>5 DEF Records, SameProcessStartTime
    <3>2. r.status \notin LiveStatuses
      BY <1>3, <3>1 DEF Attributed
    <3>3. r.start # 3 /\ (r.start = 1 => Over /\ opened)
      BY <3>1, <3>2 DEF TrackedInv, RecordsTell, RecordTells
    <3>4. l.target \notin {"later", "shown"} /\ (l.target = "own" => l.start = 1)
      BY <2>2, <2>3, <3>1, <3>3, ProcessFacts
    <3>5. Progress => OrphanKnows(c)'
      BY <2>1, <3>1, <3>3, <3>4 DEF OrphanKnows, Progress
    <3> QED
      BY <1>0, <1>1, <2>1, <3>5, CallKeepsRegistry
  <2> QED
    BY <1>3, <2>4, <2>5 DEF Attributed
<1> QED
  BY <1>2, <1>3 DEF OrphanAttribute, Fails

LEMMA OrphanCreateInv ==
  ASSUME TrackedInv, NEW c \in Orphans, OrphanCreate(c)
  PROVE  TrackedInv'
<1>0. /\ TrackedTypes /\ c \in Cleanups \cup Orphans /\ c \notin Cleanups /\ occupant \in Procs
      /\ registry \in Seq(OperationRecord) /\ call[c] \in CallLocals /\ c # TrackedRun
  BY TrackedAssumption DEF TrackedInv, TrackedTypes
<1>1. UNCHANGED <<occupant, runVars>> /\ call[c].at = "create"
  BY DEF OrphanCreate, world
<1>2. CASE Fails(c) /\ registry' = registry
  <2>1. CallsStay(c) /\ call'[c].at = "failed"
    BY <1>0, <1>2, GotoLocals DEF Fails
  <2> QED
    BY <1>0, <1>1, <1>2, <2>1, FailedKnows, CallKeepsRegistry
<1> DEFINE new == [op |-> c, status |-> "cleanup_pending", pid |-> TRUE,
                   start |-> call[c].start, line |-> call[c].line]
<1>3. CASE registry' = Append(registry, new) /\ CallGoto(c, "kill")
  <2>1. /\ CallsStay(c) /\ call'[c].at = "kill" /\ call'[c].start = call[c].start
        /\ call'[c].target = call[c].target /\ call'[c].clear = call[c].clear
    BY <1>0, <1>3, GotoLocals
  <2>2. /\ new \in OperationRecord /\ new.op = c /\ new.status = "cleanup_pending"
        /\ new.start = call[c].start
    BY <1>0 DEF OperationRecord, CallLocals, EligibleStatuses
  <2> HIDE DEF new
  <2>3. PICK r : r = new
    OBVIOUS
  <2>4. registry' \in Seq(OperationRecord) /\ Range(registry') = Range(registry) \cup {r}
    BY <1>0, <1>3, <2>2, <2>3, AppendFacts
  <2>5. Records' = Records \cup {r}
    BY <2>4 DEF Records, Range
  <2>6. RecordsOf(TrackedRun) \subseteq RecordsOf(TrackedRun)'
    BY <2>5 DEF RecordsOf
  <2>7. /\ call[c].target \notin {"later", "shown"} /\ call[c].start # 3
        /\ call[c].start = 1 => Over /\ opened
        /\ call[c].target = "own" /\ call[c].clear => call[c].start = 1
    BY <1>1 DEF TrackedInv, CallsKnow, OrphanKnows
  <2>8. ASSUME Progress PROVE RecordTells(r)' /\ OrphanKnows(c)'
    <3>1. call[c].start = 1 => Over' /\ opened'
      BY <2>7, <2>8 DEF Progress
    <3>2. OrphanKnows(c)'
      BY <2>1, <2>7, <3>1 DEF OrphanKnows
    <3>3. /\ r.op = c /\ r.status = "cleanup_pending" /\ r.start # 3
          /\ r.start = 1 => Over' /\ opened'
      BY <2>2, <2>3, <2>7, <3>1
    <3> QED
      BY <1>0, <3>2, <3>3 DEF RecordTells
  <2> QED
    BY <1>0, <1>1, <2>1, <2>4, <2>5, <2>6, <2>8, CallKeeps
<1> QED
  BY <1>2, <1>3 DEF OrphanCreate

LEMMA OrphanKillInv ==
  ASSUME TrackedInv, NEW c \in Orphans, OrphanKill(c)
  PROVE  TrackedInv'
<1>0. TrackedTypes /\ c \in Cleanups \cup Orphans /\ c \notin Cleanups /\ occupant \in Procs
  BY TrackedAssumption DEF TrackedInv, TrackedTypes
<1>1. UNCHANGED <<registry, runVars>> /\ call[c].at = "kill"
  BY DEF OrphanKill
<1>2. PICK returns \in BOOLEAN : Kill(returns) /\ CallGoto(c, IF returns THEN "mark" ELSE "failed")
  BY DEF OrphanKill
<1>3. occupant' \in {occupant, "gone"}
  BY <1>0, <1>2, KillFacts
<1>4. CallsStay(c) /\ call'[c].at \in {"mark", "failed"}
  BY <1>0, <1>2, GotoLocals
<1>5. OrphanKnows(c)'
  BY <1>4 DEF OrphanKnows
<1> QED
  BY <1>0, <1>1, <1>3, <1>4, <1>5, CallKeepsRegistry

LEMMA OrphanMarkInv ==
  ASSUME TrackedInv, NEW c \in Orphans, OrphanMark(c)
  PROVE  TrackedInv'
<1>0. /\ TrackedTypes /\ c \in Cleanups \cup Orphans /\ c \notin Cleanups /\ occupant \in Procs
      /\ c \in Orphans \cup {TrackedRun} /\ c # TrackedRun
  BY TrackedAssumption DEF TrackedInv, TrackedTypes
<1>1. UNCHANGED <<occupant, runVars>> /\ call[c].at = "mark" /\ CallGoto(c, "killed")
  BY DEF OrphanMark, world
<1>2. CallsStay(c) /\ call'[c].at = "killed"
  BY <1>0, <1>1, GotoLocals
<1>3. CASE registry' = registry
  BY <1>0, <1>1, <1>2, <1>3, FailedKnows, CallKeepsRegistry
<1>4. CASE registry' = UpdatedRecord(c, "cleaned", FALSE, 0)
  <2>1. /\ registry' \in Seq(OperationRecord) /\ Records' \subseteq Records
        /\ RecordsOf(TrackedRun) \subseteq RecordsOf(TrackedRun)'
    BY <1>0, <1>4, CleanedRecords
  <2> QED
    BY <1>0, <1>1, <1>2, <2>1, FailedKnows, CallKeeps
<1> QED
  BY <1>3, <1>4 DEF OrphanMark

(* A step of the run, whose calls stay where they are.                     *)
LEMMA RunKeeps ==
  ASSUME TrackedInv, call' = call, TrackedTypes', Progress, RunKnows',
         \A r \in Records' : r \in Records \/ RecordTells(r)'
  PROVE  TrackedInv'
<1>1. RecordsTell'
  BY RecordsTellStep DEF TrackedInv
<1>2. CallsKnow'
  BY KnownStays DEF TrackedInv, CallsKnow
<1> QED
  BY <1>1, <1>2 DEF TrackedInv

LEMMA ProcessStepsInv ==
  ASSUME TrackedInv, ProcessExits \/ PidReused
  PROVE  TrackedInv'
<1>1. /\ UNCHANGED <<registry, runVars, call>> /\ occupant' # "own" /\ occupant' \in Procs
  BY DEF ProcessExits, PidReused, Procs, Strangers
<1>2. Records' = Records /\ RecordsOf(TrackedRun)' = RecordsOf(TrackedRun) /\ Taken' = Taken
  BY <1>1 DEF Records, RecordsOf, Taken
<1>3. Progress /\ RunKnows'
  BY <1>1, <1>2, RunKnowsStep DEF TrackedInv
<1>4. TrackedTypes'
  BY <1>1 DEF TrackedInv, TrackedTypes, runVars
<1> QED
  BY <1>1, <1>2, <1>3, <1>4, RunKeeps

LEMMA StartTrackedInv == ASSUME TrackedInv, StartTracked PROVE TrackedInv'
<1> DEFINE new == [op |-> TrackedRun, status |-> "starting", pid |-> FALSE, start |-> 0, line |-> "none"]
<1>1. /\ runAt = "idle"
      /\ UNCHANGED <<occupant, marker, poll, polled, outcome, opened, reap, call>>
      /\ \/ registry' = Append(registry, new) /\ runAt' = "executing"
         \/ registry' = registry /\ runAt' = "ended"
  BY DEF StartTracked, RunGoto, world
<1>2. ~opened /\ occupant # "own" /\ reap.result = "none" /\ poll # "write" /\ ~marker.pid /\ ~polled.pid
  BY <1>1 DEF TrackedInv, RunKnows
<1>3. /\ new \in OperationRecord /\ new.op = TrackedRun /\ new.start # 3 /\ ~new.pid
      /\ new.status = "starting"
  BY DEF OperationRecord, LiveStatuses
<1> HIDE DEF new
<1>4. PICK r : r = new
  OBVIOUS
<1>5. registry \in Seq(OperationRecord)
  BY DEF TrackedInv, TrackedTypes
<1>6. /\ registry' \in Seq(OperationRecord)
      /\ runAt' = "executing" => Range(registry') = Range(registry) \cup {r}
  BY <1>1, <1>3, <1>4, <1>5, AppendFacts
<1>7. /\ runAt' = "executing" => Records' = Records \cup {r}
      /\ runAt' = "ended" => Records' = Records
  BY <1>1, <1>6 DEF Records, Range
<1>8. TrackedTypes'
  BY <1>1, <1>6 DEF TrackedInv, TrackedTypes
<1>9. Progress
  BY <1>1, <1>2 DEF Progress, Over, OwnIsGone
<1>10. RecordTells(r)'
  BY <1>3, <1>4 DEF RecordTells, LiveStatuses
<1>11. LeakIsExplained' /\ (Driving /\ RecordsOf(TrackedRun) = {} => Taken)'
  BY <1>1, <1>2, <1>3, <1>4, <1>7 DEF LeakIsExplained, Driving, RecordsOf
<1>12. RunKnows'
  BY <1>1, <1>2, <1>11 DEF RunKnows
<1> QED
  BY <1>1, <1>7, <1>8, <1>9, <1>10, <1>12, RunKeeps

(* Steps of the run that leave the registry alone.                         *)
LEMMA SameRegistry ==
  ASSUME UNCHANGED <<registry, call>>
  PROVE  /\ Records' = Records /\ RecordsOf(TrackedRun)' = RecordsOf(TrackedRun)
         /\ Taken' = Taken
BY DEF Records, RecordsOf, Taken

LEMMA OpenAccessInv == ASSUME TrackedInv, OpenAccess PROVE TrackedInv'
<1>1. /\ runAt = "executing" /\ ~opened /\ occupant' = "own" /\ opened' = TRUE
      /\ UNCHANGED <<registry, marker, runAt, poll, polled, outcome, reap, call>>
  BY DEF OpenAccess
<1>2. TrackedTypes'
  BY <1>1 DEF TrackedInv, TrackedTypes, Procs
<1>3. Progress
  BY <1>1 DEF Progress, Over, OwnIsGone
<1>4. LeakIsExplained' /\ (Driving /\ RecordsOf(TrackedRun) = {} => Taken)'
  BY <1>1, SameRegistry DEF LeakIsExplained, Driving, TrackedInv, RunKnows
<1>5. RunKnows'
  BY <1>1, <1>4 DEF TrackedInv, RunKnows
<1> QED
  BY <1>1, <1>2, <1>3, <1>5, SameRegistry, RunKeeps

LEMMA MarkerFacts ==
  /\ \A m \in Markers : m.pid \in BOOLEAN /\ m.start \in {0, 1} /\ (m # NoMarker => m.pid)
  /\ NoMarker \in Markers /\ NoMarker.pid = FALSE /\ NoMarker.start = 0
BY DEF Markers, NoMarker

LEMMA WriteMarkerInv == ASSUME TrackedInv, WriteMarker PROVE TrackedInv'
<1>1. /\ runAt = "executing" /\ occupant = "own" /\ marker' \in Markers
      /\ UNCHANGED <<occupant, registry, runAt, poll, polled, outcome, opened, reap, call>>
  BY DEF WriteMarker, world, Markers
<1>2. TrackedTypes'
  BY <1>1 DEF TrackedInv, TrackedTypes
<1>3. Progress /\ opened
  BY <1>1 DEF Progress, Over, OwnIsGone, TrackedInv, RunKnows
<1>4. LeakIsExplained' /\ (Driving /\ RecordsOf(TrackedRun) = {} => Taken)'
  BY <1>1, SameRegistry DEF LeakIsExplained, Driving, TrackedInv, RunKnows
<1>5. RunKnows'
  BY <1>1, <1>3, <1>4 DEF TrackedInv, RunKnows
<1> QED
  BY <1>1, <1>2, <1>3, <1>5, SameRegistry, RunKeeps

LEMMA PollReadInv == ASSUME TrackedInv, PollRead PROVE TrackedInv'
<1>1. /\ runAt = "executing" /\ marker # NoMarker /\ poll' = "write" /\ polled' = marker
      /\ UNCHANGED <<occupant, registry, marker, runAt, outcome, opened, reap, call>>
  BY DEF PollRead, world
<1>2. TrackedTypes' /\ marker \in Markers
  BY <1>1 DEF TrackedInv, TrackedTypes
<1>3. Progress
  BY <1>1 DEF Progress, Over, OwnIsGone
<1>4. LeakIsExplained' /\ (Driving /\ RecordsOf(TrackedRun) = {} => Taken)'
  BY <1>1, SameRegistry DEF LeakIsExplained, Driving, TrackedInv, RunKnows
<1>5. marker.pid /\ opened
  BY <1>1, <1>2, MarkerFacts DEF TrackedInv, RunKnows
<1>6. RunKnows'
  BY <1>1, <1>4, <1>5 DEF TrackedInv, RunKnows
<1> QED
  BY <1>1, <1>2, <1>3, <1>6, SameRegistry, RunKeeps

LEMMA PollWriteInv == ASSUME TrackedInv, PollWrite PROVE TrackedInv'
<1>1. /\ poll = "write" /\ poll' = "idle" /\ polled' = NoMarker
      /\ UNCHANGED <<occupant, marker, runAt, outcome, opened, reap, call>>
      /\ \/ registry' = UpdatedRecord(TrackedRun, "running", TRUE, polled.start)
         \/ registry' = registry
  BY DEF PollWrite, world
<1>2. runAt \in {"executing", "stopping"} /\ opened
  BY <1>1 DEF TrackedInv, RunKnows
<1>3. /\ registry \in Seq(OperationRecord) /\ polled.start \in 0..3 /\ polled.start # 3
      /\ "running" \in LiveStatuses /\ TRUE \in BOOLEAN
  BY MarkerFacts DEF TrackedInv, TrackedTypes, LiveStatuses
<1>4. /\ registry' \in Seq(OperationRecord)
      /\ \A r \in Range(registry') :
           \/ r \in Records
           \/ r.op = TrackedRun /\ r.status = "running" /\ r.start # 3
      /\ RecordsOf(TrackedRun) # {} => \E r \in Range(registry') : r.op = TrackedRun
  <2>1. CASE registry' = registry
    BY <1>3, <2>1 DEF Range, Records, RecordsOf
  <2>2. CASE registry' = UpdatedRecord(TrackedRun, "running", TRUE, polled.start)
    <3>1. /\ "running" \in LiveStatuses \cup EligibleStatuses \cup {"completed", "cleaned"}
          /\ TrackedRun \in Orphans \cup {TrackedRun}
          /\ "running" \notin {"completed", "cleaned"}
      BY <1>3
    <3>2. PICK start \in 0..3 : start = polled.start
      BY <1>3
    <3>3. UpdateTells(registry', TrackedRun, "running", TRUE, start)
      BY <1>3, <2>2, <3>1, <3>2, UpdatedFacts
    <3> QED
      BY <1>3, <3>1, <3>2, <3>3 DEF UpdateTells
  <2> QED
    BY <1>1, <2>1, <2>2
<1>5. Records' = Range(registry')
  BY DEF Records, Range
<1>6. TrackedTypes'
  BY <1>1, <1>4, MarkerFacts DEF TrackedInv, TrackedTypes
<1>7. Progress
  BY <1>1 DEF Progress, Over, OwnIsGone
<1>8. ASSUME NEW r \in Records', r \notin Records PROVE RecordTells(r)'
  BY <1>1, <1>2, <1>4, <1>5, <1>8 DEF RecordTells, LiveStatuses
<1>9. RecordsOf(TrackedRun)' = {} => RecordsOf(TrackedRun) = {}
  BY <1>4, <1>5 DEF RecordsOf
<1>10. LeakIsExplained' /\ (Driving /\ RecordsOf(TrackedRun) = {} => Taken)'
  BY <1>1, <1>2, <1>9 DEF LeakIsExplained, Driving, Taken, TrackedInv, RunKnows
<1>11. RunKnows'
  BY <1>1, <1>2, <1>10, MarkerFacts DEF TrackedInv, RunKnows
<1> QED
  BY <1>1, <1>6, <1>7, <1>8, <1>11, RunKeeps

LEMMA ExecutorEndsInv == ASSUME TrackedInv, ExecutorEnds PROVE TrackedInv'
<1>1. /\ runAt = "executing" /\ runAt' = "stopping" /\ marker' \in {marker, NoMarker}
      /\ outcome' \in {"completed", "failed", "timed_out"}
      /\ UNCHANGED <<occupant, registry, poll, polled, opened, reap, call>>
  BY DEF ExecutorEnds, RunGoto, world
<1>2. TrackedTypes'
  BY <1>1, MarkerFacts DEF TrackedInv, TrackedTypes
<1>3. Progress
  BY <1>1 DEF Progress, Over, OwnIsGone
<1>4. LeakIsExplained' /\ (Driving /\ RecordsOf(TrackedRun) = {} => Taken)'
  BY <1>1, SameRegistry DEF LeakIsExplained, Driving, TrackedInv, RunKnows
<1>5. RunKnows'
  BY <1>1, <1>4, MarkerFacts DEF TrackedInv, RunKnows
<1> QED
  BY <1>1, <1>2, <1>3, <1>5, SameRegistry, RunKeeps

LEMMA StopWatchingInv == ASSUME TrackedInv, StopWatching PROVE TrackedInv'
<1>1. /\ runAt = "stopping" /\ runAt' = "reaping" /\ poll = "idle"
      /\ UNCHANGED <<occupant, registry, marker, outcome, poll, polled, opened, reap, call>>
  BY DEF StopWatching, RunGoto, world
<1>2. TrackedTypes'
  BY <1>1 DEF TrackedInv, TrackedTypes
<1>3. Progress
  BY <1>1 DEF Progress, Over, OwnIsGone
<1>4. LeakIsExplained' /\ (Driving /\ RecordsOf(TrackedRun) = {} => Taken)'
  BY <1>1, SameRegistry DEF LeakIsExplained, Driving, TrackedInv, RunKnows
<1>5. RunKnows'
  BY <1>1, <1>4 DEF TrackedInv, RunKnows
<1> QED
  BY <1>1, <1>2, <1>3, <1>5, SameRegistry, RunKeeps

LEMMA ReapInspectInv == ASSUME TrackedInv, ReapInspect PROVE TrackedInv'
<1>1. /\ runAt = "reaping"
      /\ UNCHANGED <<occupant, registry, marker, poll, polled, outcome, opened, call>>
  BY DEF ReapInspect, world
<1>2. /\ marker \in Markers /\ marker.start \in {0, 1} /\ marker.pid \in BOOLEAN /\ occupant \in Procs
      /\ marker.pid => opened
  BY MarkerFacts DEF TrackedInv, TrackedTypes, RunKnows
<1>3. /\ runAt' \in {"finishing", "killing"}
      /\ reap' \in [result : {"none", "not_recorded", "exited", "refused", "inspect_failed"},
                    clear : BOOLEAN, target : Procs]
      /\ runAt' = "killing" => reap'.target \notin {"later", "shown"} /\ reap'.result = "none"
      /\ runAt' = "finishing" => reap'.result # "none"
      /\ reap'.result = "exited" /\ reap'.clear => OwnIsGone
  <2>1. ASSUME NEW result \in {"not_recorded", "inspect_failed"},
               reap' = [NoReap EXCEPT !.result = result]
        PROVE  /\ reap' \in [result : {"not_recorded", "inspect_failed"}, clear : BOOLEAN, target : Procs]
    <3>1. "gone" \in Procs
      BY DEF Procs
    <3> QED
      BY <2>1, <3>1 DEF NoReap
  <2>2. CASE ~marker.pid
    BY <1>2, <2>1, <2>2 DEF ReapInspect, RunGoto
  <2>3. CASE marker.pid /\ reap' = [NoReap EXCEPT !.result = "inspect_failed"] /\ RunGoto("finishing")
    BY <2>1, <2>3 DEF RunGoto
  <2>4. ASSUME marker.pid, NEW info, NEW clear \in BOOLEAN, NEW exited \in BOOLEAN,
               exited <=> \/ ~IsAccess(info)
                          \/ marker.start # 0 /\ ~SameProcessStartTime(info.second, marker.start),
               GetProcess(info, clear),
               reap' = [clear |-> clear, target |-> occupant,
                        result |-> IF exited THEN "exited"
                                   ELSE IF marker.start = 0 THEN "refused" ELSE "none"],
               RunGoto(IF exited \/ marker.start = 0 THEN "finishing" ELSE "killing")
        PROVE  <1>3!:
    <3> DEFINE p == ProcessInfo(occupant)
    <3>1. /\ reap'.clear = clear /\ reap'.target = occupant
          /\ reap'.result = IF exited THEN "exited"
                            ELSE IF marker.start = 0 THEN "refused" ELSE "none"
          /\ runAt' = IF exited \/ marker.start = 0 THEN "finishing" ELSE "killing"
      BY <2>4 DEF RunGoto
    <3>2. reap' \in [result : {"none", "not_recorded", "exited", "refused", "inspect_failed"},
                     clear : BOOLEAN, target : Procs]
      BY <1>2, <2>4
    <3>3. ASSUME ~exited, marker.start # 0 PROVE occupant \notin {"later", "shown"}
      <4>1. IsAccess(info) /\ info.second = 1
        BY <1>2, <2>4, <3>3 DEF SameProcessStartTime
      <4>2. p.second = 1
        BY <1>2, <2>4, <4>1, InspectFacts
      <4> QED
        BY <4>2, ProcessFacts
    <3>4. ASSUME exited, clear PROVE OwnIsGone
      <4>1. ASSUME occupant = "own" PROVE FALSE
        <5>1. IsAccess(ProcessInfo("own")) /\ ProcessInfo("own").second = 1
          BY <1>2, <4>1, ProcessFacts
        <5>2. IsAccess(info) /\ info.second = 1
          BY <1>2, <2>4, <3>4, <4>1, <5>1, InspectFacts
        <5> QED
          BY <1>2, <2>4, <3>4, <5>2 DEF SameProcessStartTime
      <4> QED
        BY <1>2, <2>4, <4>1 DEF OwnIsGone
    <3> QED
      BY <3>1, <3>2, <3>3, <3>4
  <2>5. CASE \E info \in Infos, clear \in BOOLEAN :
               LET exited == \/ ~IsAccess(info)
                             \/ marker.start # 0 /\ ~SameProcessStartTime(info.second, marker.start)
               IN /\ GetProcess(info, clear)
                  /\ reap' = [clear |-> clear, target |-> occupant,
                              result |-> IF exited THEN "exited"
                                         ELSE IF marker.start = 0 THEN "refused" ELSE "none"]
                  /\ RunGoto(IF exited \/ marker.start = 0 THEN "finishing" ELSE "killing")
    <3>1. CASE marker.pid
      <4>1. PICK info \in Infos, clear \in BOOLEAN :
               LET exited == \/ ~IsAccess(info)
                             \/ marker.start # 0 /\ ~SameProcessStartTime(info.second, marker.start)
               IN /\ GetProcess(info, clear)
                  /\ reap' = [clear |-> clear, target |-> occupant,
                              result |-> IF exited THEN "exited"
                                         ELSE IF marker.start = 0 THEN "refused" ELSE "none"]
                  /\ RunGoto(IF exited \/ marker.start = 0 THEN "finishing" ELSE "killing")
        BY <2>5
      <4> DEFINE exited == \/ ~IsAccess(info)
                           \/ marker.start # 0 /\ ~SameProcessStartTime(info.second, marker.start)
      <4>2. exited \in BOOLEAN
        BY Zenon
      <4> QED
        BY <2>4, <3>1, <4>1, <4>2
    <3> QED
      BY <2>2, <3>1
  <2> QED
    BY <1>2, <2>2, <2>3, <2>5 DEF ReapInspect
<1>4. TrackedTypes'
  <2>1. reap' \in [result : {"none", "not_recorded", "exited", "killed", "refused",
                            "inspect_failed", "kill_failed"}, clear : BOOLEAN, target : Procs]
    BY <1>3
  <2> QED
    BY <1>1, <1>3, <2>1 DEF TrackedInv, TrackedTypes
<1>5. Progress
  BY <1>1 DEF Progress, Over, OwnIsGone
<1>6. LeakIsExplained' /\ (Driving /\ RecordsOf(TrackedRun) = {} => Taken)'
  BY <1>1, <1>3, SameRegistry DEF LeakIsExplained, Driving, TrackedInv, RunKnows
<1>7. poll # "write"
  BY <1>1 DEF TrackedInv, RunKnows
<1>8. OwnIsGone => OwnIsGone'
  BY <1>5 DEF Progress
<1>9. RunKnows'
  BY <1>1, <1>3, <1>6, <1>7, <1>8 DEF TrackedInv, RunKnows
<1> QED
  BY <1>1, <1>4, <1>5, <1>9, SameRegistry, RunKeeps

LEMMA ReapKillInv == ASSUME TrackedInv, ReapKill PROVE TrackedInv'
<1>1. /\ runAt = "killing" /\ runAt' = "finishing"
      /\ UNCHANGED <<registry, marker, poll, polled, outcome, opened, call>>
  BY DEF ReapKill, RunGoto
<1>2. PICK returns \in BOOLEAN :
        Kill(returns) /\ reap' = [reap EXCEPT !.result = IF returns THEN "killed" ELSE "kill_failed"]
  BY DEF ReapKill
<1>3. occupant' \in {occupant, "gone"} /\ occupant' \in Procs
  BY <1>2, KillFacts DEF TrackedInv, TrackedTypes
<1>4. /\ reap' \in [result : {"none", "not_recorded", "exited", "killed", "refused",
                              "inspect_failed", "kill_failed"}, clear : BOOLEAN, target : Procs]
      /\ reap'.result \in {"killed", "kill_failed"}
  BY <1>2 DEF TrackedInv, TrackedTypes
<1>5. TrackedTypes'
  BY <1>1, <1>3, <1>4 DEF TrackedInv, TrackedTypes
<1>6. Progress
  BY <1>1, <1>3 DEF Progress, Over, OwnIsGone
<1>7. LeakIsExplained' /\ (Driving /\ RecordsOf(TrackedRun) = {} => Taken)'
  BY <1>1, SameRegistry DEF LeakIsExplained, Driving, TrackedInv, RunKnows
<1>8. poll # "write"
  BY <1>1 DEF TrackedInv, RunKnows
<1>9. RunKnows'
  BY <1>1, <1>3, <1>4, <1>7, <1>8 DEF TrackedInv, RunKnows
<1> QED
  BY <1>1, <1>5, <1>6, <1>9, SameRegistry, RunKeeps

LEMMA FinishTrackedInv == ASSUME TrackedInv, FinishTracked PROVE TrackedInv'
<1> DEFINE status == IF outcome = "completed" /\ reap.result \in {"kill_failed", "refused"}
                     THEN "cleanup_pending" ELSE outcome
           u == UpdatedRecord(TrackedRun, status, marker.pid, marker.start)
<1>1. /\ runAt = "finishing" /\ runAt' = "ended" /\ marker' = NoMarker /\ outcome' = "completed"
      /\ UNCHANGED <<occupant, poll, polled, opened, call>>
      /\ reap' = [reap EXCEPT !.target = "gone"]
      /\ registry' = u \/ registry' = registry
  BY DEF FinishTracked, RunOver, RunGoto, world
<1>2. /\ registry \in Seq(OperationRecord) /\ marker.start \in 0..3 /\ marker.start # 3
      /\ marker.pid \in BOOLEAN /\ (marker.pid => opened)
      /\ outcome \in {"completed", "failed", "timed_out"}
  BY MarkerFacts DEF TrackedInv, TrackedTypes, RunKnows
<1>3. /\ status \in LiveStatuses \cup EligibleStatuses \cup {"completed", "cleaned"}
      /\ status \notin LiveStatuses /\ status # "starting"
      /\ status \in {"completed", "cleaned"} =>
            status = "completed" /\ reap.result \notin {"kill_failed", "refused"}
  BY <1>2 DEF LiveStatuses, EligibleStatuses
<1>4. TrackedRun \in Orphans \cup {TrackedRun}
  OBVIOUS
<1> HIDE DEF status
<1>5. /\ u \in Seq(OperationRecord)
      /\ \A r \in Range(u) :
           \/ r \in Records
           \/ r.op = TrackedRun /\ r.status = status /\ r.pid = marker.pid /\ r.start = marker.start
      /\ status \notin {"completed", "cleaned"} /\ RecordsOf(TrackedRun) # {} =>
           \E r \in Range(u) : r.op = TrackedRun
  <2>1. PICK st \in LiveStatuses \cup EligibleStatuses \cup {"completed", "cleaned"},
             pid \in BOOLEAN, start \in 0..3 :
          st = status /\ pid = marker.pid /\ start = marker.start
    BY <1>2, <1>3
  <2>2. UpdateTells(u, TrackedRun, st, pid, start)
    BY <1>2, <1>4, <2>1, UpdatedFacts
  <2> HIDE DEF u
  <2> QED
    BY <2>1, <2>2 DEF UpdateTells
<1> HIDE DEF u
<1>6. Records' = Range(registry') /\ Range(registry) = Records
  BY DEF Records, Range
<1>7. /\ registry' \in Seq(OperationRecord)
      /\ \A r \in Records' :
           \/ r \in Records
           \/ r.op = TrackedRun /\ r.status = status /\ r.pid = marker.pid /\ r.start = marker.start
      /\ RecordsOf(TrackedRun)' = {} =>
           RecordsOf(TrackedRun) = {} \/ reap.result \notin {"kill_failed", "refused"}
  <2>1. CASE registry' = registry
    BY <1>2, <1>6, <2>1 DEF RecordsOf
  <2>2. CASE registry' = u
    <3>1. \A r \in Range(u) : r.op = TrackedRun => r \in RecordsOf(TrackedRun)'
      BY <1>6, <2>2 DEF RecordsOf
    <3> QED
      BY <1>3, <1>5, <1>6, <2>2, <3>1
  <2> QED
    BY <1>1, <2>1, <2>2
<1>8. /\ reap'.result = reap.result /\ reap'.clear = reap.clear
      /\ reap' \in [result : {"none", "not_recorded", "exited", "killed", "refused",
                              "inspect_failed", "kill_failed"}, clear : BOOLEAN, target : Procs]
  <2>1. "gone" \in Procs
    BY DEF Procs
  <2> QED
    BY <1>1, <2>1 DEF TrackedInv, TrackedTypes
<1>9. TrackedTypes'
  BY <1>1, <1>7, <1>8, MarkerFacts DEF TrackedInv, TrackedTypes
<1>10. Progress /\ Over'
  BY <1>1 DEF Progress, Over, OwnIsGone
<1>11. ASSUME NEW r \in Records', r \notin Records PROVE RecordTells(r)'
  BY <1>1, <1>2, <1>3, <1>7, <1>10, <1>11 DEF RecordTells
<1>12. /\ reap.result # "none" /\ poll # "write"
       /\ reap.result = "exited" /\ reap.clear => OwnIsGone
       /\ RecordsOf(TrackedRun) = {} => Taken
  BY <1>1 DEF TrackedInv, RunKnows, Driving
<1>13. reap.result \in {"none", "not_recorded", "exited", "killed", "refused",
                        "inspect_failed", "kill_failed"} /\ reap.clear \in BOOLEAN
  BY DEF TrackedInv, TrackedTypes
<1>14. LeakIsExplained'
  <2> SUFFICES ASSUME occupant = "own", RecordsOf(TrackedRun)' = {}
               PROVE  \/ reap.result \in {"not_recorded", "inspect_failed", "killed"}
                      \/ ~reap.clear \/ Taken
    BY <1>1, <1>8 DEF LeakIsExplained, Taken
  <2>1. CASE RecordsOf(TrackedRun) = {}
    BY <1>12, <2>1
  <2>2. CASE reap.result \notin {"kill_failed", "refused"}
    BY <1>12, <1>13, <2>2 DEF OwnIsGone
  <2> QED
    BY <1>7, <2>1, <2>2
<1>15. RunKnows'
  <2>1. OwnIsGone => OwnIsGone'
    BY <1>10 DEF Progress
  <2>2. ~Driving'
    BY <1>1 DEF Driving
  <2> QED
    BY <1>1, <1>8, <1>12, <1>14, <2>1, <2>2, MarkerFacts DEF TrackedInv, RunKnows
<1> QED
  BY <1>1, <1>9, <1>10, <1>11, <1>15, RunKeeps

LEMMA HostDiesInv == ASSUME TrackedInv, HostDies PROVE TrackedInv'
<1>1. /\ runAt \notin {"idle", "ended", "dead"} /\ runAt' = "dead"
      /\ marker' = NoMarker /\ outcome' = "completed" /\ reap' = NoReap
      /\ poll' = "idle" /\ polled' = NoMarker
      /\ UNCHANGED <<occupant, registry, opened, call>>
  BY DEF HostDies, RunOver, RunGoto, world
<1>2. NoReap \in [result : {"none", "not_recorded", "exited", "killed", "refused",
                           "inspect_failed", "kill_failed"}, clear : BOOLEAN, target : Procs]
  BY DEF NoReap, Procs
<1>3. TrackedTypes'
  BY <1>1, <1>2, MarkerFacts DEF TrackedInv, TrackedTypes
<1>4. Progress
  BY <1>1 DEF Progress, Over, OwnIsGone
<1>5. LeakIsExplained' /\ ~Driving'
  BY <1>1 DEF LeakIsExplained, Driving
<1>6. RunKnows'
  BY <1>1, <1>5, MarkerFacts DEF TrackedInv, RunKnows
<1> QED
  BY <1>1, <1>3, <1>4, <1>6, SameRegistry, RunKeeps

(* The invariant holds.                                                    *)
LEMMA TrackedInvInit == TrackedInit => TrackedInv
<1> SUFFICES ASSUME TrackedInit PROVE TrackedInv
  OBVIOUS
<1>1. Records = {} /\ RecordsOf(TrackedRun) = {} /\ registry \in Seq(OperationRecord)
  BY DEF TrackedInit, Records, RecordsOf
<1>2. /\ call = [c \in Cleanups \cup Orphans |-> NoCall] /\ NoCall.at = "idle"
      /\ call \in [Cleanups \cup Orphans -> CallLocals]
  BY NoCallLocals DEF TrackedInit, NoCall
<1>3. reap \in [result : {"none", "not_recorded", "exited", "killed", "refused",
                          "inspect_failed", "kill_failed"}, clear : BOOLEAN, target : Procs]
      /\ reap.result = "none"
  BY DEF TrackedInit, NoReap, Procs
<1>4. TrackedTypes
  BY <1>1, <1>2, <1>3, MarkerFacts DEF TrackedInit, TrackedTypes, Procs, Strangers
<1>5. CallsKnow
  <2>1. ASSUME NEW c \in Cleanups PROVE CleanupKnows(c)
    BY <1>2 DEF CleanupKnows
  <2>2. ASSUME NEW c \in Orphans PROVE OrphanKnows(c)
    BY <1>2 DEF OrphanKnows
  <2> QED
    BY <2>1, <2>2 DEF CallsKnow
<1>6. RunKnows
  BY <1>3, MarkerFacts DEF TrackedInit, RunKnows, LeakIsExplained, Driving
<1> QED
  BY <1>1, <1>4, <1>5, <1>6 DEF TrackedInv, RecordsTell

LEMMA TrackedInvStutter == ASSUME TrackedInv, UNCHANGED trackedVars PROVE TrackedInv'
<1>1. UNCHANGED <<occupant, registry, runVars, call>>
  BY DEF trackedVars, runVars
<1>2. Records' = Records /\ RecordsOf(TrackedRun)' = RecordsOf(TrackedRun) /\ Taken' = Taken
  BY <1>1 DEF Records, RecordsOf, Taken
<1>3. Progress
  BY <1>1 DEF runVars, Progress, Over, OwnIsGone
<1>4. TrackedTypes'
  BY <1>1 DEF TrackedInv, TrackedTypes, runVars
<1>5. RunKnows'
  BY <1>1, <1>2 DEF TrackedInv, RunKnows, runVars, LeakIsExplained, Taken, Driving, OwnIsGone
<1> QED
  BY <1>1, <1>2, <1>3, <1>4, <1>5, RunKeeps

LEMMA TrackedInvNext == ASSUME TrackedInv, [TrackedNext]_trackedVars PROVE TrackedInv'
<1>1. CASE UNCHANGED trackedVars
  BY <1>1, TrackedInvStutter
<1>2. CASE TrackedRunNext
  BY <1>2, StartTrackedInv, ExecutorEndsInv, StopWatchingInv, ReapInspectInv, ReapKillInv,
     FinishTrackedInv, OpenAccessInv, WriteMarkerInv, PollReadInv, PollWriteInv, HostDiesInv
     DEF TrackedRunNext, RunStep
<1>3. ASSUME NEW c \in Cleanups \cup Orphans, CallStep(c) PROVE TrackedInv'
  BY <1>3, CleanupGateInv, CleanupInspectInv, CleanupKillInv, CleanupVerifyInv, CleanupMarkInv,
     CleanupRetireInv, CleanupUnlistInv, OrphanAttributeInv, OrphanCreateInv, OrphanKillInv, OrphanMarkInv
     DEF CallStep
<1>4. ASSUME NEW c \in Cleanups, NEW op \in Orphans \cup {TrackedRun}, NEW force \in BOOLEAN,
             CleanupRead(c, op, force)
      PROVE  TrackedInv'
  BY <1>4, CleanupReadInv
<1>5. ASSUME NEW c \in Orphans, OrphanInspect(c) PROVE TrackedInv'
  BY <1>5, OrphanInspectInv
<1>6. CASE CallsNext(Cleanups \cup Orphans)
  BY <1>3, <1>4, <1>5, <1>6, ProcessStepsInv DEF CallsNext
<1> QED
  BY <1>1, <1>2, <1>6 DEF TrackedNext

(* The inductive invariant holds in every state of a tracked run and of   *)
(* the calls that may kill its Access (TrackedAccess).                     *)
THEOREM TrackedIsInductive == TrackedSpec => []TrackedInv
BY TrackedInvInit, TrackedInvNext, PTL DEF TrackedSpec

(* Nothing creates a second record of an operation: the run and an orphan  *)
(* call create theirs once, and an update finds one or none.               *)
Uncreated == {"idle", "attribute", "create"}
CreatedOnce ==
    /\ OneEach(registry)
    /\ runAt = "idle" => RecordsOf(TrackedRun) = {}
    /\ \A c \in Orphans : call[c].at \in Uncreated => RecordsOf(c) = {}
WithinBounds == reuses \in 0..MaxReuses /\ trackedFaults \in 0..MaxTrackedFaults

\* What a step does to the registry.
RegistryStep ==
    \/ registry' = registry
    \/ \E op \in Orphans \cup {TrackedRun},
          status \in LiveStatuses \cup EligibleStatuses \cup {"completed", "cleaned"},
          pid \in BOOLEAN, start \in 0..3 : registry' = UpdatedRecord(op, status, pid, start)
    \/ \E r \in OperationRecord :
          /\ registry' = Append(registry, r)
          /\ \/ r.op = TrackedRun /\ runAt = "idle" /\ runAt' # "idle"
             \/ r.op \in Orphans /\ call[r.op].at = "create" /\ call'[r.op].at = "kill"

LEMMA RegistrySteps ==
  ASSUME TrackedInv, [TrackedNext]_trackedVars
  PROVE  RegistryStep
<1>1. /\ TrackedTypes /\ marker.pid \in BOOLEAN /\ {marker.start, polled.start} \subseteq 0..3
      /\ FALSE \in BOOLEAN /\ TRUE \in BOOLEAN /\ 0 \in 0..3
      /\ {"running", "cleaned", "completed", "failed", "timed_out", "cleanup_pending"}
           \subseteq LiveStatuses \cup EligibleStatuses \cup {"completed", "cleaned"}
      /\ outcome \in {"completed", "failed", "timed_out"}
  BY MarkerFacts DEF TrackedInv, TrackedTypes, LiveStatuses, EligibleStatuses
<1>2. CASE registry' = registry
  BY <1>2 DEF RegistryStep
<1>3. ASSUME NEW op \in Orphans \cup {TrackedRun}, registry' = UpdatedRecord(op, "cleaned", FALSE, 0)
      PROVE  RegistryStep
  BY <1>1, <1>3 DEF RegistryStep
<1>4. CASE StartTracked
  <2> DEFINE new == [op |-> TrackedRun, status |-> "starting", pid |-> FALSE, start |-> 0,
                     line |-> "none"]
  <2>1. CASE registry' = Append(registry, new) /\ RunGoto("executing")
    <3>1. new \in OperationRecord /\ new.op = TrackedRun
      BY DEF OperationRecord, LiveStatuses
    <3>2. runAt = "idle" /\ runAt' # "idle"
      BY <1>4, <2>1 DEF StartTracked, RunGoto
    <3> HIDE DEF new
    <3> QED
      BY <2>1, <3>1, <3>2 DEF RegistryStep
  <2> QED
    BY <1>2, <1>4, <2>1 DEF StartTracked
<1>5. CASE PollWrite
  BY <1>1, <1>2, <1>5 DEF PollWrite, RegistryStep
<1>6. CASE FinishTracked
  <2> DEFINE status == IF outcome = "completed" /\ reap.result \in {"kill_failed", "refused"}
                       THEN "cleanup_pending" ELSE outcome
  <2>1. registry' = registry \/ registry' = UpdatedRecord(TrackedRun, status, marker.pid, marker.start)
    BY <1>6 DEF FinishTracked
  <2>2. status \in LiveStatuses \cup EligibleStatuses \cup {"completed", "cleaned"}
    BY <1>1
  <2> HIDE DEF status
  <2> QED
    BY <1>1, <1>2, <2>1, <2>2 DEF RegistryStep
<1>7. CASE TrackedRunNext
  <2>1. CASE \/ OpenAccess \/ WriteMarker \/ PollRead \/ HostDies \/ ExecutorEnds \/ StopWatching
             \/ ReapInspect \/ ReapKill
    BY <1>2, <2>1 DEF OpenAccess, WriteMarker, PollRead, HostDies, ExecutorEnds, StopWatching,
       ReapInspect, ReapKill
  <2> QED
    BY <1>4, <1>5, <1>6, <1>7, <2>1 DEF TrackedRunNext, RunStep
<1>8. ASSUME NEW c \in Orphans, OrphanCreate(c) PROVE RegistryStep
  <2> DEFINE new == [op |-> c, status |-> "cleanup_pending", pid |-> TRUE,
                     start |-> call[c].start, line |-> call[c].line]
  <2>1. CASE registry' = Append(registry, new) /\ CallGoto(c, "kill")
    <3>1. call[c] \in CallLocals
      BY DEF TrackedInv, TrackedTypes
    <3>2. new \in OperationRecord /\ new.op = c
      BY <3>1 DEF OperationRecord, CallLocals, EligibleStatuses
    <3>3. call[c].at = "create" /\ call'[c].at = "kill"
      BY <1>1, <1>8, <2>1, GotoLocals DEF OrphanCreate
    <3> HIDE DEF new
    <3> QED
      BY <2>1, <3>2, <3>3 DEF RegistryStep
  <2> QED
    BY <1>2, <1>8, <2>1 DEF OrphanCreate
<1>9. ASSUME NEW c \in Cleanups \cup Orphans, CallStep(c) PROVE RegistryStep
  <2>1. call[c].op \in Orphans \cup {TrackedRun}
    BY DEF TrackedInv, TrackedTypes, CallLocals
  <2>2. CASE CleanupMark(c) \/ CleanupUnlist(c)
    BY <1>2, <1>3, <2>1, <2>2 DEF CleanupMark, CleanupUnlist
  <2>3. CASE c \in Orphans /\ OrphanMark(c)
    BY <1>2, <1>3, <2>3 DEF OrphanMark
  <2>4. CASE \/ CleanupGate(c) \/ CleanupInspect(c) \/ CleanupKill(c) \/ CleanupVerify(c)
            \/ CleanupRetire(c)
    BY <1>2, <2>4 DEF CleanupGate, CleanupInspect, CleanupKill, CleanupVerify,
       CleanupRetire
  <2>5. CASE OrphanAttribute(c) \/ OrphanKill(c)
    BY <1>2, <2>5 DEF OrphanAttribute, OrphanKill
  <2> QED
    BY <1>8, <1>9, <2>2, <2>3, <2>4, <2>5 DEF CallStep
<1>10. CASE CallsNext(Cleanups \cup Orphans)
  BY <1>2, <1>9, <1>10 DEF CallsNext, CleanupRead, OrphanInspect, ProcessExits, PidReused
<1> QED
  BY <1>2, <1>7, <1>10 DEF TrackedNext, trackedVars

(* The run does not become idle again, and an orphan call does not return  *)
(* to a point before its record.                                           *)
LEMMA UncreatedBefore ==
  ASSUME TrackedInv, [TrackedNext]_trackedVars
  PROVE  /\ runAt' = "idle" => runAt = "idle"
         /\ \A c \in Orphans : call'[c].at \in Uncreated => call[c].at \in Uncreated
<1>1. TrackedTypes /\ call \in [Cleanups \cup Orphans -> CallLocals] /\ Cleanups \cap Orphans = {}
  BY TrackedAssumption DEF TrackedInv, TrackedTypes
<1>2. ASSUME NEW d \in Cleanups \cup Orphans, NEW l, Becomes(d, l), NEW c \in Orphans, c # d
      PROVE  call'[c] = call[c]
  BY <1>1, <1>2 DEF Becomes
<1>3. ASSUME NEW d \in Cleanups, NEW l, Becomes(d, l), NEW c \in Orphans
      PROVE  call'[c] = call[c]
  BY <1>1, <1>2, <1>3
<1>4. ASSUME NEW d \in Cleanups \cup Orphans, CallStep(d) \/ (d \in Orphans /\ OrphanInspect(d)),
             NEW c \in Orphans, call'[c].at \in Uncreated
      PROVE  call[c].at \in Uncreated
  <2>1. CASE c # d
    <3>1. \E l : Becomes(d, l)
      BY <1>4 DEF CallStep, CleanupGate, CleanupInspect, CleanupKill, CleanupVerify, CleanupMark,
         CleanupRetire, CleanupUnlist, OrphanAttribute, OrphanCreate, OrphanKill, OrphanMark, OrphanInspect,
         CallGoto, Fails
    <3> QED
      BY <1>2, <1>4, <2>1, <3>1
  <2>2. CASE c = d
    <3>1. OrphanInspect(c) \/ OrphanAttribute(c) \/ OrphanCreate(c) \/ OrphanKill(c) \/ OrphanMark(c)
      BY <1>1, <1>4, <2>2 DEF CallStep
    <3>2. CASE OrphanInspect(c) \/ OrphanAttribute(c) \/ OrphanCreate(c)
      BY <3>2 DEF OrphanInspect, OrphanAttribute, OrphanCreate, Uncreated
    <3>3. CASE OrphanKill(c)
      <4>1. PICK to \in {"mark", "failed"} : CallGoto(c, to)
        BY <3>3 DEF OrphanKill
      <4>2. call'[c].at = to
        BY <1>1, <4>1, GotoLocals
      <4> QED
        BY <1>4, <4>2 DEF Uncreated
    <3>4. CASE OrphanMark(c)
      <4>1. call'[c].at = "killed"
        BY <1>1, <3>4, GotoLocals DEF OrphanMark
      <4> QED
        BY <1>4, <4>1 DEF Uncreated
    <3> QED
      BY <3>1, <3>2, <3>3, <3>4
  <2> QED
    BY <2>1, <2>2
<1>5. ASSUME NEW d \in Cleanups, NEW op, NEW force, CleanupRead(d, op, force), NEW c \in Orphans
      PROVE  call'[c] = call[c]
  <2>1. \E l : Becomes(d, l)
    BY <1>5 DEF CleanupRead, CallGoto, Fails
  <2> QED
    BY <1>3, <2>1
<1>6. CASE CallsNext(Cleanups \cup Orphans)
  <2>1. runAt' = runAt
    BY <1>6 DEF CallsNext, CleanupRead, ProcessExits, PidReused, CallStep, CleanupGate, CleanupInspect,
       CleanupKill, CleanupVerify, CleanupMark, CleanupRetire, CleanupUnlist, OrphanAttribute, OrphanCreate,
       OrphanKill, OrphanMark, OrphanInspect, runVars
  <2>2. CASE ProcessExits \/ PidReused
    BY <2>1, <2>2 DEF ProcessExits, PidReused
  <2> QED
    BY <1>4, <1>5, <1>6, <2>1, <2>2 DEF CallsNext
<1>7. CASE TrackedRunNext
  BY <1>7 DEF TrackedRunNext, RunStep, StartTracked, ExecutorEnds, StopWatching, ReapInspect,
     ReapKill, FinishTracked, OpenAccess, WriteMarker, PollRead, PollWrite, HostDies, RunOver, RunGoto
<1> QED
  BY <1>6, <1>7 DEF TrackedNext, trackedVars

LEMMA CreatedOnceNext ==
  ASSUME TrackedInv, CreatedOnce, [TrackedNext]_trackedVars
  PROVE  CreatedOnce'
<1>1. registry \in Seq(OperationRecord)
  BY DEF TrackedInv, TrackedTypes
<1>2. ASSUME OneEach(registry'),
             \A o \in Orphans \cup {TrackedRun} : RecordsOf(o) = {} => RecordsOf(o)' = {}
      PROVE  CreatedOnce'
  BY <1>2, UncreatedBefore DEF CreatedOnce
<1>3. CASE registry' = registry
  BY <1>2, <1>3 DEF CreatedOnce, RecordsOf, Records
<1>4. ASSUME NEW op \in Orphans \cup {TrackedRun},
             NEW status \in LiveStatuses \cup EligibleStatuses \cup {"completed", "cleaned"},
             NEW pid \in BOOLEAN, NEW start \in 0..3,
             registry' = UpdatedRecord(op, status, pid, start)
      PROVE  CreatedOnce'
  BY <1>1, <1>2, <1>4, UpdatedOneEach DEF CreatedOnce
<1>5. ASSUME NEW r \in OperationRecord, registry' = Append(registry, r),
             \/ r.op = TrackedRun /\ runAt = "idle" /\ runAt' # "idle"
             \/ r.op \in Orphans /\ call[r.op].at = "create" /\ call'[r.op].at = "kill"
      PROVE  CreatedOnce'
  <2>1. RecordsOf(r.op) = {}
    BY <1>5 DEF CreatedOnce, Uncreated
  <2>2. Records = Range(registry) /\ Records' = Range(registry')
    BY DEF Records, Range
  <2>3. OneEach(registry') /\ Records' = Records \cup {r}
    <3>1. \A q \in Range(registry) : q.op # r.op
      BY <2>1, <2>2 DEF RecordsOf
    <3> QED
      BY <1>1, <1>5, <2>2, <3>1, AppendFacts, AppendOneEach DEF CreatedOnce
  <2>4. \A o : o # r.op /\ RecordsOf(o) = {} => RecordsOf(o)' = {}
    BY <2>3 DEF RecordsOf
  <2>5. runAt' = "idle" => RecordsOf(TrackedRun)' = {}
    BY <1>5, <2>4, UncreatedBefore, TrackedAssumption DEF CreatedOnce
  <2>6. ASSUME NEW c \in Orphans, call'[c].at \in Uncreated PROVE RecordsOf(c)' = {}
    <3>1. c # r.op
      BY <1>5, <2>6, TrackedAssumption DEF Uncreated
    <3> QED
      BY <2>4, <2>6, <3>1, UncreatedBefore DEF CreatedOnce
  <2> QED
    BY <2>3, <2>5, <2>6 DEF CreatedOnce
<1> QED
  BY <1>3, <1>4, <1>5, RegistrySteps DEF RegistryStep

LEMMA WithinBoundsNext ==
  ASSUME WithinBounds, [TrackedNext]_trackedVars
  PROVE  WithinBounds'
<1>1. MaxReuses \in Nat /\ MaxTrackedFaults \in Nat
  BY TrackedAssumption
<1>2. reuses' = reuses \/ (reuses < MaxReuses /\ reuses' = reuses + 1)
  <2>1. CASE TrackedRunNext
    BY <2>1 DEF TrackedRunNext, RunStep, StartTracked, ExecutorEnds, StopWatching, ReapInspect,
       ReapKill, Kill, FinishTracked, OpenAccess, WriteMarker, PollRead, PollWrite, HostDies, world
  <2>2. CASE CallsNext(Cleanups \cup Orphans)
    BY <2>2 DEF CallsNext, CleanupRead, ProcessExits, PidReused, CallStep, CleanupGate,
       CleanupInspect, CleanupKill, CleanupVerify, CleanupMark, CleanupRetire, CleanupUnlist, OrphanAttribute,
       OrphanCreate, OrphanKill, OrphanMark, OrphanInspect, Kill, world
  <2> QED
    BY <2>1, <2>2 DEF TrackedNext, trackedVars
<1>3. trackedFaults' = trackedFaults \/ TrackedFault
  <2>1. ASSUME NEW info, NEW clear, GetProcess(info, clear)
        PROVE  trackedFaults' = trackedFaults \/ TrackedFault
    BY <2>1 DEF GetProcess
  <2>2. ASSUME NEW returns, Kill(returns) PROVE trackedFaults' = trackedFaults \/ TrackedFault
    BY <2>2 DEF Kill
  <2>3. CASE TrackedRunNext
    BY <2>1, <2>2, <2>3 DEF TrackedRunNext, RunStep, StartTracked, ExecutorEnds, StopWatching,
       ReapInspect, ReapKill, FinishTracked, OpenAccess, WriteMarker, PollRead, PollWrite, HostDies
  <2>4. CASE CallsNext(Cleanups \cup Orphans)
    BY <2>1, <2>2, <2>4 DEF CallsNext, CleanupRead, ProcessExits, PidReused, CallStep, CleanupGate,
       CleanupInspect, CleanupKill, CleanupVerify, CleanupMark, CleanupRetire, CleanupUnlist, OrphanAttribute,
       OrphanCreate, OrphanKill, OrphanMark, OrphanInspect
  <2> QED
    BY <2>3, <2>4 DEF TrackedNext, trackedVars
<1> QED
  BY <1>1, <1>2, <1>3 DEF WithinBounds, TrackedFault

(* cleanup, reapRunOwnedAccess and finishTrackedOperation, however many    *)
(* calls there are and however often the pid is given away: there is one   *)
(* record for each operation; the Access of a run reported as cleaned is   *)
(* gone, unless an inspection of that call was degraded; and an Access     *)
(* that outlived its run is listed, or one of the reasons of               *)
(* LeakIsExplained holds.                                                  *)
THEOREM LeftoversAreKnown == TrackedSpec => []LeftoversKnown
<1>1. ASSUME TrackedInv, CreatedOnce, WithinBounds PROVE LeftoversKnown
  <2>1. Records \subseteq OperationRecord
    BY <1>1 DEF TrackedInv, TrackedTypes, Records
  <2>2. reap.result \in {"none", "not_recorded", "exited", "killed", "refused",
                         "inspect_failed", "kill_failed"}
    BY <1>1 DEF TrackedInv, TrackedTypes
  <2>3. TrackedTypeOK
    BY <1>1, <2>1, <2>2 DEF TrackedInv, TrackedTypes, CreatedOnce, OneEach, WithinBounds,
       TrackedTypeOK, Procs
  <2>4. CleanedMeansGone /\ LeakIsExplained
    BY <1>1 DEF TrackedInv, CallsKnow, CleanupKnows, RunKnows, OwnIsGone, CleanedMeansGone
  <2> QED
    BY <2>3, <2>4 DEF LeftoversKnown
<1>2. TrackedInit => CreatedOnce /\ WithinBounds
  BY TrackedAssumption
     DEF TrackedInit, CreatedOnce, WithinBounds, OneEach, RecordsOf, Records
<1> QED
  BY <1>1, <1>2, TrackedIsInductive, CreatedOnceNext, WithinBoundsNext, PTL DEF TrackedSpec

(* A call about to kill checked a process that may be killed: the own one  *)
(* only when the run is over or an inspection was degraded.                *)
LEMMA KillersKnow ==
  ASSUME TrackedInv, NEW c \in Cleanups \cup Orphans, call[c].at = "kill"
  PROVE  /\ call[c].target \notin {"later", "shown"}
         /\ call[c].target = "own" /\ call[c].clear => Over
<1>1. CASE c \in Cleanups
  BY <1>1 DEF TrackedInv, CallsKnow, CleanupKnows
<1>2. CASE c \in Orphans
  BY <1>2 DEF TrackedInv, CallsKnow, OrphanKnows
<1> QED
  BY <1>1, <1>2

(* After the end of the run no step writes a live status of it: the poll   *)
(* and the run itself are over, a cleanup only removes records and an      *)
(* orphan call adds one of its own.                                        *)
LEMMA EndedStaysEnded ==
  ASSUME TrackedInv, [TrackedNext]_trackedVars, runAt = "ended",
         NEW r \in RecordsOf(TrackedRun)'
  PROVE  r \in RecordsOf(TrackedRun)
<1>1. TrackedTypes /\ registry \in Seq(OperationRecord) /\ poll # "write"
  BY DEF TrackedInv, TrackedTypes, RunKnows
<1>2. r \in Records' /\ r.op = TrackedRun /\ Records' = Range(registry') /\ Records = Range(registry)
  BY DEF RecordsOf, Records, Range
<1>3. CASE registry' = registry
  BY <1>2, <1>3 DEF RecordsOf
<1>4. ASSUME NEW op \in Orphans \cup {TrackedRun},
             registry' = UpdatedRecord(op, "cleaned", FALSE, 0)
      PROVE  r \in RecordsOf(TrackedRun)
  BY <1>1, <1>2, <1>4, CleanedRecords DEF RecordsOf
<1>5. ASSUME NEW c \in Orphans, OrphanCreate(c) PROVE r \in RecordsOf(TrackedRun)
  <2> DEFINE new == [op |-> c, status |-> "cleanup_pending", pid |-> TRUE,
                     start |-> call[c].start, line |-> call[c].line]
  <2>1. CASE registry' = registry
    BY <1>3, <2>1
  <2>2. CASE registry' = Append(registry, new)
    <3>1. call[c] \in CallLocals /\ c # TrackedRun
      BY TrackedAssumption DEF TrackedInv, TrackedTypes
    <3>2. new \in OperationRecord /\ new.op # TrackedRun
      BY <3>1 DEF OperationRecord, CallLocals, EligibleStatuses
    <3> HIDE DEF new
    <3>3. Range(registry') = Range(registry) \cup {new}
      BY <1>1, <2>2, <3>2, AppendFacts
    <3> QED
      BY <1>2, <3>2, <3>3 DEF RecordsOf
  <2> QED
    BY <1>5, <2>1, <2>2 DEF OrphanCreate
<1>6. ASSUME NEW c \in Cleanups \cup Orphans, CallStep(c) PROVE r \in RecordsOf(TrackedRun)
  <2>1. call[c].op \in Orphans \cup {TrackedRun}
    BY DEF TrackedInv, TrackedTypes, CallLocals
  <2>2. CASE CleanupMark(c) \/ CleanupUnlist(c)
    BY <1>3, <1>4, <2>1, <2>2 DEF CleanupMark, CleanupUnlist
  <2>3. CASE c \in Orphans /\ OrphanMark(c)
    BY <1>3, <1>4, <2>3 DEF OrphanMark
  <2>4. CASE \/ CleanupGate(c) \/ CleanupInspect(c) \/ CleanupKill(c) \/ CleanupVerify(c)
            \/ CleanupRetire(c)
    BY <1>3, <2>4 DEF CleanupGate, CleanupInspect, CleanupKill, CleanupVerify,
       CleanupRetire
  <2>5. CASE OrphanAttribute(c) \/ OrphanKill(c)
    BY <1>3, <2>5 DEF OrphanAttribute, OrphanKill
  <2> QED
    BY <1>5, <1>6, <2>2, <2>3, <2>4, <2>5 DEF CallStep
<1>7. CASE TrackedRunNext
  BY <1>1, <1>7 DEF TrackedRunNext, RunStep, StartTracked, ExecutorEnds, StopWatching, ReapInspect,
     ReapKill, FinishTracked, OpenAccess, WriteMarker, PollRead, PollWrite, HostDies
<1>8. CASE CallsNext(Cleanups \cup Orphans)
  BY <1>3, <1>6, <1>8 DEF CallsNext, CleanupRead, OrphanInspect, ProcessExits, PidReused
<1> QED
  BY <1>3, <1>7, <1>8 DEF TrackedNext, trackedVars

(* For any number of calls, of faults and of processes that get the pid: a *)
(* call kills the Access of a run at work only when one of its inspections *)
(* was degraded or another process had the pid at its check, and an Access *)
(* of another session that started in another second, or with a window,    *)
(* only when it got the pid after the check; and no poll, cleanup or       *)
(* orphan call makes an ended run live again.                              *)
THEOREM CleanupsAreSafe == TrackedSpec => TrackedSafe
<1>1. ASSUME TrackedInv, [TrackedNext]_trackedVars
      PROVE  /\ [\A c \in Cleanups \cup Orphans :
                    Kills(c) /\ occupant = "own" /\ Driving
                      => call[c].target # "own" \/ ~call[c].clear]_trackedVars
             /\ [(occupant \in {"later", "shown"}) =>
                    /\ \A c \in Cleanups \cup Orphans : ~(Kills(c) /\ call[c].target = occupant)
                    /\ ~(runAt = "killing" /\ runAt' = "finishing" /\ reap.target = occupant)]_trackedVars
             /\ [runAt = "ended" /\ (\E r \in RecordsOf(TrackedRun)' : r.status \in LiveStatuses)
                   => \E r \in RecordsOf(TrackedRun) : r.status \in LiveStatuses]_trackedVars
  <2>1. ASSUME NEW c \in Cleanups \cup Orphans, Kills(c)
        PROVE  /\ call[c].target \notin {"later", "shown"}
               /\ Driving => call[c].target # "own" \/ ~call[c].clear
    BY <1>1, <2>1, KillersKnow DEF Kills, Driving, Over
  <2>2. runAt = "killing" => reap.target \notin {"later", "shown"}
    BY <1>1 DEF TrackedInv, RunKnows
  <2>3. runAt = "ended" => \A r \in RecordsOf(TrackedRun)' : r \in RecordsOf(TrackedRun)
    BY <1>1, EndedStaysEnded
  <2> QED
    BY <2>1, <2>2, <2>3
<1> QED
  BY <1>1, TrackedIsInductive, PTL
     DEF TrackedSpec, TrackedSafe, LiveRunSpared, StrangersSpared, TerminalStatusStays

=============================================================================
