--------------------------- MODULE AccessRunnerProofs ---------------------------
(***************************************************************************)
(* Proofs about the Access runner and its preflight cleanup, for any       *)
(* operations, hosts and pids.  A preflight decides from a list of records *)
(* and a list of processes that others keep changing; what it still knows  *)
(* when it acts is the inductive invariant.                                *)
(***************************************************************************)
EXTENDS AccessRunner, TLAPS

-----------------------------------------------------------------------------
(* The inductive invariant.                                                *)

\* The call has created its record, or has ended without one.
Begun(i) == pc[i] \in {"spawned", "opened", "running", "workerPid", "finalize"} \cup Ended

\* A process that started at this time is the one that by started.
Origin(by, start) ==
    start # Nothing =>
        /\ start <= starts
        /\ \A p \in Pids : procs[p] # Nothing /\ procs[p].start = start => procs[p].by = by

Gone(r) ==
    \A p \in Pids : procs[p] # Nothing => <<p, procs[p].start>> # <<r.pid, r.start>>

\* Start times identify processes, and only a user's command line names the
\* database.
ProcessesTell ==
    /\ \A p \in Pids : procs[p] # Nothing =>
         procs[p].start <= starts /\ (procs[p].named => procs[p].by = "user")
    /\ \A p, q \in Pids : procs[p] # Nothing /\ procs[q] # Nothing /\ procs[p].start = procs[q].start
         => p = q

\* A record of operation i, in the registry or in a preflight's list.
RecordTells(i, r) ==
    /\ Begun(i) /\ Origin(i, r.start)
    /\ QuickStarts /\ r.status \in ELIGIBLE_STATUSES => pc[i] \in Ended
RegistryTells ==
    \A i \in Ops : /\ rec[i] # Nothing => RecordTells(i, rec[i])
                   /\ Origin(i, mine[i].start)
                   /\ QuickStarts /\ i \in aged => pc[i] \in Ended

\* What the preflight of o has in hand.
HandKnows(o) ==
    LET l == pre[o] IN
    /\ pc[o] \in {"killOwned", "revalidate", "killHeadless"} => l.target # Nothing
    /\ pc[o] \in {"killOwned", "markCleaned"} => l.cur # Nothing
    /\ pc[o] \in {"records", "orphans", "create"} => l.cur = Nothing
    /\ \A m \in l.list : Origin("user", m.start)
    /\ pc[o] \in {"revalidate", "killHeadless"} => Origin("user", l.target.start)
    /\ pc[o] = "killOwned" =>
         Origin(l.cur, l.target.start) /\ (QuickStarts => pc[l.cur] \in Ended)
    /\ QuickKills /\ pc[o] \in KillPoints =>
         procs[l.target.pid] = Nothing \/ procs[l.target.pid].start = l.target.start

\* The records the preflight of o has still to visit.
ListKnows(o) ==
    /\ \A i \in Ops : pre[o].todo[i] # Nothing => RecordTells(i, pre[o].todo[i])
    /\ \/ pc[o] \in {"orphans", "create"}
       \/ pc[o] \in {"revalidate", "killHeadless"} /\ pre[o].cur = Nothing
       => \A i \in Ops : pre[o].todo[i] = Nothing

\* What has become of an eligible record that the preflight of o listed.
Owes(o, i) ==
    LET l == pre[o]
        owed == pre[o].owed[i]
    IN owed # Nothing =>
         /\ RecordTells(i, owed) /\ owed.status \in ELIGIBLE_STATUSES
         /\ l.todo[i] # Nothing => l.todo[i] = owed
         /\ l.todo[i] = Nothing /\ l.cur # i /\ ~l.errors =>
              rec[i] = Nothing /\ (isOwned(owed) /\ faults = 0 => Gone(owed))
         /\ l.cur = i /\ isOwned(owed) =>
              /\ pc[o] \notin {"revalidate", "killHeadless"}
              /\ pc[o] = "killOwned" => l.target.pid = owed.pid
              /\ pc[o] = "markCleaned" /\ faults = 0 => Gone(owed)

PreflightKnows(o) == HandKnows(o) /\ ListKnows(o) /\ \A i \in Ops : Owes(o, i)

RunnerInv ==
    /\ TypeOK /\ ProcessesTell /\ RegistryTells
    /\ \A o \in Ops : PreflightKnows(o)

-----------------------------------------------------------------------------
(* Steps that other operations do not notice.                              *)

\* Processes end, or one starts under an id that nobody is about to kill.
ProcsStep ==
    /\ starts' \in Nat /\ starts <= starts'
    /\ \A p \in Pids : procs'[p] # Nothing =>
         \/ procs'[p] = procs[p]
         \/ procs[p] = Nothing /\ Quiet(p) /\ procs'[p].start = starts' /\ starts' = starts + 1

Steady ==
    /\ ProcsStep /\ (faults' = 0 => faults = 0)
    /\ \A i \in Ops : /\ Begun(i) => Begun(i)'
                      /\ pc[i] \in Ended => pc'[i] \in Ended
                      /\ Begun(i) /\ rec[i] = Nothing => rec'[i] = Nothing

LEMMA NothingFacts ==
  /\ Nothing \notin Ops /\ Nothing \notin Pids /\ Nothing \notin Times /\ Nothing \notin Process
  /\ Nothing \notin Record /\ Nothing \notin OsInfo /\ "user" \notin Ops /\ "other" \notin Ops
BY OpsAssumption, PidsAssumption, NothingAssumption, NoInfoAssumption

LEMMA TimesFacts == Times \subseteq Nat
BY BoundsAssumption DEF Times

LEMMA StartsFacts == ASSUME TypeOK PROVE starts \in Nat /\ faults \in Nat
BY BoundsAssumption DEF TypeOK

LEMMA OriginStays ==
  ASSUME TypeOK, ProcsStep, NEW by, NEW start \in Times \cup {Nothing}, Origin(by, start)
  PROVE  Origin(by, start)'
<1> SUFFICES ASSUME start # Nothing, NEW p \in Pids, procs'[p] # Nothing, procs'[p].start = start
             PROVE  procs'[p].by = by
  <2>1. start # Nothing => start <= starts'
    BY TimesFacts DEF Origin, ProcsStep, TypeOK
  <2> QED
    BY <2>1 DEF Origin
<1>1. start \in Nat /\ starts \in Nat /\ start <= starts
  BY TimesFacts, StartsFacts DEF Origin
<1>2. procs'[p] = procs[p]
  BY <1>1 DEF ProcsStep
<1> QED
  BY <1>2 DEF Origin

LEMMA GoneStays ==
  ASSUME TypeOK, ProcsStep, NEW r \in Record, isOwned(r), NEW i, Origin(i, r.start), Gone(r)
  PROVE  Gone(r)'
<1> SUFFICES ASSUME NEW p \in Pids, procs'[p] # Nothing
             PROVE  <<p, procs'[p].start>> # <<r.pid, r.start>>
  BY DEF Gone
<1>1. r.start \in Nat /\ r.start <= starts /\ starts \in Nat
  <2>1. r.start \in Times /\ r.start # Nothing
    BY DEF isOwned, Record
  <2> QED
    BY <2>1, TimesFacts, StartsFacts DEF Origin
<1>2. CASE procs'[p] = procs[p]
  BY <1>2 DEF Gone
<1>3. CASE procs'[p].start = starts' /\ starts' = starts + 1
  BY <1>1, <1>3
<1> QED
  BY <1>2, <1>3 DEF ProcsStep

LEMMA RecordTellsStays ==
  ASSUME TypeOK, Steady, NEW i \in Ops, NEW r \in Record, RecordTells(i, r)
  PROVE  RecordTells(i, r)'
<1>1. Origin(i, r.start)'
  BY OriginStays DEF RecordTells, Record, Steady
<1> QED
  BY <1>1 DEF RecordTells, Steady

LEMMA HandKeeps ==
  ASSUME TypeOK, Steady, NEW q \in Ops, HandKnows(q), pc'[q] = pc[q], pre'[q] = pre[q]
  PROVE  HandKnows(q)'
<1> DEFINE l == pre[q]
<1>1. l \in Locals /\ pc[q] \in PreflightPoints \cup RunnerPoints
  BY DEF TypeOK
<1>2. \A m \in l.list : m.start \in Times \cup {Nothing}
  BY <1>1 DEF Locals, OsInfo
<1>3. \A m \in l.list : Origin("user", m.start)'
  BY <1>2, OriginStays DEF HandKnows, Steady
<1>4. pc[q] \in {"killOwned", "revalidate", "killHeadless"} =>
        l.target \in OsInfo /\ l.target.start \in Times \cup {Nothing} /\ l.target.pid \in Pids
  BY <1>1 DEF HandKnows, Locals, OsInfo
<1>5. pc[q] \in {"revalidate", "killHeadless"} => Origin("user", l.target.start)'
  BY <1>4, OriginStays DEF HandKnows, Steady
<1>6. pc[q] = "killOwned" => Origin(l.cur, l.target.start)' /\ (QuickStarts => pc'[l.cur] \in Ended)
  <2>1. SUFFICES ASSUME pc[q] = "killOwned" PROVE Origin(l.cur, l.target.start)' /\ (QuickStarts => pc'[l.cur] \in Ended)
    OBVIOUS
  <2>2. l.cur \in Ops
    BY <1>1, <2>1 DEF HandKnows, Locals
  <2> QED
    BY <1>4, <2>1, <2>2, OriginStays DEF HandKnows, Steady
<1>7. QuickKills /\ pc[q] \in KillPoints =>
        procs'[l.target.pid] = Nothing \/ procs'[l.target.pid].start = l.target.start
  BY <1>4 DEF HandKnows, Steady, ProcsStep, Quiet, KillPoints
<1> QED
  BY <1>3, <1>5, <1>6, <1>7 DEF HandKnows

LEMMA ListKeeps ==
  ASSUME TypeOK, Steady, NEW q \in Ops, ListKnows(q), pc'[q] = pc[q], pre'[q] = pre[q]
  PROVE  ListKnows(q)'
<1>1. pre[q] \in Locals
  BY DEF TypeOK
<1>2. \A i \in Ops : pre[q].todo[i] # Nothing => pre[q].todo[i] \in Record
  BY <1>1 DEF Locals
<1>3. \A i \in Ops : pre[q].todo[i] # Nothing => RecordTells(i, pre[q].todo[i])'
  BY <1>2, RecordTellsStays DEF ListKnows
<1> QED
  BY <1>3 DEF ListKnows

LEMMA OwesKeeps ==
  ASSUME TypeOK, Steady, NEW q \in Ops, NEW i \in Ops, Owes(q, i), pc'[q] = pc[q], pre'[q] = pre[q]
  PROVE  Owes(q, i)'
<1> DEFINE owed == pre[q].owed[i]
<1> SUFFICES ASSUME owed # Nothing PROVE Owes(q, i)'
  BY DEF Owes
<1>1. owed \in Record /\ RecordTells(i, owed)
  BY DEF TypeOK, Locals, Owes
<1>2. RecordTells(i, owed)'
  BY <1>1, RecordTellsStays
<1>3. isOwned(owed) /\ Gone(owed) => Gone(owed)'
  BY <1>1, GoneStays DEF RecordTells, Steady
<1>4. rec[i] = Nothing => rec'[i] = Nothing
  BY <1>1 DEF RecordTells, Steady
<1> QED
  BY <1>2, <1>3, <1>4 DEF Owes, Steady

LEMMA PreflightKeeps ==
  ASSUME TypeOK, Steady, NEW q \in Ops, PreflightKnows(q), pc'[q] = pc[q], pre'[q] = pre[q]
  PROVE  PreflightKnows(q)'
BY HandKeeps, ListKeeps, OwesKeeps DEF PreflightKnows

\* The step of one operation.
LEMMA OpStep ==
  ASSUME RunnerInv, NEW o \in Ops, Steady, TypeOK', ProcessesTell', RegistryTells',
         \A q \in Ops \ {o} : pc'[q] = pc[q] /\ pre'[q] = pre[q], PreflightKnows(o)'
  PROVE  RunnerInv'
<1>1. ASSUME NEW q \in Ops \ {o} PROVE PreflightKnows(q)'
  BY PreflightKeeps DEF RunnerInv
<1> QED
  BY <1>1 DEF RunnerInv

LEMMA RegistryKeeps ==
  ASSUME RunnerInv, Steady, mine' = mine, aged' = aged,
         \A i \in Ops : rec'[i] \in {rec[i], Nothing}
  PROVE  RegistryTells'
<1> SUFFICES ASSUME NEW i \in Ops
             PROVE  /\ rec'[i] # Nothing => RecordTells(i, rec[i])'
                    /\ Origin(i, mine[i].start)'
                    /\ QuickStarts /\ i \in aged' => pc'[i] \in Ended
  BY DEF RegistryTells
<1>1. mine[i].start \in Times \cup {Nothing}
  BY DEF RunnerInv, TypeOK, Owner
<1>2. Origin(i, mine[i].start)'
  BY <1>1, OriginStays DEF RunnerInv, RegistryTells, Steady
<1>3. rec'[i] # Nothing => rec'[i] = rec[i] /\ rec[i] \in Record
  BY DEF RunnerInv, TypeOK
<1>4. rec'[i] # Nothing => RecordTells(i, rec[i])'
  BY <1>3, RecordTellsStays DEF RunnerInv, RegistryTells
<1> QED
  BY <1>2, <1>4 DEF RunnerInv, RegistryTells, Steady

LEMMA ProcsShrink ==
  ASSUME RunnerInv, starts' = starts, \A p \in Pids : procs'[p] \in {procs[p], Nothing}
  PROVE  ProcessesTell' /\ ProcsStep
<1>1. starts \in Nat
  BY BoundsAssumption DEF RunnerInv, TypeOK
<1> QED
  BY <1>1 DEF RunnerInv, ProcessesTell, ProcsStep

-----------------------------------------------------------------------------
(* The preflight.                                                          *)

\* What every step of the preflight of o has in common.
PreflightStep(o) ==
    /\ pc[o] \in PreflightPoints /\ pc'[o] \in PreflightPoints \cup {"create"}
    /\ pc' = [pc EXCEPT ![o] = pc'[o]]
    /\ pre' = [pre EXCEPT ![o] = pre'[o]] /\ pre'[o] \in Locals
    /\ faults' \in 0..MaxFaults /\ faults <= faults'
    /\ UNCHANGED <<starts, aged, runner>>
    /\ procs' \in [Pids -> Process \cup {Nothing}] /\ \A p \in Pids : procs'[p] \in {procs[p], Nothing}
    /\ rec' \in [Ops -> Record \cup {Nothing}] /\ \A i \in Ops : rec[i] = Nothing => rec'[i] = Nothing

LEMMA PreflightFrame ==
  ASSUME RunnerInv, NEW o \in Ops, PreflightStep(o)
  PROVE  /\ TypeOK' /\ Steady /\ ProcessesTell'
         /\ \A q \in Ops \ {o} : pc'[q] = pc[q] /\ pre'[q] = pre[q]
         /\ (\A i \in Ops : rec'[i] \in {rec[i], Nothing}) => RegistryTells'
<1>1. TypeOK
  BY DEF RunnerInv
<1>2. \A q \in Ops \ {o} : pc'[q] = pc[q] /\ pre'[q] = pre[q]
  BY <1>1 DEF PreflightStep, TypeOK
<1>3. TypeOK'
  <2>1. pc' \in [Ops -> PreflightPoints \cup RunnerPoints]
    BY <1>1 DEF PreflightStep, TypeOK, RunnerPoints
  <2>2. pre' \in [Ops -> Locals]
    BY <1>1 DEF PreflightStep, TypeOK
  <2> QED
    BY <1>1, <2>1, <2>2 DEF PreflightStep, TypeOK, runner
<1>4. ProcessesTell' /\ ProcsStep
  BY ProcsShrink DEF PreflightStep
<1>5. faults' = 0 => faults = 0
  BY <1>1, StartsFacts DEF PreflightStep
<1>6. ~Begun(o) /\ pc[o] \notin Ended
  BY DEF PreflightStep, Begun, PreflightPoints, Ended
<1>7. Steady
  BY <1>2, <1>4, <1>5, <1>6 DEF PreflightStep, Steady, Begun
<1> QED
  BY <1>2, <1>3, <1>4, <1>7, RegistryKeeps DEF PreflightStep, runner

\* A step that leaves the records to others, or removes one.
LEMMA PreflightKeepsInv ==
  ASSUME RunnerInv, NEW o \in Ops, PreflightStep(o), PreflightKnows(o)',
         \A i \in Ops : rec'[i] \in {rec[i], Nothing}
  PROVE  RunnerInv'
BY PreflightFrame, OpStep

\* The visit of a record ends at once.
VisitDone(o, i) ==
    LET l == pre[o] IN
    /\ At(o, i) /\ pc'[o] = "records"
    /\ pre'[o].todo = [l.todo EXCEPT ![i] = Nothing]
    /\ pre'[o].cur = l.cur /\ pre'[o].list = l.list /\ pre'[o].owed = l.owed
    /\ l.errors => pre'[o].errors
    /\ l.owed[i] = Nothing \/ pre'[o].errors

\* Record i is taken in hand.
VisitTaken(o, i) ==
    LET l == pre[o] IN
    /\ At(o, i) /\ pc'[o] \in {"markCleaned", "killOwned", "revalidate"}
    /\ pre'[o].todo = [l.todo EXCEPT ![i] = Nothing]
    /\ pre'[o].cur = i /\ pre'[o].list = l.list /\ pre'[o].owed = l.owed
    /\ pre'[o].errors = l.errors

LEMMA TodoKnown ==
  ASSUME RunnerInv, NEW o \in Ops, NEW i \in Ops, Steady,
         pre'[o].todo = [pre[o].todo EXCEPT ![i] = Nothing]
  PROVE  /\ \A j \in Ops : pre'[o].todo[j] # Nothing => RecordTells(j, pre[o].todo[j])'
         /\ pre'[o].todo[i] = Nothing
         /\ \A j \in Ops \ {i} : pre'[o].todo[j] = pre[o].todo[j]
<1>1. pre[o].todo \in [Ops -> Record \cup {Nothing}]
  BY DEF RunnerInv, TypeOK, Locals
<1>2. /\ pre'[o].todo[i] = Nothing
      /\ \A j \in Ops \ {i} : pre'[o].todo[j] = pre[o].todo[j]
  BY <1>1
<1>3. ASSUME NEW j \in Ops, pre'[o].todo[j] # Nothing PROVE RecordTells(j, pre[o].todo[j])'
  <2>1. pre'[o].todo[j] = pre[o].todo[j] /\ pre[o].todo[j] \in Record
    BY <1>1, <1>2, <1>3
  <2>2. PICK r \in Record : r = pre[o].todo[j]
    BY <2>1
  <2>3. RecordTells(j, r)
    BY <1>3, <2>1, <2>2 DEF RunnerInv, PreflightKnows, ListKnows
  <2>4. RecordTells(j, r)'
    BY <2>3, RecordTellsStays DEF RunnerInv
  <2> QED
    BY <2>1, <2>2, <2>4
<1> QED
  BY <1>2, <1>3

LEMMA ListedStay ==
  ASSUME RunnerInv, NEW o \in Ops, Steady, pre'[o].list \subseteq pre[o].list
  PROVE  \A m \in pre'[o].list : Origin("user", m.start)'
<1>1. ASSUME NEW m \in pre[o].list PROVE Origin("user", m.start)'
  <2>1. m.start \in Times \cup {Nothing}
    BY DEF RunnerInv, TypeOK, Locals, OsInfo
  <2> QED
    BY <2>1, OriginStays DEF RunnerInv, PreflightKnows, HandKnows, Steady
<1> QED
  BY <1>1

\* An eligible record that is owed, in the next state.
LEMMA OwedStay ==
  ASSUME RunnerInv, NEW o \in Ops, NEW i \in Ops, Steady, pre[o].owed[i] # Nothing
  PROVE  /\ pre[o].owed[i] \in Record /\ RecordTells(i, pre[o].owed[i])
         /\ pre'[o].owed = pre[o].owed => RecordTells(i, pre[o].owed[i])'
         /\ pre[o].owed[i].status \in ELIGIBLE_STATUSES
         /\ rec[i] = Nothing => rec'[i] = Nothing
         /\ isOwned(pre[o].owed[i]) /\ Gone(pre[o].owed[i]) /\ pre'[o].owed = pre[o].owed
              => Gone(pre[o].owed[i])'
<1>1. PICK r \in Record : r = pre[o].owed[i]
  BY DEF RunnerInv, TypeOK, Locals
<1>2. RecordTells(i, r) /\ r.status \in ELIGIBLE_STATUSES
  BY <1>1 DEF RunnerInv, PreflightKnows, Owes
<1>3. RecordTells(i, r)'
  BY <1>2, RecordTellsStays DEF RunnerInv
<1>4. isOwned(r) /\ Gone(r) => Gone(r)'
  BY <1>2, GoneStays DEF RunnerInv, RecordTells, Steady
<1>5. rec[i] = Nothing => rec'[i] = Nothing
  BY <1>2 DEF RecordTells, Steady
<1> QED
  BY <1>1, <1>2, <1>3, <1>4, <1>5

LEMMA VisitDoneKnows ==
  ASSUME RunnerInv, NEW o \in Ops, NEW i \in Ops, PreflightStep(o), VisitDone(o, i)
  PROVE  PreflightKnows(o)'
<1>1. Steady
  BY PreflightFrame
<1>2. pc[o] = "records" /\ pre[o].cur = Nothing /\ pre'[o].cur = Nothing
  BY DEF VisitDone, At, RunnerInv, PreflightKnows, HandKnows
<1>3. HandKnows(o)'
  BY <1>1, <1>2, ListedStay DEF VisitDone, HandKnows, KillPoints
<1>4. ListKnows(o)'
  BY <1>1, TodoKnown DEF VisitDone, ListKnows
<1>5. ASSUME NEW j \in Ops PROVE Owes(o, j)'
  <2> SUFFICES ASSUME pre[o].owed[j] # Nothing PROVE Owes(o, j)'
    BY DEF VisitDone, Owes
  <2>1. Owes(o, j)
    BY DEF RunnerInv, PreflightKnows
  <2>2. /\ pre'[o].todo[j] # Nothing => pre'[o].todo[j] = pre[o].todo[j]
        /\ j # i => pre'[o].todo[j] = pre[o].todo[j]
        /\ j = i => pre'[o].errors
    BY <1>1, TodoKnown DEF VisitDone
  <2>3. j # Nothing
    BY NothingFacts
  <2> QED
    BY <1>1, <1>2, <2>1, <2>2, <2>3, OwedStay DEF VisitDone, Owes, Steady
<1> QED
  BY <1>3, <1>4, <1>5 DEF PreflightKnows

LEMMA VisitTakenKnows ==
  ASSUME RunnerInv, NEW o \in Ops, NEW i \in Ops, PreflightStep(o), VisitTaken(o, i),
         pc'[o] \in {"killOwned", "revalidate"} => pre'[o].target # Nothing,
         pc'[o] = "revalidate" => Origin("user", pre[o].target.start)',
         pc'[o] = "killOwned" =>
             /\ Origin(i, pre[o].target.start)' /\ (QuickStarts => pc'[i] \in Ended)
             /\ QuickKills => \/ procs'[pre'[o].target.pid] = Nothing
                              \/ procs'[pre'[o].target.pid].start = pre'[o].target.start,
         pre[o].owed[i] # Nothing /\ isOwned(pre[o].owed[i]) =>
             /\ pc'[o] # "revalidate"
             /\ pc'[o] = "killOwned" => pre'[o].target.pid = pre[o].owed[i].pid
             /\ pc'[o] = "markCleaned" /\ faults' = 0 => Gone(pre[o].owed[i])
  PROVE  PreflightKnows(o)'
<1>1. Steady
  BY PreflightFrame
<1>2. pc[o] = "records" /\ pre[o].cur = Nothing /\ pre'[o].cur = i /\ i # Nothing
  BY NothingFacts DEF VisitTaken, At, RunnerInv, PreflightKnows, HandKnows
<1>3. HandKnows(o)'
  BY <1>1, <1>2, ListedStay DEF VisitTaken, HandKnows, KillPoints
<1>4. ListKnows(o)'
  BY <1>1, <1>2, TodoKnown DEF VisitTaken, ListKnows
<1>5. ASSUME NEW j \in Ops PROVE Owes(o, j)'
  <2> SUFFICES ASSUME pre[o].owed[j] # Nothing PROVE Owes(o, j)'
    BY DEF VisitTaken, Owes
  <2>1. Owes(o, j)
    BY DEF RunnerInv, PreflightKnows
  <2>2. /\ pre'[o].todo[j] # Nothing => pre'[o].todo[j] = pre[o].todo[j]
        /\ j # i => pre'[o].todo[j] = pre[o].todo[j]
    BY <1>1, TodoKnown DEF VisitTaken
  <2>3. j # Nothing
    BY NothingFacts
  <2> QED
    BY <1>1, <1>2, <2>1, <2>2, <2>3, OwedStay DEF VisitTaken, Owes, Steady
<1> QED
  BY <1>3, <1>4, <1>5 DEF PreflightKnows

(* The local variables that the steps compute.                             *)
LEMMA VisitedFacts ==
  ASSUME RunnerInv, NEW o \in Ops, NEW i \in Ops
  PROVE  /\ Visited(o, i) \in Locals
         /\ Visited(o, i).todo = [pre[o].todo EXCEPT ![i] = Nothing]
         /\ Visited(o, i).cur = pre[o].cur /\ Visited(o, i).list = pre[o].list
         /\ Visited(o, i).owed = pre[o].owed /\ Visited(o, i).errors = pre[o].errors
<1>1. PICK l \in Locals : l = pre[o]
  BY DEF RunnerInv, TypeOK
<1>2. PICK m : m = [l EXCEPT !.todo[i] = Nothing]
  OBVIOUS
<1>3. m \in Locals
  BY <1>2 DEF Locals
<1>4. m.todo = [l.todo EXCEPT ![i] = Nothing]
  BY <1>2 DEF Locals
<1>5. m.cur = l.cur /\ m.list = l.list /\ m.owed = l.owed /\ m.errors = l.errors
  BY <1>2 DEF Locals
<1>6. Visited(o, i) = m
  BY <1>1, <1>2 DEF Visited
<1> QED
  BY <1>1, <1>3, <1>4, <1>5, <1>6

LEMMA VisitedWithErrorFacts ==
  ASSUME RunnerInv, NEW o \in Ops, NEW i \in Ops
  PROVE  /\ VisitedWithError(o, i) \in Locals
         /\ VisitedWithError(o, i).todo = [pre[o].todo EXCEPT ![i] = Nothing]
         /\ VisitedWithError(o, i).cur = pre[o].cur /\ VisitedWithError(o, i).list = pre[o].list
         /\ VisitedWithError(o, i).owed = pre[o].owed /\ VisitedWithError(o, i).errors
<1>1. PICK l \in Locals : l = Visited(o, i)
  BY VisitedFacts
<1>2. PICK m : m = [l EXCEPT !.errors = TRUE]
  OBVIOUS
<1>3. m \in Locals
  BY <1>2 DEF Locals
<1>4. m.todo = l.todo /\ m.cur = l.cur /\ m.list = l.list /\ m.owed = l.owed
  BY <1>2 DEF Locals
<1>5. m.errors
  BY <1>2 DEF Locals
<1>6. VisitedWithError(o, i) = m
  BY <1>1, <1>2 DEF VisitedWithError
<1> QED
  BY <1>1, <1>3, <1>4, <1>5, <1>6, VisitedFacts

LEMMA HandledFacts ==
  ASSUME NEW l \in Locals, NEW p \in Pids
  PROVE  LET m == [l EXCEPT !.handled = @ \cup {p}] IN
         /\ m \in Locals /\ m.todo = l.todo /\ m.cur = l.cur /\ m.target = l.target
         /\ m.list = l.list /\ m.owed = l.owed /\ m.errors = l.errors
<1>1. PICK m : m = [l EXCEPT !.handled = @ \cup {p}]
  OBVIOUS
<1>2. m \in Locals
  BY <1>1 DEF Locals
<1>3. m.todo = l.todo /\ m.cur = l.cur /\ m.target = l.target /\ m.list = l.list /\ m.owed = l.owed
  BY <1>1 DEF Locals
<1>4. m.errors = l.errors
  BY <1>1 DEF Locals
<1> QED
  BY <1>1, <1>2, <1>3, <1>4

LEMMA TakenFacts ==
  ASSUME NEW l \in Locals, NEW i \in Ops
  PROVE  LET m == [l EXCEPT !.cur = i] IN
         /\ m \in Locals /\ m.todo = l.todo /\ m.cur = i /\ m.list = l.list
         /\ m.owed = l.owed /\ m.errors = l.errors
<1>1. PICK m : m = [l EXCEPT !.cur = i]
  OBVIOUS
<1>2. m \in Locals
  BY <1>1 DEF Locals
<1>3. m.todo = l.todo /\ m.cur = i /\ m.list = l.list /\ m.owed = l.owed
  BY <1>1 DEF Locals
<1>4. m.errors = l.errors
  BY <1>1 DEF Locals
<1> QED
  BY <1>1, <1>2, <1>3, <1>4

LEMMA GiveUpFacts ==
  ASSUME RunnerInv, NEW o \in Ops
  PROVE  /\ GiveUp(o) \in Locals
         /\ GiveUp(o).cur = Nothing /\ GiveUp(o).errors /\ GiveUp(o).todo = pre[o].todo
         /\ GiveUp(o).list = pre[o].list /\ GiveUp(o).owed = pre[o].owed
<1>1. PICK l \in Locals : l = pre[o]
  BY DEF RunnerInv, TypeOK
<1>2. PICK m : m = [l EXCEPT !.cur = Nothing, !.target = Nothing, !.errors = TRUE]
  OBVIOUS
<1>3. m \in Locals
  BY <1>2 DEF Locals
<1>4. m.cur = Nothing /\ m.todo = l.todo /\ m.list = l.list /\ m.owed = l.owed
  BY <1>2 DEF Locals
<1>5. m.errors
  BY <1>2 DEF Locals
<1>6. GiveUp(o) = m
  BY <1>1, <1>2 DEF GiveUp
<1> QED
  BY <1>1, <1>3, <1>4, <1>5, <1>6

\* What was in hand is given up: back to the loop that took it.
LEMMA GiveUpKnows ==
  ASSUME RunnerInv, NEW o \in Ops, PreflightStep(o), pre' = [pre EXCEPT ![o] = GiveUp(o)],
         \/ pc[o] \in {"killOwned", "markCleaned"} /\ pc'[o] = "records"
         \/ pc[o] \in {"revalidate", "killHeadless"} /\ pc'[o] = Caller(o)
  PROVE  PreflightKnows(o)'
<1>1. Steady
  BY PreflightFrame
<1>2. pre[o] \in Locals /\ pre'[o] = GiveUp(o)
  BY DEF RunnerInv, TypeOK
<1>3. /\ pre'[o].cur = Nothing /\ pre'[o].errors /\ pre'[o].todo = pre[o].todo
      /\ pre'[o].list = pre[o].list /\ pre'[o].owed = pre[o].owed
  BY <1>2, GiveUpFacts
<1>4. /\ pc'[o] \in {"records", "orphans"}
      /\ pc'[o] = "orphans" => pc[o] \in {"revalidate", "killHeadless"} /\ pre[o].cur = Nothing
  BY DEF Caller
<1>5. HandKnows(o)'
  BY <1>1, <1>3, <1>4, ListedStay DEF HandKnows, KillPoints
<1>6. ASSUME NEW j \in Ops, pre[o].todo[j] # Nothing PROVE RecordTells(j, pre[o].todo[j])'
  <2>1. PICK r \in Record : r = pre[o].todo[j]
    BY <1>2, <1>6 DEF Locals
  <2>2. RecordTells(j, r)
    BY <1>6, <2>1 DEF RunnerInv, PreflightKnows, ListKnows
  <2>3. RecordTells(j, r)'
    BY <1>1, <2>2, RecordTellsStays DEF RunnerInv
  <2> QED
    BY <1>3, <2>1, <2>3
<1>7. ListKnows(o)'
  BY <1>3, <1>4, <1>6 DEF ListKnows, RunnerInv, PreflightKnows
<1>8. ASSUME NEW j \in Ops PROVE Owes(o, j)'
  <2> SUFFICES ASSUME pre[o].owed[j] # Nothing PROVE Owes(o, j)'
    BY <1>3 DEF Owes
  <2>1. Owes(o, j)
    BY DEF RunnerInv, PreflightKnows
  <2>2. j # Nothing
    BY NothingFacts
  <2> QED
    BY <1>1, <1>3, <2>1, <2>2, OwedStay DEF Owes
<1> QED
  BY <1>5, <1>7, <1>8 DEF PreflightKnows

-----------------------------------------------------------------------------
(* One lemma per step of the preflight.                                    *)

LEMMA FaultFacts ==
  ASSUME RunnerInv
  PROVE  /\ Fault => faults' \in 0..MaxFaults /\ faults <= faults' /\ faults' # 0
         /\ faults' = faults => faults' \in 0..MaxFaults /\ faults <= faults'
<1>1. faults \in 0..MaxFaults /\ MaxFaults \in Nat
  BY BoundsAssumption DEF RunnerInv, TypeOK
<1> QED
  BY <1>1 DEF Fault

LEMMA InfoFacts ==
  ASSUME RunnerInv, NEW p \in Pids, IsAccess(p)
  PROVE  /\ Info(p) \in OsInfo /\ Info(p) # Nothing
         /\ Info(p).pid = p /\ Info(p).start = procs[p].start /\ Info(p).named = procs[p].named
<1>1. procs[p] \in Process
  BY DEF RunnerInv, TypeOK, IsAccess
<1>2. Info(p) \in OsInfo
  BY <1>1 DEF Info, OsInfo, Process
<1> QED
  BY <1>2, NothingFacts DEF Info

LEMMA PointsStay == ASSUME RunnerInv, NEW o \in Ops, pc' = pc PROVE Goto(o, pc[o])
BY DEF RunnerInv, TypeOK, Goto

\* A step from to, with the locals l, that leaves the world and the records alone.
LEMMA LocalStep ==
  ASSUME RunnerInv, NEW o \in Ops, pc[o] \in PreflightPoints,
         NEW to \in PreflightPoints \cup {"create"}, NEW l \in Locals,
         Goto(o, to), Set(o, l), Fault \/ faults' = faults,
         UNCHANGED <<world, rec, runner>>
  PROVE  PreflightStep(o) /\ pc'[o] = to /\ pre'[o] = l /\ \A i \in Ops : rec'[i] \in {rec[i], Nothing}
<1>1. TypeOK
  BY DEF RunnerInv
<1>2. pc'[o] = to /\ pre'[o] = l
  BY <1>1 DEF Goto, Set, TypeOK
<1>3. faults' \in 0..MaxFaults /\ faults <= faults'
  BY FaultFacts
<1> QED
  BY <1>1, <1>2, <1>3 DEF PreflightStep, Goto, Set, TypeOK, world

LEMMA VisitPoint == ASSUME NEW o, NEW i, At(o, i) PROVE pc[o] = "records" /\ pc[o] \in PreflightPoints
BY DEF At, PreflightPoints

\* A record whose visit ends at once, in a step that changes no record.
LEMMA DoneInv ==
  ASSUME RunnerInv, NEW o \in Ops, NEW i \in Ops, At(o, i), pc' = pc, NEW l \in Locals, Set(o, l),
         Fault \/ faults' = faults, UNCHANGED <<world, rec, runner>>,
         l.todo = [pre[o].todo EXCEPT ![i] = Nothing],
         l.cur = pre[o].cur, l.list = pre[o].list, l.owed = pre[o].owed,
         pre[o].errors => l.errors, pre[o].owed[i] = Nothing \/ l.errors
  PROVE  RunnerInv'
<1>1. pc[o] = "records" /\ pc[o] \in PreflightPoints
  BY VisitPoint
<1>2. /\ PreflightStep(o) /\ pc'[o] = "records" /\ pre'[o] = l
      /\ \A j \in Ops : rec'[j] \in {rec[j], Nothing}
  BY <1>1, PointsStay, LocalStep
<1>3. VisitDone(o, i)
  BY <1>2 DEF VisitDone
<1> QED
  BY <1>2, <1>3, VisitDoneKnows, PreflightKeepsInv

LEMMA ErrorInv ==
  ASSUME RunnerInv, NEW o \in Ops, NEW i \in Ops, At(o, i), pc' = pc, Set(o, VisitedWithError(o, i)),
         Fault \/ faults' = faults, UNCHANGED <<world, rec, runner>>
  PROVE  RunnerInv'
<1>1. PICK l \in Locals : l = VisitedWithError(o, i)
  BY VisitedWithErrorFacts
<1>2. /\ l.todo = [pre[o].todo EXCEPT ![i] = Nothing]
      /\ l.cur = pre[o].cur /\ l.list = pre[o].list /\ l.owed = pre[o].owed /\ l.errors
  BY <1>1, VisitedWithErrorFacts
<1>3. Set(o, l)
  BY <1>1
<1> QED
  BY <1>2, <1>3, DoneInv

LEMMA SkipRecordInv ==
  ASSUME RunnerInv, NEW o \in Ops, NEW i \in Ops, SkipRecord(o, i), UNCHANGED runner
  PROVE  RunnerInv'
<1>1. PICK l \in Locals : l = Visited(o, i)
  BY VisitedFacts
<1>2. /\ l.todo = [pre[o].todo EXCEPT ![i] = Nothing] /\ l.errors = pre[o].errors
      /\ l.cur = pre[o].cur /\ l.list = pre[o].list /\ l.owed = pre[o].owed
  BY <1>1, VisitedFacts
<1>3. At(o, i) /\ pc' = pc /\ Set(o, l) /\ faults' = faults /\ UNCHANGED <<world, rec, runner>>
  BY <1>1 DEF SkipRecord
<1>4. pre[o].owed[i] = Nothing
  BY DEF SkipRecord, At, RunnerInv, PreflightKnows, Owes
<1> QED
  BY <1>2, <1>3, <1>4, DoneInv

LEMMA ListRecordsInv ==
  ASSUME RunnerInv, NEW o \in Ops, ListRecords(o), UNCHANGED runner
  PROVE  RunnerInv'
<1>1. pc[o] = "preflight" /\ pc[o] \in PreflightPoints /\ UNCHANGED <<world, rec, runner>>
  BY DEF ListRecords, PreflightPoints
<1>2. /\ NoLocals \in Locals /\ NoLocals.cur = Nothing /\ NoLocals.list = {}
      /\ NoLocals.todo = [i \in Ops |-> Nothing] /\ NoLocals.owed = [i \in Ops |-> Nothing]
  BY DEF NoLocals, Locals
<1>3. CASE Goto(o, "create") /\ Set(o, [NoLocals EXCEPT !.errors = TRUE]) /\ Fault
  <2>1. PICK n \in Locals : n = NoLocals
    BY <1>2
  <2>2. PICK l : l = [n EXCEPT !.errors = TRUE]
    OBVIOUS
  <2>3. l \in Locals
    BY <2>2 DEF Locals
  <2>4. l.cur = n.cur /\ l.list = n.list /\ l.todo = n.todo /\ l.owed = n.owed
    BY <2>2 DEF Locals
  <2>5. Set(o, l)
    BY <1>3, <2>1, <2>2
  <2>6. PreflightStep(o) /\ pc'[o] = "create" /\ pre'[o] = l /\ \A i \in Ops : rec'[i] \in {rec[i], Nothing}
    BY <1>1, <1>3, <2>3, <2>5, LocalStep
  <2>7. PreflightKnows(o)'
    BY <1>2, <2>1, <2>4, <2>6 DEF PreflightKnows, HandKnows, ListKnows, Owes, KillPoints
  <2> QED
    BY <2>6, <2>7, PreflightKeepsInv
<1> DEFINE listed == [i \in Ops |-> IF RootOf[i] = RootOf[o] THEN rec[i] ELSE Nothing]
           due == [i \in Ops |-> IF listed[i] # Nothing
                                 THEN IF listed[i].status \in ELIGIBLE_STATUSES
                                      THEN listed[i] ELSE Nothing
                                 ELSE Nothing]
<1>4. CASE /\ Goto(o, "records") /\ faults' = faults
           /\ Set(o, [NoLocals EXCEPT !.todo = listed, !.owed = due])
  <2>1. PICK n \in Locals : n = NoLocals
    BY <1>2
  <2>2. /\ listed \in [Ops -> Record \cup {Nothing}] /\ due \in [Ops -> Record \cup {Nothing}]
        /\ \A i \in Ops : listed[i] # Nothing => listed[i] = rec[i]
        /\ \A i \in Ops : due[i] # Nothing => listed[i] = due[i] /\ due[i].status \in ELIGIBLE_STATUSES
    BY DEF RunnerInv, TypeOK
  <2>3. PICK todo, owed : todo = listed /\ owed = due
    OBVIOUS
  <2>4. PICK l : l = [n EXCEPT !.todo = todo, !.owed = owed]
    OBVIOUS
  <2> HIDE DEF listed, due
  <2>5. l \in Locals
    BY <2>2, <2>3, <2>4 DEF Locals
  <2>6. l.cur = n.cur /\ l.list = n.list /\ l.todo = todo /\ l.owed = owed
    BY <2>4 DEF Locals
  <2>7. Set(o, l)
    BY <1>4, <2>1, <2>3, <2>4
  <2>8. PreflightStep(o) /\ pc'[o] = "records" /\ pre'[o] = l /\ \A i \in Ops : rec'[i] \in {rec[i], Nothing}
    BY <1>1, <1>4, <2>5, <2>7, LocalStep DEF PreflightPoints
  <2>9. HandKnows(o)'
    BY <1>2, <2>1, <2>6, <2>8 DEF HandKnows, KillPoints
  <2>10. ASSUME NEW i \in Ops, todo[i] # Nothing PROVE RecordTells(i, todo[i])'
    <3>1. todo[i] = rec[i] /\ rec'[i] = rec[i] /\ rec'[i] # Nothing
      BY <1>1, <2>2, <2>3, <2>10
    <3>2. RegistryTells'
      BY <2>8, PreflightFrame
    <3> QED
      BY <3>1, <3>2 DEF RegistryTells
  <2>11. ListKnows(o)'
    BY <2>6, <2>8, <2>10 DEF ListKnows
  <2>12. ASSUME NEW i \in Ops PROVE Owes(o, i)'
    <3>1. i # Nothing
      BY NothingFacts
    <3>2. owed[i] # Nothing => todo[i] = owed[i] /\ owed[i].status \in ELIGIBLE_STATUSES
      BY <2>2, <2>3
    <3> QED
      BY <1>2, <2>1, <2>6, <2>8, <2>10, <3>1, <3>2 DEF Owes
  <2> QED
    BY <2>8, <2>9, <2>11, <2>12, PreflightKeepsInv DEF PreflightKnows
<1> QED
  BY <1>3, <1>4 DEF ListRecords

LEMMA markInterruptedInv ==
  ASSUME RunnerInv, NEW o \in Ops, NEW i \in Ops, markInterruptedStartingFailed(o, i), UNCHANGED runner
  PROVE  RunnerInv'
<1>1. /\ At(o, i) /\ pc' = pc /\ UNCHANGED <<world, runner>> /\ i \in aged
      /\ pre[o].todo[i].status = "starting" /\ pc[o] = "records" /\ pc[o] \in PreflightPoints
  BY VisitPoint DEF markInterruptedStartingFailed, isInterruptedStartingRecord
<1>2. CASE Fault /\ Set(o, VisitedWithError(o, i)) /\ UNCHANGED rec
  BY <1>1, <1>2, ErrorInv
<1>3. CASE /\ rec' = IF rec[i] = Nothing THEN rec
                     ELSE Updated(i, "failed", rec[i].pid, rec[i].start)
           /\ Set(o, Visited(o, i)) /\ UNCHANGED faults
  <2>1. PICK l \in Locals : l = Visited(o, i)
    BY VisitedFacts
  <2>2. /\ l.todo = [pre[o].todo EXCEPT ![i] = Nothing] /\ l.errors = pre[o].errors
        /\ l.cur = pre[o].cur /\ l.list = pre[o].list /\ l.owed = pre[o].owed
    BY <2>1, VisitedFacts
  <2>3. pre' = [pre EXCEPT ![o] = l] /\ pre'[o] = l
    BY <1>3, <2>1 DEF Set, RunnerInv, TypeOK
  <2>4. CASE rec[i] = Nothing
    <3>1. Set(o, l) /\ faults' = faults /\ UNCHANGED <<world, rec, runner>>
      BY <1>1, <1>3, <2>1, <2>4
    <3>2. pre[o].owed[i] = Nothing
      BY <1>1 DEF At, RunnerInv, PreflightKnows, Owes, ELIGIBLE_STATUSES
    <3> QED
      BY <1>1, <2>2, <3>1, <3>2, DoneInv
  <2>5. CASE rec[i] # Nothing
    <3>1. PICK r : r = [status |-> "failed", pid |-> rec[i].pid, start |-> rec[i].start]
      OBVIOUS
    <3>2. rec[i] \in Record
      BY <2>5 DEF RunnerInv, TypeOK
    <3>3. r \in Record /\ r.start = rec[i].start
      BY <3>1, <3>2 DEF Record, ELIGIBLE_STATUSES
    <3>4. rec' = [rec EXCEPT ![i] = r]
      BY <1>3, <2>5, <3>1 DEF Updated, PURGED_PERSISTENT_STATUSES
    <3>5. PreflightStep(o)
      <4>1. TypeOK /\ faults' \in 0..MaxFaults /\ faults <= faults'
        BY <1>3, FaultFacts DEF RunnerInv
      <4>2. rec' \in [Ops -> Record \cup {Nothing}] /\ \A j \in Ops : rec[j] = Nothing => rec'[j] = Nothing
        BY <2>5, <3>3, <3>4, <4>1 DEF TypeOK
      <4> QED
        BY <1>1, <2>3, <4>1, <4>2 DEF PreflightStep, TypeOK, world
    <3>6. /\ TypeOK' /\ Steady /\ ProcessesTell'
          /\ \A q \in Ops \ {o} : pc'[q] = pc[q] /\ pre'[q] = pre[q]
      BY <3>5, PreflightFrame
    <3>7. RegistryTells'
      <4> SUFFICES ASSUME NEW j \in Ops
                   PROVE  /\ rec'[j] # Nothing => RecordTells(j, rec[j])'
                          /\ Origin(j, mine[j].start)'
                          /\ QuickStarts /\ j \in aged' => pc'[j] \in Ended
        BY DEF RegistryTells
      <4>1. mine[j].start \in Times \cup {Nothing}
        BY DEF RunnerInv, TypeOK, Owner
      <4>2. Origin(j, mine[j].start)'
        <5>1. PICK s \in Times \cup {Nothing} : s = mine[j].start
          BY <4>1
        <5>2. Origin(j, s)'
          BY <3>6, <5>1, OriginStays DEF RunnerInv, RegistryTells, Steady
        <5> QED
          BY <1>1, <5>1, <5>2 DEF runner
      <4>3. QuickStarts /\ j \in aged' => pc'[j] \in Ended
        BY <1>1 DEF RunnerInv, RegistryTells, world
      <4>4. ASSUME rec'[j] # Nothing PROVE RecordTells(j, rec[j])'
        <5>1. CASE j # i
          <6>1. PICK s \in Record : s = rec[j] /\ s = rec'[j]
            BY <3>4, <4>4, <5>1 DEF RunnerInv, TypeOK
          <6>2. RecordTells(j, s)'
            BY <3>6, <4>4, <5>1, <6>1, NothingFacts, RecordTellsStays DEF RunnerInv, RegistryTells
          <6> QED
            BY <6>1, <6>2
        <5>2. CASE j = i
          <6>1. RecordTells(i, rec[i]) /\ rec[i].start \in Times \cup {Nothing} /\ rec'[i] = r
            BY <2>5, <3>2, <3>4 DEF RunnerInv, RegistryTells, Record, TypeOK
          <6>2. Origin(i, r.start)'
            BY <3>3, <3>6, <6>1, OriginStays DEF RunnerInv, RecordTells, Steady
          <6>3. Begun(i)' /\ (QuickStarts => pc'[i] \in Ended)
            BY <1>1, <3>6, <6>1 DEF RecordTells, Steady, RunnerInv, RegistryTells
          <6> QED
            BY <5>2, <6>1, <6>2, <6>3 DEF RecordTells
        <5> QED
          BY <5>1, <5>2
      <4> QED
        BY <4>2, <4>3, <4>4
    <3>8. pre[o].owed[i] = Nothing
      BY <1>1 DEF At, RunnerInv, PreflightKnows, Owes, ELIGIBLE_STATUSES
    <3>9. VisitDone(o, i)
      BY <1>1, <2>2, <2>3, <3>8 DEF VisitDone
    <3> QED
      BY <3>5, <3>6, <3>7, <3>9, VisitDoneKnows, OpStep
  <2> QED
    BY <2>4, <2>5
<1> QED
  BY <1>2, <1>3 DEF markInterruptedStartingFailed

\* Record i is taken and goes straight to markCleaned.
LEMMA RetireInv ==
  ASSUME RunnerInv, NEW o \in Ops, NEW i \in Ops, At(o, i), Goto(o, "markCleaned"),
         Set(o, [Visited(o, i) EXCEPT !.cur = i]), Fault \/ faults' = faults,
         UNCHANGED <<world, rec, runner>>,
         pre[o].owed[i] # Nothing /\ isOwned(pre[o].owed[i]) /\ faults' = 0 => Gone(pre[o].owed[i])
  PROVE  RunnerInv'
<1>1. PICK v \in Locals : v = Visited(o, i)
  BY VisitedFacts
<1>2. PICK l : l = [v EXCEPT !.cur = i]
  OBVIOUS
<1>3. /\ l \in Locals /\ l.todo = [pre[o].todo EXCEPT ![i] = Nothing] /\ l.errors = pre[o].errors
      /\ l.cur = i /\ l.list = pre[o].list /\ l.owed = pre[o].owed
  BY <1>1, <1>2, VisitedFacts, TakenFacts
<1>4. Set(o, l) /\ pc[o] = "records" /\ pc[o] \in PreflightPoints
  BY <1>1, <1>2, VisitPoint
<1>5. PreflightStep(o) /\ pc'[o] = "markCleaned" /\ pre'[o] = l /\ \A j \in Ops : rec'[j] \in {rec[j], Nothing}
  BY <1>3, <1>4, LocalStep DEF PreflightPoints
<1>6. VisitTaken(o, i)
  BY <1>3, <1>5 DEF VisitTaken
<1>7. PreflightKnows(o)'
  BY <1>5, <1>6, VisitTakenKnows
<1> QED
  BY <1>5, <1>7, PreflightKeepsInv

LEMMA reconcileRunningInv ==
  ASSUME RunnerInv, NEW o \in Ops, NEW i \in Ops, reconcileRunningRecord(o, i), UNCHANGED runner
  PROVE  RunnerInv'
<1> DEFINE r == pre[o].todo[i]
<1>1. At(o, i) /\ isTrackedRunning(r) /\ UNCHANGED <<world, rec, runner>>
  BY DEF reconcileRunningRecord
<1>2. pre[o].owed[i] = Nothing
  BY <1>1 DEF isTrackedRunning, At, RunnerInv, PreflightKnows, Owes, ELIGIBLE_STATUSES
<1>3. CASE Fault /\ Set(o, VisitedWithError(o, i)) /\ UNCHANGED pc
  BY <1>1, <1>3, ErrorInv
<1>4. ASSUME Fault \/ faults' = faults, Set(o, [Visited(o, i) EXCEPT !.cur = i]), Goto(o, "markCleaned")
      PROVE  RunnerInv'
  BY <1>1, <1>2, <1>4, RetireInv
<1>5. ASSUME Fault \/ faults' = faults, pc' = pc,
             Set(o, [Visited(o, i) EXCEPT !.handled = @ \cup {r.pid}])
      PROVE  RunnerInv'
  <2>1. PICK v \in Locals : v = Visited(o, i)
    BY VisitedFacts
  <2>2. PICK p \in Pids : p = r.pid
    BY <1>1 DEF At, isTrackedRunning, RunnerInv, TypeOK, Locals, Record
  <2>3. PICK l : l = [v EXCEPT !.handled = @ \cup {p}]
    OBVIOUS
  <2>4. /\ l \in Locals /\ l.todo = [pre[o].todo EXCEPT ![i] = Nothing] /\ l.errors = pre[o].errors
        /\ l.cur = pre[o].cur /\ l.list = pre[o].list /\ l.owed = pre[o].owed
    BY <2>1, <2>3, VisitedFacts, HandledFacts
  <2>5. Set(o, l)
    BY <1>5, <2>1, <2>2, <2>3
  <2> QED
    BY <1>1, <1>2, <1>5, <2>4, <2>5, DoneInv
<1> QED
  BY <1>3, <1>4, <1>5 DEF reconcileRunningRecord, Inspection

LEMMA cleanupRecordInv ==
  ASSUME RunnerInv, NEW o \in Ops, NEW i \in Ops, cleanupRecord(o, i), UNCHANGED runner
  PROVE  RunnerInv'
<1>1. PICK r \in Record : r = pre[o].todo[i]
  BY DEF cleanupRecord, At, RunnerInv, TypeOK, Locals
<1>2. /\ At(o, i) /\ r.status \in ELIGIBLE_STATUSES /\ isOwned(r) /\ UNCHANGED <<world, rec, runner>>
      /\ pc[o] = "records" /\ pc[o] \in PreflightPoints
  BY <1>1, VisitPoint DEF cleanupRecord
<1>3. r.pid \in Pids /\ r.start \in Times /\ r # Nothing
  BY <1>2, NothingFacts DEF isOwned, Record
<1>4. RecordTells(i, r) /\ (pre[o].owed[i] # Nothing => pre[o].owed[i] = r)
  BY <1>1, <1>3 DEF RunnerInv, PreflightKnows, ListKnows, Owes
<1>5. CASE Fault /\ Set(o, VisitedWithError(o, i)) /\ UNCHANGED pc
  BY <1>2, <1>5, ErrorInv
<1>6. ASSUME NEW seen \in {getProcess(r.pid), Nothing}, Inspection(r.pid, seen), seen = Nothing,
             Set(o, [Visited(o, i) EXCEPT !.cur = i]), Goto(o, "markCleaned")
      PROVE  RunnerInv'
  <2>1. ASSUME faults' = 0 PROVE Gone(r)
    <3>1. getProcess(r.pid) = Nothing
      BY <1>6, <2>1, FaultFacts DEF Inspection
    <3>2. ~IsAccess(r.pid)
      BY <1>3, <3>1, InfoFacts DEF getProcess
    <3>3. procs[r.pid] # Nothing => procs[r.pid].start # r.start
      BY <1>2, <1>3, <1>4, <3>2, NothingFacts DEF IsAccess, RecordTells, Origin
    <3> QED
      BY <3>3 DEF Gone
  <2>2. Fault \/ faults' = faults
    BY <1>6 DEF Inspection
  <2> QED
    BY <1>2, <1>4, <1>6, <2>1, <2>2, RetireInv
<1>7. ASSUME NEW seen \in {getProcess(r.pid), Nothing}, Inspection(r.pid, seen), seen # Nothing,
             seen.start # r.start, Set(o, VisitedWithError(o, i)), UNCHANGED pc
      PROVE  RunnerInv'
  BY <1>2, <1>7, ErrorInv DEF Inspection
<1>8. ASSUME NEW seen \in {getProcess(r.pid), Nothing}, Inspection(r.pid, seen), seen # Nothing,
             seen.start = r.start, Goto(o, "killOwned"),
             Set(o, [Visited(o, i) EXCEPT !.cur = i, !.target = seen, !.handled = @ \cup {r.pid}])
      PROVE  RunnerInv'
  <2>1. seen = getProcess(r.pid) /\ faults' = faults /\ IsAccess(r.pid) /\ seen = Info(r.pid)
    BY <1>8 DEF Inspection, getProcess
  <2>2. seen \in OsInfo /\ seen.pid = r.pid /\ seen.start = procs[r.pid].start
    BY <1>3, <2>1, InfoFacts
  <2>3. PICK v \in Locals : v = Visited(o, i)
    BY VisitedFacts
  <2>4. PICK l : l = [v EXCEPT !.cur = i, !.target = seen, !.handled = @ \cup {r.pid}]
    OBVIOUS
  <2>5. /\ l \in Locals /\ l.todo = [pre[o].todo EXCEPT ![i] = Nothing] /\ l.errors = pre[o].errors
        /\ l.cur = i /\ l.list = pre[o].list /\ l.owed = pre[o].owed /\ l.target = seen
    <3>1. PICK p \in Pids : p = r.pid
      BY <1>3
    <3>2. l = [v EXCEPT !.cur = i, !.target = seen, !.handled = @ \cup {p}]
      BY <2>4, <3>1
    <3>3. /\ l \in Locals /\ l.todo = v.todo /\ l.errors = v.errors
          /\ l.cur = i /\ l.list = v.list /\ l.owed = v.owed /\ l.target = seen
      <4>1. l \in Locals
        BY <2>2, <3>2 DEF Locals
      <4>2. l.todo = v.todo /\ l.cur = i /\ l.target = seen /\ l.list = v.list /\ l.owed = v.owed
        BY <2>2, <3>2 DEF Locals
      <4>3. l.errors = v.errors
        BY <2>2, <3>2 DEF Locals
      <4> QED
        BY <4>1, <4>2, <4>3
    <3> QED
      BY <2>3, <3>3, VisitedFacts
  <2>6. Set(o, l)
    BY <1>8, <2>3, <2>4
  <2>7. PreflightStep(o) /\ pc'[o] = "killOwned" /\ pre'[o] = l /\ \A j \in Ops : rec'[j] \in {rec[j], Nothing}
    BY <1>2, <1>8, <2>1, <2>5, <2>6, LocalStep DEF PreflightPoints
  <2>8. VisitTaken(o, i)
    BY <1>2, <2>5, <2>7 DEF VisitTaken
  <2>9. RecordTells(i, r)'
    BY <1>4, <2>7, PreflightFrame, RecordTellsStays DEF RunnerInv
  <2>10. Origin(i, pre[o].target.start)' /\ (QuickStarts => pc'[i] \in Ended)
    <3>1. pre'[o].target.start = r.start
      BY <1>8, <2>5, <2>7
    <3> QED
      BY <1>2, <2>9, <3>1 DEF RecordTells
  <2>11. procs'[pre'[o].target.pid].start = pre'[o].target.start
    BY <1>2, <2>2, <2>5, <2>7 DEF world
  <2>12. PreflightKnows(o)'
    BY <1>4, <1>8, <2>2, <2>5, <2>7, <2>8, <2>10, <2>11, VisitTakenKnows
  <2> QED
    BY <2>7, <2>12, PreflightKeepsInv
<1> QED
  BY <1>1, <1>5, <1>6, <1>7, <1>8 DEF cleanupRecord

\* An Access that names the database is a user's.
LEMMA NamedFacts ==
  ASSUME RunnerInv, NEW m \in listProcesses, m.named
  PROVE  m \in OsInfo /\ m # Nothing /\ m.pid \in Pids /\ m.start \in Times /\ Origin("user", m.start)
<1>1. PICK p \in Pids : IsAccess(p) /\ m = Info(p)
  BY DEF listProcesses
<1>2. /\ m \in OsInfo /\ m # Nothing /\ m.pid = p /\ m.start = procs[p].start /\ procs[p].named
      /\ procs[p] # Nothing
  BY <1>1, InfoFacts DEF IsAccess
<1>3. m.start \in Times
  BY <1>2 DEF OsInfo
<1>4. Origin("user", m.start)
  <2>1. procs[p].by = "user" /\ m.start <= starts
    BY <1>2 DEF RunnerInv, ProcessesTell
  <2>2. \A q \in Pids : procs[q] # Nothing /\ procs[q].start = m.start => q = p
    BY <1>2 DEF RunnerInv, ProcessesTell
  <2> QED
    BY <2>1, <2>2 DEF Origin
<1> QED
  BY <1>1, <1>2, <1>3, <1>4

LEMMA retireUnownedInv ==
  ASSUME RunnerInv, NEW o \in Ops, NEW i \in Ops, retireUnownedRecord(o, i), UNCHANGED runner
  PROVE  RunnerInv'
<1>1. /\ At(o, i) /\ ~isOwned(pre[o].todo[i]) /\ UNCHANGED <<world, rec, runner>>
      /\ pc[o] = "records" /\ pc[o] \in PreflightPoints
  BY VisitPoint DEF retireUnownedRecord
<1>2. pre[o].owed[i] # Nothing => ~isOwned(pre[o].owed[i])
  BY <1>1 DEF At, RunnerInv, PreflightKnows, Owes
<1>3. CASE Fault /\ Set(o, VisitedWithError(o, i)) /\ UNCHANGED pc
  BY <1>1, <1>3, ErrorInv
<1>4. ASSUME Fault \/ faults' = faults, Set(o, [Visited(o, i) EXCEPT !.cur = i]), Goto(o, "markCleaned")
      PROVE  RunnerInv'
  BY <1>1, <1>2, <1>4, RetireInv
<1>5. ASSUME NEW m \in listProcesses, m.named, Fault \/ faults' = faults, Goto(o, "revalidate"),
             Set(o, [Visited(o, i) EXCEPT !.cur = i, !.target = m, !.handled = @ \cup {m.pid}])
      PROVE  RunnerInv'
  <2>1. m \in OsInfo /\ m # Nothing /\ m.pid \in Pids /\ m.start \in Times /\ Origin("user", m.start)
    BY <1>5, NamedFacts
  <2>2. PICK v \in Locals : v = Visited(o, i)
    BY VisitedFacts
  <2>3. PICK l : l = [v EXCEPT !.cur = i, !.target = m, !.handled = @ \cup {m.pid}]
    OBVIOUS
  <2>4. /\ l \in Locals /\ l.todo = [pre[o].todo EXCEPT ![i] = Nothing] /\ l.errors = pre[o].errors
        /\ l.cur = i /\ l.list = pre[o].list /\ l.owed = pre[o].owed /\ l.target = m
    <3>1. PICK p \in Pids : p = m.pid
      BY <2>1
    <3>2. l = [v EXCEPT !.cur = i, !.target = m, !.handled = @ \cup {p}]
      BY <2>3, <3>1
    <3>3. /\ l \in Locals /\ l.todo = v.todo /\ l.errors = v.errors
          /\ l.cur = i /\ l.list = v.list /\ l.owed = v.owed /\ l.target = m
      <4>1. l \in Locals
        BY <2>1, <3>2 DEF Locals
      <4>2. l.todo = v.todo /\ l.cur = i /\ l.target = m /\ l.list = v.list /\ l.owed = v.owed
        BY <2>1, <3>2 DEF Locals
      <4>3. l.errors = v.errors
        BY <2>1, <3>2 DEF Locals
      <4> QED
        BY <4>1, <4>2, <4>3
    <3> QED
      BY <2>2, <3>3, VisitedFacts
  <2>5. Set(o, l)
    BY <1>5, <2>2, <2>3
  <2>6. PreflightStep(o) /\ pc'[o] = "revalidate" /\ pre'[o] = l /\ \A j \in Ops : rec'[j] \in {rec[j], Nothing}
    BY <1>1, <1>5, <2>4, <2>5, LocalStep DEF PreflightPoints
  <2>7. VisitTaken(o, i)
    BY <1>1, <2>4, <2>6 DEF VisitTaken
  <2>8. Origin("user", m.start)'
    BY <2>1, <2>6, PreflightFrame, OriginStays DEF RunnerInv, Steady
  <2>9. Origin("user", pre[o].target.start)'
    BY <2>4, <2>6, <2>8
  <2>10. PreflightKnows(o)'
    BY <1>2, <2>1, <2>4, <2>6, <2>7, <2>9, VisitTakenKnows
  <2> QED
    BY <2>6, <2>10, PreflightKeepsInv
<1>6. ASSUME NEW m \in listProcesses, m.named, Fault \/ faults' = faults, pc' = pc,
             Set(o, [VisitedWithError(o, i) EXCEPT !.handled = @ \cup {m.pid}])
      PROVE  RunnerInv'
  <2>1. PICK p \in Pids : p = m.pid
    BY <1>6, NamedFacts
  <2>2. PICK v \in Locals : v = VisitedWithError(o, i)
    BY VisitedWithErrorFacts
  <2>3. PICK l : l = [v EXCEPT !.handled = @ \cup {p}]
    OBVIOUS
  <2>4. /\ l \in Locals /\ l.todo = [pre[o].todo EXCEPT ![i] = Nothing] /\ l.errors
        /\ l.cur = pre[o].cur /\ l.list = pre[o].list /\ l.owed = pre[o].owed
    BY <2>2, <2>3, VisitedWithErrorFacts, HandledFacts
  <2>5. Set(o, l)
    BY <1>6, <2>1, <2>2, <2>3
  <2> QED
    BY <1>1, <1>6, <2>4, <2>5, DoneInv
<1>7. ASSUME NEW seen \in {listProcesses, {}}, Listing(seen)
      PROVE  seen \subseteq listProcesses /\ (Fault \/ faults' = faults)
  BY <1>7 DEF Listing
<1> QED
  BY <1>3, <1>4, <1>5, <1>6, <1>7 DEF retireUnownedRecord

LEMMA KillStep ==
  ASSUME RunnerInv, NEW o \in Ops, pc[o] \in PreflightPoints,
         NEW to \in PreflightPoints \cup {"create"}, NEW l \in Locals, Goto(o, to), Set(o, l),
         NEW p \in Pids, KillSucceeds(p) \/ KillFails(p), UNCHANGED <<starts, aged, rec, runner>>
  PROVE  PreflightStep(o) /\ pc'[o] = to /\ pre'[o] = l /\ \A i \in Ops : rec'[i] \in {rec[i], Nothing}
<1>1. TypeOK
  BY DEF RunnerInv
<1>2. pc'[o] = to /\ pre'[o] = l
  BY <1>1 DEF Goto, Set, TypeOK
<1>3. (Fault \/ faults' = faults) /\ procs' \in {procs, Killed(p)}
  BY DEF KillSucceeds, KillFails
<1>4. faults' \in 0..MaxFaults /\ faults <= faults'
  BY <1>3, FaultFacts
<1>5. procs' \in [Pids -> Process \cup {Nothing}] /\ \A q \in Pids : procs'[q] \in {procs[q], Nothing}
  BY <1>1, <1>3 DEF TypeOK, Killed
<1> QED
  BY <1>1, <1>2, <1>4, <1>5 DEF PreflightStep, Goto, Set, TypeOK

\* The process in hand.
LEMMA TargetKnown ==
  ASSUME RunnerInv, NEW o \in Ops, pc[o] \in {"killOwned", "revalidate", "killHeadless"}
  PROVE  /\ pre[o].target \in OsInfo /\ pre[o].target.pid \in Pids /\ pre[o].target # Nothing
         /\ pre[o].target.start \in Times
<1>1. pre[o].target # Nothing
  BY DEF RunnerInv, PreflightKnows, HandKnows
<1>2. pre[o].target \in OsInfo
  BY <1>1 DEF RunnerInv, TypeOK, Locals
<1> QED
  BY <1>1, <1>2 DEF OsInfo

\* Nothing is done to the lists, nor to the record in hand.
LEMMA ListsStay ==
  ASSUME RunnerInv, NEW o \in Ops, Steady, pre'[o].todo = pre[o].todo
  PROVE  \A j \in Ops : pre'[o].todo[j] # Nothing => RecordTells(j, pre[o].todo[j])'
<1> SUFFICES ASSUME NEW j \in Ops, pre[o].todo[j] # Nothing PROVE RecordTells(j, pre[o].todo[j])'
  OBVIOUS
<1>1. PICK r \in Record : r = pre[o].todo[j]
  BY DEF RunnerInv, TypeOK, Locals
<1>2. RecordTells(j, r)
  BY <1>1 DEF RunnerInv, PreflightKnows, ListKnows
<1>3. RecordTells(j, r)'
  BY <1>2, RecordTellsStays DEF RunnerInv
<1> QED
  BY <1>1, <1>3

LEMMA KillOwnedInv ==
  ASSUME RunnerInv, NEW o \in Ops, KillOwned(o), UNCHANGED runner
  PROVE  RunnerInv'
<1>1. pc[o] = "killOwned" /\ pc[o] \in PreflightPoints /\ UNCHANGED <<starts, aged, rec, runner>>
  BY DEF KillOwned, PreflightPoints
<1>2. PICK p \in Pids : p = pre[o].target.pid
  BY <1>1, TargetKnown
<1>3. CASE KillFails(p) /\ Goto(o, "records") /\ Set(o, GiveUp(o))
  <2>1. /\ PreflightStep(o) /\ pc'[o] = "records"
        /\ \A j \in Ops : rec'[j] \in {rec[j], Nothing}
    BY <1>1, <1>3, GiveUpFacts, KillStep DEF PreflightPoints
  <2> QED
    BY <1>1, <1>3, <2>1, GiveUpKnows, PreflightKeepsInv DEF Set
<1>4. CASE KillSucceeds(p) /\ Goto(o, "markCleaned") /\ Set(o, [pre[o] EXCEPT !.target = Nothing])
  <2>1. PICK v \in Locals : v = pre[o]
    BY DEF RunnerInv, TypeOK
  <2>2. PICK l : l = [v EXCEPT !.target = Nothing]
    OBVIOUS
  <2>3. l \in Locals
    BY <2>2 DEF Locals
  <2>4. l.todo = v.todo /\ l.cur = v.cur /\ l.list = v.list /\ l.owed = v.owed
    BY <2>2 DEF Locals
  <2>5. l.errors = v.errors
    BY <2>2 DEF Locals
  <2>6. Set(o, l)
    BY <1>4, <2>1, <2>2
  <2>7. PreflightStep(o) /\ pc'[o] = "markCleaned" /\ pre'[o] = l /\ \A j \in Ops : rec'[j] \in {rec[j], Nothing}
    BY <1>1, <1>4, <2>3, <2>6, KillStep DEF PreflightPoints
  <2>8. Steady
    BY <2>7, PreflightFrame
  <2>9. HandKnows(o)
    BY DEF RunnerInv, PreflightKnows
  <2>10. HandKnows(o)'
    <3>1. \A m \in pre'[o].list : Origin("user", m.start)'
      BY <2>1, <2>4, <2>7, <2>8, ListedStay
    <3> QED
      BY <1>1, <2>1, <2>4, <2>7, <2>9, <3>1 DEF HandKnows, KillPoints
  <2>11. ListKnows(o)'
    BY <2>1, <2>4, <2>7, <2>8, ListsStay DEF ListKnows
  <2>12. ASSUME NEW j \in Ops PROVE Owes(o, j)'
    <3> SUFFICES ASSUME pre[o].owed[j] # Nothing PROVE Owes(o, j)'
      BY <2>1, <2>4, <2>7 DEF Owes
    <3>1. Owes(o, j)
      BY DEF RunnerInv, PreflightKnows
    <3>2. ASSUME pre[o].cur = j, isOwned(pre[o].owed[j]) PROVE Gone(pre[o].owed[j])'
      <4>1. pre[o].owed[j].pid = p
        BY <1>1, <1>2, <3>1, <3>2 DEF Owes
      <4>2. procs'[p] = Nothing
        BY <1>4 DEF KillSucceeds, Killed, RunnerInv, TypeOK
      <4> QED
        BY <2>1, <2>4, <2>7, <4>1, <4>2 DEF Gone
    <3> QED
      BY <1>1, <2>1, <2>4, <2>5, <2>7, <2>8, <3>1, <3>2, OwedStay DEF Owes, Steady
  <2> QED
    BY <2>7, <2>10, <2>11, <2>12, PreflightKeepsInv DEF PreflightKnows
<1> QED
  BY <1>2, <1>3, <1>4 DEF KillOwned

LEMMA markCleanedInv ==
  ASSUME RunnerInv, NEW o \in Ops, markCleaned(o), UNCHANGED runner
  PROVE  RunnerInv'
<1>1. pc[o] = "markCleaned" /\ pc[o] \in PreflightPoints /\ UNCHANGED <<world, runner>> /\ Goto(o, "records")
  BY DEF markCleaned, PreflightPoints
<1>2. CASE Fault /\ Set(o, GiveUp(o)) /\ UNCHANGED rec
  <2>1. /\ PreflightStep(o) /\ pc'[o] = "records"
        /\ \A j \in Ops : rec'[j] \in {rec[j], Nothing}
    BY <1>1, <1>2, GiveUpFacts, LocalStep DEF PreflightPoints
  <2> QED
    BY <1>1, <1>2, <2>1, GiveUpKnows, PreflightKeepsInv DEF Set
<1>3. CASE /\ rec' = Updated(pre[o].cur, "cleaned", Nothing, Nothing)
           /\ Set(o, [pre[o] EXCEPT !.cur = Nothing]) /\ UNCHANGED faults
  <2>1. PICK v \in Locals : v = pre[o]
    BY DEF RunnerInv, TypeOK
  <2>2. PICK l : l = [v EXCEPT !.cur = Nothing]
    OBVIOUS
  <2>3. l \in Locals
    BY <2>2 DEF Locals
  <2>4. l.todo = v.todo /\ l.cur = Nothing /\ l.list = v.list /\ l.owed = v.owed
    BY <2>2 DEF Locals
  <2>5. l.errors = v.errors
    BY <2>2 DEF Locals
  <2>6. pre' = [pre EXCEPT ![o] = l] /\ pre'[o] = l /\ pc' = [pc EXCEPT ![o] = "records"] /\ pc'[o] = "records"
    BY <1>1, <1>3, <2>1, <2>2 DEF Set, Goto, RunnerInv, TypeOK
  <2>7. v.cur \in Ops
    BY <1>1, <2>1 DEF RunnerInv, PreflightKnows, HandKnows, Locals
  <2>8. /\ rec' \in [Ops -> Record \cup {Nothing}] /\ rec'[v.cur] = Nothing
        /\ \A j \in Ops : rec'[j] \in {rec[j], Nothing}
    BY <1>3, <2>1, <2>7 DEF Updated, PURGED_PERSISTENT_STATUSES, RunnerInv, TypeOK
  <2>9. PreflightStep(o)
    <3>1. TypeOK /\ faults' \in 0..MaxFaults /\ faults <= faults'
      BY <1>3, FaultFacts DEF RunnerInv
    <3> QED
      BY <1>1, <2>3, <2>6, <2>8, <3>1 DEF PreflightStep, TypeOK, world, PreflightPoints
  <2>10. Steady
    BY <2>9, PreflightFrame
  <2>11. HandKnows(o)'
    BY <2>1, <2>4, <2>6, <2>10, ListedStay DEF HandKnows, KillPoints
  <2>12. ListKnows(o)'
    BY <2>1, <2>4, <2>6, <2>10, ListsStay DEF ListKnows
  <2>13. ASSUME NEW j \in Ops PROVE Owes(o, j)'
    <3> SUFFICES ASSUME pre[o].owed[j] # Nothing PROVE Owes(o, j)'
      BY <2>1, <2>4, <2>6 DEF Owes
    <3>1. Owes(o, j) /\ j # Nothing
      BY NothingFacts DEF RunnerInv, PreflightKnows
    <3>2. v.cur = j => rec'[j] = Nothing
      BY <2>8
    <3> QED
      BY <1>1, <2>1, <2>4, <2>5, <2>6, <2>10, <3>1, <3>2, OwedStay DEF Owes, Steady
  <2> QED
    BY <2>8, <2>9, <2>11, <2>12, <2>13, PreflightKeepsInv DEF PreflightKnows
<1> QED
  BY <1>2, <1>3 DEF markCleaned

\* What a step of the scan knows that only shrinks the list of processes or sets
\* the target.
LEMMA ScanKnows ==
  ASSUME RunnerInv, NEW o \in Ops, PreflightStep(o), pre[o].cur = Nothing, pre'[o].cur = Nothing,
         pre'[o].todo = pre[o].todo, pre'[o].owed = pre[o].owed, pre[o].errors => pre'[o].errors,
         \A j \in Ops : pre[o].todo[j] = Nothing,
         pc'[o] \in {"orphans", "create", "revalidate", "killHeadless"},
         HandKnows(o)'
  PROVE  PreflightKnows(o)'
<1>1. Steady
  BY PreflightFrame
<1>2. ListKnows(o)'
  BY DEF ListKnows
<1>3. ASSUME NEW j \in Ops PROVE Owes(o, j)'
  <2> SUFFICES ASSUME pre[o].owed[j] # Nothing PROVE Owes(o, j)'
    BY DEF Owes
  <2>1. Owes(o, j) /\ j # Nothing
    BY NothingFacts DEF RunnerInv, PreflightKnows
  <2> QED
    BY <1>1, <2>1, OwedStay DEF Owes, Steady
<1> QED
  BY <1>2, <1>3 DEF PreflightKnows

LEMMA scanInv ==
  ASSUME RunnerInv, NEW o \in Ops, scanAndCleanOrphans(o), UNCHANGED runner
  PROVE  RunnerInv'
<1>1. /\ pc[o] = "records" /\ pc[o] \in PreflightPoints /\ UNCHANGED <<world, rec, runner>>
      /\ \A i \in Ops : pre[o].todo[i] = Nothing
  BY DEF scanAndCleanOrphans, PreflightPoints
<1>2. PICK v \in Locals : v = pre[o]
  BY DEF RunnerInv, TypeOK
<1>3. v.cur = Nothing
  BY <1>1, <1>2 DEF RunnerInv, PreflightKnows, HandKnows
<1>4. ASSUME NEW seen \in SUBSET listProcesses, Fault \/ faults' = faults, Goto(o, "orphans"),
             Set(o, [pre[o] EXCEPT !.list = {m \in seen : m.named}])
      PROVE  RunnerInv'
  <2>1. PICK named : named = {m \in seen : m.named}
    OBVIOUS
  <2>2. \A m \in named : m \in OsInfo /\ m.start \in Times /\ Origin("user", m.start)
    BY <2>1, NamedFacts
  <2>3. PICK l : l = [v EXCEPT !.list = named]
    OBVIOUS
  <2>4. l \in Locals
    BY <2>2, <2>3 DEF Locals
  <2>5. l.todo = v.todo /\ l.cur = v.cur /\ l.list = named /\ l.owed = v.owed
    BY <2>3 DEF Locals
  <2>6. l.errors = v.errors
    BY <2>3 DEF Locals
  <2>7. Set(o, l)
    BY <1>2, <1>4, <2>1, <2>3
  <2>8. PreflightStep(o) /\ pc'[o] = "orphans" /\ pre'[o] = l /\ \A j \in Ops : rec'[j] \in {rec[j], Nothing}
    BY <1>1, <1>4, <2>4, <2>7, LocalStep DEF PreflightPoints
  <2>9. Steady
    BY <2>8, PreflightFrame
  <2>10. \A m \in named : Origin("user", m.start)'
    BY <2>2, <2>9, OriginStays DEF RunnerInv, Steady
  <2>11. HandKnows(o)'
    BY <1>3, <2>5, <2>8, <2>10 DEF HandKnows, KillPoints
  <2> QED
    BY <1>1, <1>2, <1>3, <2>5, <2>6, <2>8, <2>11, ScanKnows, PreflightKeepsInv
<1>5. CASE Fault /\ Set(o, [pre[o] EXCEPT !.errors = TRUE]) /\ Goto(o, "create")
  <2>1. PICK l : l = [v EXCEPT !.errors = TRUE]
    OBVIOUS
  <2>2. l \in Locals
    BY <2>1 DEF Locals
  <2>3. l.todo = v.todo /\ l.cur = v.cur /\ l.list = v.list /\ l.owed = v.owed
    BY <2>1 DEF Locals
  <2>4. l.errors
    BY <2>1 DEF Locals
  <2>5. Set(o, l)
    BY <1>2, <1>5, <2>1
  <2>6. PreflightStep(o) /\ pc'[o] = "create" /\ pre'[o] = l /\ \A j \in Ops : rec'[j] \in {rec[j], Nothing}
    BY <1>1, <1>5, <2>2, <2>5, LocalStep
  <2>7. Steady
    BY <2>6, PreflightFrame
  <2>8. HandKnows(o)'
    BY <1>2, <1>3, <2>3, <2>6, <2>7, ListedStay DEF HandKnows, KillPoints
  <2> QED
    BY <1>1, <1>2, <1>3, <2>3, <2>4, <2>6, <2>8, ScanKnows, PreflightKeepsInv
<1> QED
  BY <1>4, <1>5 DEF scanAndCleanOrphans, Listing

LEMMA VisitOrphanInv ==
  ASSUME RunnerInv, NEW o \in Ops, NEW m \in pre[o].list, VisitOrphan(o, m), UNCHANGED runner
  PROVE  RunnerInv'
<1>1. /\ pc[o] = "orphans" /\ pc[o] \in PreflightPoints /\ UNCHANGED <<world, rec, faults, runner>>
  BY DEF VisitOrphan, PreflightPoints
<1>2. PICK v \in Locals : v = pre[o]
  BY DEF RunnerInv, TypeOK
<1>3. v.cur = Nothing /\ \A i \in Ops : pre[o].todo[i] = Nothing
  BY <1>1, <1>2 DEF RunnerInv, PreflightKnows, HandKnows, ListKnows
<1>4. m \in OsInfo /\ m.start \in Times /\ m # Nothing /\ Origin("user", m.start)
  <2>1. m \in OsInfo
    BY <1>2 DEF Locals
  <2> QED
    BY <2>1, NothingFacts DEF OsInfo, RunnerInv, PreflightKnows, HandKnows
<1>5. PICK rest : rest = [v EXCEPT !.list = @ \ {m}]
  OBVIOUS
<1>6. rest \in Locals
  BY <1>5 DEF Locals
<1>7. rest.todo = v.todo /\ rest.cur = v.cur /\ rest.list \subseteq v.list /\ rest.owed = v.owed
  BY <1>5 DEF Locals
<1>8. rest.errors = v.errors
  BY <1>5 DEF Locals
<1>9. ASSUME NEW l \in Locals, Set(o, l), pc' = pc, l.todo = v.todo, l.cur = v.cur, l.list \subseteq v.list,
             l.owed = v.owed, v.errors => l.errors
      PROVE  RunnerInv'
  <2>1. PreflightStep(o) /\ pc'[o] = "orphans" /\ pre'[o] = l /\ \A j \in Ops : rec'[j] \in {rec[j], Nothing}
    BY <1>1, <1>9, PointsStay, LocalStep
  <2>2. Steady
    BY <2>1, PreflightFrame
  <2>3. HandKnows(o)'
    BY <1>2, <1>3, <1>9, <2>1, <2>2, ListedStay DEF HandKnows, KillPoints
  <2> QED
    BY <1>2, <1>3, <1>9, <2>1, <2>3, ScanKnows, PreflightKeepsInv
<1>10. CASE Set(o, rest) /\ UNCHANGED pc
  BY <1>6, <1>7, <1>8, <1>9, <1>10
<1>11. CASE Set(o, [rest EXCEPT !.errors = TRUE]) /\ UNCHANGED pc
  <2>1. PICK l : l = [rest EXCEPT !.errors = TRUE]
    OBVIOUS
  <2>2. l \in Locals
    BY <1>6, <2>1 DEF Locals
  <2>3. l.todo = rest.todo /\ l.cur = rest.cur /\ l.list = rest.list /\ l.owed = rest.owed
    BY <1>6, <2>1 DEF Locals
  <2>4. l.errors
    BY <1>6, <2>1 DEF Locals
  <2> QED
    BY <1>7, <1>9, <1>11, <2>1, <2>2, <2>3, <2>4
<1>12. CASE Set(o, [rest EXCEPT !.target = m]) /\ Goto(o, "revalidate")
  <2>1. PICK l : l = [rest EXCEPT !.target = m]
    OBVIOUS
  <2>2. l \in Locals
    BY <1>4, <1>6, <2>1 DEF Locals
  <2>3. /\ l.todo = rest.todo /\ l.cur = rest.cur /\ l.list = rest.list /\ l.owed = rest.owed
        /\ l.target = m
    BY <1>6, <2>1 DEF Locals
  <2>4. l.errors = rest.errors
    BY <1>6, <2>1 DEF Locals
  <2>5. PreflightStep(o) /\ pc'[o] = "revalidate" /\ pre'[o] = l /\ \A j \in Ops : rec'[j] \in {rec[j], Nothing}
    BY <1>1, <1>12, <2>1, <2>2, LocalStep DEF PreflightPoints
  <2>6. Steady
    BY <2>5, PreflightFrame
  <2>7. Origin("user", m.start)'
    BY <1>4, <2>6, OriginStays DEF RunnerInv, Steady
  <2>8. \A n \in pre'[o].list : Origin("user", n.start)'
    BY <1>2, <1>7, <2>3, <2>5, <2>6, ListedStay
  <2>9. HandKnows(o)'
    BY <1>3, <1>4, <1>7, <2>3, <2>5, <2>7, <2>8 DEF HandKnows, KillPoints
  <2> QED
    BY <1>2, <1>3, <1>7, <1>8, <2>3, <2>4, <2>5, <2>9, ScanKnows, PreflightKeepsInv
<1> QED
  BY <1>2, <1>5, <1>10, <1>11, <1>12 DEF VisitOrphan

LEMMA EndPreflightInv ==
  ASSUME RunnerInv, NEW o \in Ops, EndPreflight(o), UNCHANGED runner
  PROVE  RunnerInv'
<1>1. /\ pc[o] = "orphans" /\ pc[o] \in PreflightPoints /\ UNCHANGED <<world, rec, faults, runner>>
      /\ Goto(o, "create") /\ pre' = pre
  BY DEF EndPreflight, PreflightPoints
<1>2. PICK v \in Locals : v = pre[o]
  BY DEF RunnerInv, TypeOK
<1>3. v.cur = Nothing /\ \A i \in Ops : pre[o].todo[i] = Nothing
  BY <1>1, <1>2 DEF RunnerInv, PreflightKnows, HandKnows, ListKnows
<1>4. Set(o, v)
  BY <1>1, <1>2 DEF Set, RunnerInv, TypeOK
<1>5. PreflightStep(o) /\ pc'[o] = "create" /\ pre'[o] = v /\ \A j \in Ops : rec'[j] \in {rec[j], Nothing}
  BY <1>1, <1>4, LocalStep
<1>6. Steady
  BY <1>5, PreflightFrame
<1>7. HandKnows(o)'
  BY <1>2, <1>3, <1>5, <1>6, ListedStay DEF HandKnows, KillPoints
<1> QED
  BY <1>2, <1>3, <1>5, <1>7, ScanKnows, PreflightKeepsInv

LEMMA RevalidateInv ==
  ASSUME RunnerInv, NEW o \in Ops, Revalidate(o), UNCHANGED runner
  PROVE  RunnerInv'
<1>1. pc[o] = "revalidate" /\ pc[o] \in PreflightPoints /\ UNCHANGED <<world, rec, runner>>
  BY DEF Revalidate, PreflightPoints
<1>2. CASE (Fault \/ faults' = faults) /\ Goto(o, Caller(o)) /\ Set(o, GiveUp(o))
  <2>1. Caller(o) \in PreflightPoints
    BY DEF Caller, PreflightPoints
  <2>2. /\ PreflightStep(o) /\ pc'[o] = Caller(o)
        /\ \A j \in Ops : rec'[j] \in {rec[j], Nothing}
    BY <1>1, <1>2, <2>1, GiveUpFacts, LocalStep
  <2> QED
    BY <1>1, <1>2, <2>2, GiveUpKnows, PreflightKeepsInv DEF Set
<1>3. ASSUME NEW seen \in {getProcess(pre[o].target.pid), Nothing}, Inspection(pre[o].target.pid, seen),
             seen # Nothing, seen.start = pre[o].target.start,
             Goto(o, "killHeadless"), UNCHANGED pre
      PROVE  RunnerInv'
  <2>1. PICK v \in Locals : v = pre[o]
    BY DEF RunnerInv, TypeOK
  <2>2. v.target.pid \in Pids /\ v.target.start \in Times /\ v.target # Nothing
    BY <1>1, <2>1, TargetKnown
  <2>3. faults' = faults /\ procs[v.target.pid].start = v.target.start
    <3>1. seen = Info(v.target.pid) /\ IsAccess(v.target.pid) /\ faults' = faults
      BY <1>3, <2>1 DEF Inspection, getProcess
    <3> QED
      BY <1>3, <2>1, <2>2, <3>1, InfoFacts
  <2>4. Set(o, v)
    BY <1>3, <2>1 DEF Set, RunnerInv, TypeOK
  <2>5. PreflightStep(o) /\ pc'[o] = "killHeadless" /\ pre'[o] = v /\ \A j \in Ops : rec'[j] \in {rec[j], Nothing}
    BY <1>1, <1>3, <2>3, <2>4, LocalStep DEF PreflightPoints
  <2>6. Steady
    BY <2>5, PreflightFrame
  <2>7. Origin("user", v.target.start)'
    BY <1>1, <2>1, <2>2, <2>6, OriginStays DEF RunnerInv, PreflightKnows, HandKnows, Steady
  <2>8. \A n \in pre'[o].list : Origin("user", n.start)'
    BY <2>1, <2>5, <2>6, ListedStay
  <2>9. procs'[v.target.pid].start = v.target.start
    BY <1>1, <2>3 DEF world
  <2>10. HandKnows(o)'
    BY <2>2, <2>5, <2>7, <2>8, <2>9 DEF HandKnows
  <2>11. ListKnows(o)'
    BY <1>1, <2>1, <2>5, <2>6, ListsStay DEF ListKnows, RunnerInv, PreflightKnows
  <2>12. ASSUME NEW j \in Ops PROVE Owes(o, j)'
    <3> SUFFICES ASSUME pre[o].owed[j] # Nothing PROVE Owes(o, j)'
      BY <2>1, <2>5 DEF Owes
    <3>1. Owes(o, j)
      BY DEF RunnerInv, PreflightKnows
    <3> QED
      BY <1>1, <2>1, <2>5, <2>6, <3>1, OwedStay DEF Owes, Steady
  <2> QED
    BY <2>5, <2>10, <2>11, <2>12, PreflightKeepsInv DEF PreflightKnows
<1> QED
  BY <1>2, <1>3 DEF Revalidate, Inspection

LEMMA KillHeadlessInv ==
  ASSUME RunnerInv, NEW o \in Ops, KillHeadless(o), UNCHANGED runner
  PROVE  RunnerInv'
<1>1. pc[o] = "killHeadless" /\ pc[o] \in PreflightPoints /\ UNCHANGED <<starts, aged, rec, runner>>
  BY DEF KillHeadless, PreflightPoints
<1>2. PICK p \in Pids : p = pre[o].target.pid
  BY <1>1, TargetKnown
<1>3. CASE KillFails(p) /\ Goto(o, Caller(o)) /\ Set(o, GiveUp(o))
  <2>1. Caller(o) \in PreflightPoints
    BY DEF Caller, PreflightPoints
  <2>2. /\ PreflightStep(o) /\ pc'[o] = Caller(o)
        /\ \A j \in Ops : rec'[j] \in {rec[j], Nothing}
    BY <1>1, <1>3, <2>1, GiveUpFacts, KillStep
  <2> QED
    BY <1>1, <1>3, <2>2, GiveUpKnows, PreflightKeepsInv DEF Set
<1>4. CASE /\ KillSucceeds(p) /\ Goto(o, IF pre[o].cur = Nothing THEN "orphans" ELSE "markCleaned")
           /\ Set(o, [pre[o] EXCEPT !.target = Nothing, !.handled = @ \cup {p}])
  <2>1. PICK v \in Locals : v = pre[o]
    BY DEF RunnerInv, TypeOK
  <2>2. PICK l : l = [v EXCEPT !.target = Nothing, !.handled = @ \cup {p}]
    OBVIOUS
  <2>3. l \in Locals
    BY <2>2 DEF Locals
  <2>4. l.todo = v.todo /\ l.cur = v.cur /\ l.list = v.list /\ l.owed = v.owed
    BY <2>2 DEF Locals
  <2>5. l.errors = v.errors
    BY <2>2 DEF Locals
  <2>6. Set(o, l)
    BY <1>4, <2>1, <2>2
  <2>7. PICK to \in {"orphans", "markCleaned"} :
          to = IF pre[o].cur = Nothing THEN "orphans" ELSE "markCleaned"
    OBVIOUS
  <2>8. PreflightStep(o) /\ pc'[o] = to /\ pre'[o] = l /\ \A j \in Ops : rec'[j] \in {rec[j], Nothing}
    <3>1. Goto(o, to) /\ to \in PreflightPoints \cup {"create"}
      BY <1>4, <2>7 DEF PreflightPoints
    <3> QED
      BY <1>1, <1>4, <2>3, <2>6, <3>1, KillStep
  <2>9. Steady
    BY <2>8, PreflightFrame
  <2>10. \A n \in pre'[o].list : Origin("user", n.start)'
    BY <2>1, <2>4, <2>8, <2>9, ListedStay
  <2>11. HandKnows(o)'
    BY <2>1, <2>4, <2>7, <2>8, <2>10 DEF HandKnows, KillPoints
  <2>12. ListKnows(o)'
    BY <1>1, <2>1, <2>4, <2>7, <2>8, <2>9, ListsStay DEF ListKnows, RunnerInv, PreflightKnows
  <2>13. ASSUME NEW j \in Ops PROVE Owes(o, j)'
    <3> SUFFICES ASSUME pre[o].owed[j] # Nothing PROVE Owes(o, j)'
      BY <2>1, <2>4, <2>8 DEF Owes
    <3>1. Owes(o, j)
      BY DEF RunnerInv, PreflightKnows
    <3> QED
      BY <1>1, <2>1, <2>4, <2>5, <2>8, <2>9, <3>1, OwedStay DEF Owes, Steady
  <2> QED
    BY <2>8, <2>11, <2>12, <2>13, PreflightKeepsInv DEF PreflightKnows
<1> QED
  BY <1>2, <1>3, <1>4 DEF KillHeadless

LEMMA PreflightInv ==
  ASSUME RunnerInv, NEW o \in Ops, Preflight(o), UNCHANGED runner
  PROVE  RunnerInv'
BY ListRecordsInv, SkipRecordInv, markInterruptedInv, reconcileRunningInv, cleanupRecordInv,
   retireUnownedInv, KillOwnedInv, markCleanedInv, scanInv, VisitOrphanInv, EndPreflightInv,
   RevalidateInv, KillHeadlessInv DEF Preflight

-----------------------------------------------------------------------------
(* The runner and its environment.                                         *)

LEMMA NoLocalsFacts ==
  /\ NoLocals \in Locals /\ NoLocals.cur = Nothing /\ NoLocals.list = {}
  /\ NoLocals.todo = [i \in Ops |-> Nothing] /\ NoLocals.owed = [i \in Ops |-> Nothing]
BY DEF NoLocals, Locals

\* Points at which a preflight has nothing in hand.
CalmPoints == {"queued", "preflight", "spawned", "opened", "running", "workerPid", "finalize"} \cup Ended

LEMMA CalmKnows ==
  ASSUME RunnerInv, Steady, NEW o \in Ops, pc'[o] \in CalmPoints, pre'[o] \in {pre[o], NoLocals}
  PROVE  PreflightKnows(o)'
<1>1. pc'[o] \notin {"killOwned", "revalidate", "killHeadless", "markCleaned", "records", "orphans", "create"}
  BY DEF CalmPoints, Ended
<1>2. CASE pre'[o] = NoLocals
  BY <1>1, <1>2, NoLocalsFacts DEF PreflightKnows, HandKnows, ListKnows, Owes, KillPoints
<1>3. CASE pre'[o] = pre[o]
  <2>1. HandKnows(o)'
    BY <1>1, <1>3, ListedStay DEF HandKnows, KillPoints
  <2>2. ListKnows(o)'
    BY <1>1, <1>3, ListsStay DEF ListKnows
  <2>3. ASSUME NEW j \in Ops PROVE Owes(o, j)'
    <3> SUFFICES ASSUME pre[o].owed[j] # Nothing PROVE Owes(o, j)'
      BY <1>3 DEF Owes
    <3>1. Owes(o, j)
      BY DEF RunnerInv, PreflightKnows
    <3> QED
      BY <1>1, <1>3, <3>1, OwedStay DEF Owes, Steady
  <2> QED
    BY <2>1, <2>2, <2>3 DEF PreflightKnows
<1> QED
  BY <1>2, <1>3

LEMMA RegistryStep ==
  ASSUME RunnerInv, Steady,
         \A i \in Ops : rec'[i] \in {rec[i], Nothing} \/ RecordTells(i, rec[i])',
         \A i \in Ops : mine'[i] = mine[i] \/ Origin(i, mine[i].start)',
         \A i \in Ops : i \in aged' => i \in aged \/ (QuickStarts => pc'[i] \in Ended)
  PROVE  RegistryTells'
<1> SUFFICES ASSUME NEW i \in Ops
             PROVE  /\ rec'[i] # Nothing => RecordTells(i, rec[i])'
                    /\ Origin(i, mine[i].start)'
                    /\ QuickStarts /\ i \in aged' => pc'[i] \in Ended
  BY DEF RegistryTells
<1>1. Origin(i, mine[i].start)'
  <2>1. CASE mine'[i] = mine[i]
    <3>1. PICK s \in Times \cup {Nothing} : s = mine[i].start
      BY DEF RunnerInv, TypeOK, Owner
    <3>2. Origin(i, s)'
      BY <3>1, OriginStays DEF RunnerInv, RegistryTells, Steady
    <3> QED
      BY <2>1, <3>1, <3>2
  <2> QED
    BY <2>1
<1>2. ASSUME rec'[i] # Nothing PROVE RecordTells(i, rec[i])'
  <2>1. CASE rec'[i] = rec[i]
    <3>1. PICK r \in Record : r = rec[i]
      BY <1>2, <2>1 DEF RunnerInv, TypeOK
    <3>2. RecordTells(i, r)'
      BY <1>2, <2>1, <3>1, RecordTellsStays DEF RunnerInv, RegistryTells
    <3> QED
      BY <2>1, <3>1, <3>2
  <2> QED
    BY <1>2, <2>1
<1>3. QuickStarts /\ i \in aged' => pc'[i] \in Ended
  BY DEF RunnerInv, RegistryTells, Steady
<1> QED
  BY <1>1, <1>2, <1>3

\* A step of operation o to a calm point.
CalmStep(o) ==
    /\ pc'[o] \in CalmPoints /\ pc' = [pc EXCEPT ![o] = pc'[o]]
    /\ pre' = pre \/ pre' = [pre EXCEPT ![o] = NoLocals]
    /\ Begun(o) => Begun(o)'
    /\ pc[o] \in Ended => pc'[o] \in Ended
    /\ ProcsStep /\ (Fault \/ faults' = faults)
    /\ \A i \in Ops : Begun(i) /\ rec[i] = Nothing => rec'[i] = Nothing

LEMMA CalmSteady ==
  ASSUME RunnerInv, NEW o \in Ops, CalmStep(o)
  PROVE  /\ Steady /\ PreflightKnows(o)' /\ faults' \in 0..MaxFaults
         /\ pc' \in [Ops -> PreflightPoints \cup RunnerPoints] /\ pre' \in [Ops -> Locals]
         /\ \A q \in Ops \ {o} : pc'[q] = pc[q] /\ pre'[q] = pre[q]
<1>1. TypeOK
  BY DEF RunnerInv
<1>2. \A q \in Ops \ {o} : pc'[q] = pc[q] /\ pre'[q] = pre[q]
  BY <1>1 DEF CalmStep, TypeOK
<1>3. faults' \in 0..MaxFaults /\ (faults' = 0 => faults = 0)
  BY FaultFacts DEF CalmStep
<1>4. Steady
  BY <1>2, <1>3 DEF CalmStep, Steady, Begun
<1>5. pre'[o] \in {pre[o], NoLocals}
  BY <1>1 DEF CalmStep, TypeOK
<1>6. PreflightKnows(o)'
  BY <1>4, <1>5, CalmKnows DEF CalmStep
<1>7. pc' \in [Ops -> PreflightPoints \cup RunnerPoints]
  BY <1>1 DEF CalmStep, CalmPoints, Ended, TypeOK, RunnerPoints, PreflightPoints
<1>8. pre' \in [Ops -> Locals]
  BY <1>1, NoLocalsFacts DEF CalmStep, TypeOK
<1> QED
  BY <1>2, <1>3, <1>4, <1>6, <1>7, <1>8

LEMMA TurnInv ==
  ASSUME RunnerInv, NEW o \in Ops, Turn(o)
  PROVE  RunnerInv'
<1>1. /\ pc[o] = "queued" /\ pc' = [pc EXCEPT ![o] = "preflight"] /\ lock' \in {lock, o}
      /\ UNCHANGED <<world, rec, faults, pre, mine, outcome, late>>
  BY DEF Turn, HasTurn, Goto
<1>2. pc'[o] = "preflight"
  BY <1>1 DEF RunnerInv, TypeOK
<1>3. ProcessesTell' /\ ProcsStep
  BY <1>1, ProcsShrink DEF world
<1>4. CalmStep(o)
  BY <1>1, <1>2, <1>3 DEF CalmStep, CalmPoints, Begun, Ended
<1>5. TypeOK'
  BY <1>1, <1>4, CalmSteady DEF RunnerInv, TypeOK, world
<1>6. RegistryTells'
  BY <1>1, <1>4, CalmSteady, RegistryStep DEF world
<1> QED
  BY <1>3, <1>4, <1>5, <1>6, CalmSteady, OpStep

LEMMA ReturnFacts ==
  ASSUME RunnerInv, NEW o \in Ops, Return(o), pc[o] \notin Ended
  PROVE  /\ pc'[o] = "returned" /\ pc'[o] \in CalmPoints /\ pc' = [pc EXCEPT ![o] = pc'[o]]
         /\ pre' = [pre EXCEPT ![o] = NoLocals] /\ Begun(o)' /\ pc'[o] \in Ended
         /\ lock' \in Ops \cup {Nothing} /\ mine' \in [Ops -> Owner]
         /\ outcome' \in [Ops -> Outcomes \cup {Nothing}]
         /\ \A i \in Ops : mine'[i] = mine[i] \/ Origin(i, mine[i].start)'
<1>1. /\ pc' = [pc EXCEPT ![o] = "returned"] /\ pre' = [pre EXCEPT ![o] = NoLocals]
      /\ lock' = (IF lock = o THEN Nothing ELSE lock) /\ mine' = [mine EXCEPT ![o] = NoOwner]
      /\ outcome' = [outcome EXCEPT ![o] = Nothing]
  BY DEF Return, Goto, Set
<1>2. pc'[o] = "returned"
  BY <1>1 DEF RunnerInv, TypeOK
<1>3. NoOwner \in Owner /\ NoOwner.start = Nothing
  BY DEF NoOwner, Owner
<1>4. lock' \in Ops \cup {Nothing} /\ mine' \in [Ops -> Owner] /\ outcome' \in [Ops -> Outcomes \cup {Nothing}]
  BY <1>1, <1>3 DEF RunnerInv, TypeOK
<1>5. mine'[o].start = Nothing /\ \A i \in Ops \ {o} : mine'[i] = mine[i]
  BY <1>1, <1>3 DEF RunnerInv, TypeOK
<1>6. \A i \in Ops : mine'[i] = mine[i] \/ Origin(i, mine[i].start)'
  BY <1>5 DEF Origin
<1> QED
  BY <1>1, <1>2, <1>4, <1>6 DEF CalmPoints, Ended, Begun

LEMMA RejectInv ==
  ASSUME RunnerInv, NEW o \in Ops, Reject(o)
  PROVE  RunnerInv'
<1>1. pc[o] \in {"preflight", "create"} /\ Return(o) /\ UNCHANGED <<world, rec, faults, late>>
  BY DEF Reject
<1>2. pc[o] \notin Ended
  BY <1>1 DEF Ended
<1>3. ProcessesTell' /\ ProcsStep
  BY <1>1, ProcsShrink DEF world
<1>4. CalmStep(o)
  BY <1>1, <1>2, <1>3, ReturnFacts DEF CalmStep
<1>5. TypeOK'
  BY <1>1, <1>2, <1>4, ReturnFacts, CalmSteady DEF RunnerInv, TypeOK, world
<1>6. RegistryTells'
  BY <1>1, <1>2, <1>4, ReturnFacts, CalmSteady, RegistryStep DEF world
<1> QED
  BY <1>3, <1>4, <1>5, <1>6, CalmSteady, OpStep

LEMMA LockRefusedInv ==
  ASSUME RunnerInv, NEW o \in Ops, LockRefused(o)
  PROVE  RunnerInv'
<1>1. pc[o] = "queued" /\ Return(o) /\ UNCHANGED <<world, rec, faults, late>>
  BY DEF LockRefused, HasTurn
<1>2. pc[o] \notin Ended
  BY <1>1 DEF Ended
<1>3. ProcessesTell' /\ ProcsStep
  BY <1>1, ProcsShrink DEF world
<1>4. CalmStep(o)
  BY <1>1, <1>2, <1>3, ReturnFacts DEF CalmStep
<1>5. TypeOK'
  BY <1>1, <1>2, <1>4, ReturnFacts, CalmSteady DEF RunnerInv, TypeOK, world
<1>6. RegistryTells'
  BY <1>1, <1>2, <1>4, ReturnFacts, CalmSteady, RegistryStep DEF world
<1> QED
  BY <1>3, <1>4, <1>5, <1>6, CalmSteady, OpStep

LEMMA CreateInv ==
  ASSUME RunnerInv, NEW o \in Ops, Create(o)
  PROVE  RunnerInv'
<1>1. PICK r : r = [status |-> "starting", pid |-> Nothing, start |-> Nothing]
  OBVIOUS
<1>2. /\ pc[o] = "create" /\ pc' = [pc EXCEPT ![o] = "spawned"] /\ pre' = [pre EXCEPT ![o] = NoLocals]
      /\ rec' = [rec EXCEPT ![o] = r] /\ UNCHANGED <<world, faults, runner>>
  BY <1>1 DEF Create, Goto, Set
<1>3. r \in Record /\ r.start = Nothing /\ r.status \notin ELIGIBLE_STATUSES
  BY <1>1 DEF Record, ELIGIBLE_STATUSES
<1>4. pc'[o] = "spawned" /\ rec'[o] = r /\ \A i \in Ops \ {o} : rec'[i] = rec[i]
  BY <1>2 DEF RunnerInv, TypeOK
<1>5. ProcessesTell' /\ ProcsStep
  BY <1>2, ProcsShrink DEF world
<1>6. CalmStep(o)
  BY <1>2, <1>4, <1>5 DEF CalmStep, CalmPoints, Begun, Ended
<1>7. TypeOK'
  <2>1. rec' \in [Ops -> Record \cup {Nothing}]
    BY <1>2, <1>3 DEF RunnerInv, TypeOK
  <2> QED
    BY <1>2, <1>6, <2>1, CalmSteady DEF RunnerInv, TypeOK, world, runner
<1>8. RecordTells(o, rec[o])'
  BY <1>3, <1>4 DEF RecordTells, Begun, Origin
<1>9. RegistryTells'
  BY <1>2, <1>4, <1>6, <1>8, CalmSteady, RegistryStep DEF world, runner
<1> QED
  BY <1>5, <1>6, <1>7, <1>9, CalmSteady, OpStep

\* A process starts: its start time is new, and nobody is about to kill its id.
LEMMA StartedFacts ==
  ASSUME RunnerInv, NEW p \in Pids, NEW by \in Ops \cup {"user", "other"}, NEW named \in BOOLEAN,
         NEW window \in {"hidden", "shown"}, Started(p, by, named, window), named => by = "user"
  PROVE  /\ procs' \in [Pids -> Process \cup {Nothing}] /\ starts' \in 0..MaxStarts
         /\ ProcessesTell' /\ ProcsStep
<1>1. starts \in Nat /\ MaxStarts \in Nat /\ starts < MaxStarts /\ starts' = starts + 1
  BY StartsFacts, BoundsAssumption DEF Started, RunnerInv
<1>2. PICK n : n = [by |-> by, start |-> starts + 1, named |-> named, window |-> window]
  OBVIOUS
<1>3. starts + 1 \in Times
  BY <1>1 DEF Times
<1>4. n \in Process
  BY <1>2, <1>3 DEF Process
<1>5. n.start = starts + 1 /\ n.by = by
  BY <1>2
<1>6. n.named => by = "user"
  BY <1>2
<1>7. procs' = [procs EXCEPT ![p] = n] /\ procs[p] = Nothing /\ Quiet(p)
  BY <1>2 DEF Started
<1>8. procs'[p] = n /\ \A q \in Pids \ {p} : procs'[q] = procs[q]
  BY <1>7 DEF RunnerInv, TypeOK
<1>9. procs' \in [Pids -> Process \cup {Nothing}]
  BY <1>4, <1>7 DEF RunnerInv, TypeOK
<1>10. ProcsStep
  BY <1>1, <1>5, <1>7, <1>8 DEF ProcsStep
<1>11. \A q \in Pids : procs[q] # Nothing => procs[q].start \in Nat /\ procs[q].start <= starts
  BY TimesFacts DEF RunnerInv, TypeOK, ProcessesTell, Process
<1>12. ProcessesTell'
  <2>1. ASSUME NEW q \in Pids, procs'[q] # Nothing
        PROVE  procs'[q].start <= starts' /\ (procs'[q].named => procs'[q].by = "user")
    <3>1. CASE q = p
      BY <1>1, <1>5, <1>6, <1>8, <3>1
    <3>2. CASE q # p
      BY <1>1, <1>8, <1>11, <2>1, <3>2 DEF RunnerInv, ProcessesTell
    <3> QED
      BY <3>1, <3>2
  <2>2. ASSUME NEW q \in Pids, NEW s \in Pids, procs'[q] # Nothing, procs'[s] # Nothing,
               procs'[q].start = procs'[s].start
        PROVE  q = s
    BY <1>1, <1>5, <1>8, <1>11, <2>2 DEF RunnerInv, ProcessesTell
  <2> QED
    BY <2>1, <2>2 DEF ProcessesTell
<1> QED
  BY <1>1, <1>9, <1>10, <1>12

LEMMA OpenAccessInv ==
  ASSUME RunnerInv, NEW o \in Ops, OpenAccess(o)
  PROVE  RunnerInv'
<1>1. /\ pc[o] = "spawned" /\ pc' = [pc EXCEPT ![o] = "opened"]
      /\ UNCHANGED <<rec, aged, faults, pre, runner>>
  BY DEF OpenAccess, Goto
<1>2. PICK p \in Pids : Started(p, o, FALSE, "hidden")
  BY DEF OpenAccess
<1>3. /\ procs' \in [Pids -> Process \cup {Nothing}] /\ starts' \in 0..MaxStarts
      /\ ProcessesTell' /\ ProcsStep
  BY <1>2, StartedFacts
<1>4. pc'[o] = "opened"
  BY <1>1 DEF RunnerInv, TypeOK
<1>5. CalmStep(o)
  BY <1>1, <1>3, <1>4 DEF CalmStep, CalmPoints, Begun, Ended
<1>6. TypeOK'
  BY <1>1, <1>3, <1>5, CalmSteady DEF RunnerInv, TypeOK, runner
<1>7. RegistryTells'
  BY <1>1, <1>5, CalmSteady, RegistryStep DEF runner
<1> QED
  BY <1>3, <1>5, <1>6, <1>7, CalmSteady, OpStep

\* A marker names a process of the operation.
LEMMA MarkerFacts ==
  ASSUME RunnerInv, NEW o \in Ops, NEW m \in Markers(o) \cup StartlessMarkers(o)
  PROVE  m \in Owner /\ Origin(o, m.start)
<1>1. PICK p \in AccessOf(o) :
        \/ m = [pid |-> p, start |-> procs[p].start]
        \/ m = [pid |-> p, start |-> Nothing]
  BY DEF Markers, StartlessMarkers
<1>2. p \in Pids /\ procs[p] # Nothing /\ procs[p].by = o
  BY DEF AccessOf
<1>3. procs[p] \in Process
  BY <1>2 DEF RunnerInv, TypeOK
<1>4. procs[p].start \in Times
  BY <1>3 DEF Process
<1>5. Origin(o, procs[p].start) /\ Origin(o, Nothing)
  <2>1. \A q \in Pids : procs[q] # Nothing /\ procs[q].start = procs[p].start => q = p
    BY <1>2 DEF RunnerInv, ProcessesTell
  <2>2. procs[p].start <= starts
    BY <1>2 DEF RunnerInv, ProcessesTell
  <2> QED
    BY <1>2, <2>1, <2>2 DEF Origin
<1>6. m \in Owner
  BY <1>1, <1>2, <1>4 DEF Owner
<1>7. m.start \in {procs[p].start, Nothing}
  BY <1>1
<1> QED
  BY <1>5, <1>6, <1>7

\* An update by operation o itself, with a status and an owner of its own.
LEMMA UpdatedFacts ==
  ASSUME RunnerInv, Steady, NEW o \in Ops, NEW m \in Owner, Origin(o, m.start),
         NEW status \in {"starting", "running", "completed", "cleaned"} \cup ELIGIBLE_STATUSES,
         rec' = Updated(o, status, m.pid, m.start),
         status \in ELIGIBLE_STATUSES => pc'[o] \in Ended
  PROVE  /\ rec' \in [Ops -> Record \cup {Nothing}]
         /\ \A i \in Ops : rec[i] = Nothing => rec'[i] = Nothing
         /\ \A i \in Ops : rec'[i] \in {rec[i], Nothing} \/ RecordTells(i, rec[i])'
<1>0. rec \in [Ops -> Record \cup {Nothing}]
  BY DEF RunnerInv, TypeOK
<1>1. CASE rec[o] = Nothing
  BY <1>0, <1>1 DEF Updated
<1>2. CASE rec[o] # Nothing /\ status \in PURGED_PERSISTENT_STATUSES
  BY <1>0, <1>2 DEF Updated
<1>3. CASE rec[o] # Nothing /\ status \notin PURGED_PERSISTENT_STATUSES
  <2>1. PICK r : r = [status |-> status, pid |-> m.pid, start |-> m.start]
    OBVIOUS
  <2>2. rec' = [rec EXCEPT ![o] = r]
    BY <1>3, <2>1 DEF Updated
  <2>3. r \in Record /\ r.start = m.start /\ r.status = status /\ m.start \in Times \cup {Nothing}
    BY <1>3, <2>1 DEF Record, Owner, PURGED_PERSISTENT_STATUSES
  <2>4. Origin(o, r.start)'
    BY <2>3, OriginStays DEF RunnerInv, Steady
  <2>5. Begun(o)'
    BY <1>3 DEF RunnerInv, RegistryTells, RecordTells, Steady
  <2>6. rec'[o] = r /\ \A i \in Ops \ {o} : rec'[i] = rec[i]
    BY <1>0, <2>2
  <2>7. RecordTells(o, rec[o])'
    BY <2>3, <2>4, <2>5, <2>6 DEF RecordTells
  <2>8. rec' \in [Ops -> Record \cup {Nothing}]
    BY <1>0, <2>2, <2>3
  <2> QED
    BY <1>3, <2>6, <2>7, <2>8
<1> QED
  BY <1>1, <1>2, <1>3

LEMMA UpdatedAdds ==
  ASSUME RunnerInv, NEW o \in Ops, NEW status, NEW pid, NEW start, rec' = Updated(o, status, pid, start)
  PROVE  \A i \in Ops : rec[i] = Nothing => rec'[i] = Nothing
BY DEF Updated, RunnerInv, TypeOK

LEMMA CaptureInv ==
  ASSUME RunnerInv, NEW o \in Ops, Capture(o)
  PROVE  RunnerInv'
<1>1. /\ pc[o] = "opened" /\ pc' = [pc EXCEPT ![o] = "running"]
      /\ UNCHANGED <<world, pre, lock, outcome, late>> /\ (Fault \/ faults' = faults)
  BY DEF Capture, Goto
<1>2. pc'[o] = "running"
  BY <1>1 DEF RunnerInv, TypeOK
<1>3. ProcessesTell' /\ ProcsStep
  BY <1>1, ProcsShrink DEF world
<1>4. CASE UNCHANGED <<rec, mine>>
  <2>1. CalmStep(o)
    BY <1>1, <1>2, <1>3, <1>4 DEF CalmStep, CalmPoints, Begun, Ended
  <2>2. TypeOK'
    BY <1>1, <1>4, <2>1, CalmSteady DEF RunnerInv, TypeOK, world
  <2>3. RegistryTells'
    BY <1>1, <1>4, <2>1, CalmSteady, RegistryStep DEF world
  <2> QED
    BY <1>3, <2>1, <2>2, <2>3, CalmSteady, OpStep
<1>5. ASSUME NEW m \in Markers(o) \cup StartlessMarkers(o), RecordOwner(o, m)
      PROVE  RunnerInv'
  <2>1. m \in Owner /\ Origin(o, m.start) /\ m.start \in Times \cup {Nothing}
    BY MarkerFacts DEF Owner
  <2>2. rec' = Updated(o, "running", m.pid, m.start) /\ mine' \in {mine, [mine EXCEPT ![o] = m]}
    BY <1>5 DEF RecordOwner, StoreOwner
  <2>3. CalmStep(o)
    BY <1>1, <1>2, <1>3, <2>2, UpdatedAdds DEF CalmStep, CalmPoints, Begun, Ended
  <2>4. Steady
    BY <2>3, CalmSteady
  <2>5. /\ rec' \in [Ops -> Record \cup {Nothing}]
        /\ \A i \in Ops : rec'[i] \in {rec[i], Nothing} \/ RecordTells(i, rec[i])'
    <3>1. "running" \in {"starting", "running", "completed", "cleaned"} \cup ELIGIBLE_STATUSES
          /\ "running" \notin ELIGIBLE_STATUSES
      BY DEF ELIGIBLE_STATUSES
    <3> QED
      BY <2>1, <2>2, <2>4, <3>1, UpdatedFacts
  <2>6. mine' \in [Ops -> Owner] /\ \A i \in Ops : mine'[i] = mine[i] \/ (i = o /\ mine'[i] = m)
    BY <2>1, <2>2 DEF RunnerInv, TypeOK
  <2>7. Origin(o, m.start)'
    BY <2>1, <2>4, OriginStays DEF RunnerInv, Steady
  <2>8. \A i \in Ops : mine'[i] = mine[i] \/ Origin(i, mine[i].start)'
    BY <2>6, <2>7
  <2>9. TypeOK'
    BY <1>1, <2>3, <2>5, <2>6, CalmSteady DEF RunnerInv, TypeOK, world
  <2>10. RegistryTells'
    BY <1>1, <2>4, <2>5, <2>8, RegistryStep DEF world
  <2> QED
    BY <1>3, <2>3, <2>9, <2>10, CalmSteady, OpStep
<1> QED
  BY <1>4, <1>5 DEF Capture

LEMMA ExecutionInv ==
  ASSUME RunnerInv, NEW o \in Ops, Execution(o)
  PROVE  RunnerInv'
<1>1. /\ pc[o] \in {"spawned", "opened", "running"} /\ pc' = [pc EXCEPT ![o] = "workerPid"]
      /\ UNCHANGED <<starts, aged, rec, faults, pre, lock, mine>>
  BY DEF Execution, Goto
<1>2. PICK r \in Outcomes :
        /\ outcome' = [outcome EXCEPT ![o] = r]
        /\ procs' \in {[p \in Pids |-> IF p \in AccessOf(o) /\ Quiet(p) THEN Nothing ELSE procs[p]]}
                      \cup (IF r = "exit0" THEN {} ELSE {procs})
        /\ late' = IF LateMarkers /\ r = "timedOut" /\ pc[o] = "opened" THEN late \cup {o} ELSE late
  BY DEF Execution
<1>3. procs' \in [Pids -> Process \cup {Nothing}] /\ \A p \in Pids : procs'[p] \in {procs[p], Nothing}
  <2>1. CASE procs' = procs
    BY <2>1 DEF RunnerInv, TypeOK
  <2>2. CASE procs' = [p \in Pids |-> IF p \in AccessOf(o) /\ Quiet(p) THEN Nothing ELSE procs[p]]
    BY <2>2 DEF RunnerInv, TypeOK
  <2> QED
    BY <1>2, <2>1, <2>2
<1>4. pc'[o] = "workerPid"
  BY <1>1 DEF RunnerInv, TypeOK
<1>5. ProcessesTell' /\ ProcsStep
  BY <1>1, <1>3, ProcsShrink
<1>6. CalmStep(o)
  BY <1>1, <1>4, <1>5 DEF CalmStep, CalmPoints, Begun, Ended
<1>7. TypeOK'
  <2>1. outcome' \in [Ops -> Outcomes \cup {Nothing}] /\ late' \subseteq Ops
    BY <1>2 DEF RunnerInv, TypeOK
  <2> QED
    BY <1>1, <1>3, <1>6, <2>1, CalmSteady DEF RunnerInv, TypeOK
<1>8. RegistryTells'
  BY <1>1, <1>6, CalmSteady, RegistryStep
<1> QED
  BY <1>5, <1>6, <1>7, <1>8, CalmSteady, OpStep

LEMMA RecordWorkerPidInv ==
  ASSUME RunnerInv, NEW o \in Ops, RecordWorkerPid(o)
  PROVE  RunnerInv'
<1>1. /\ pc[o] = "workerPid" /\ pc' = [pc EXCEPT ![o] = "finalize"]
      /\ UNCHANGED <<world, rec, pre, lock, outcome, late>> /\ (Fault \/ faults' = faults)
  BY DEF RecordWorkerPid, Goto
<1>2. pc'[o] = "finalize"
  BY <1>1 DEF RunnerInv, TypeOK
<1>3. ProcessesTell' /\ ProcsStep
  BY <1>1, ProcsShrink DEF world
<1>4. CalmStep(o)
  BY <1>1, <1>2, <1>3 DEF CalmStep, CalmPoints, Begun, Ended
<1>5. Steady
  BY <1>4, CalmSteady
<1>6. mine' \in [Ops -> Owner] /\ \A i \in Ops : mine'[i] = mine[i] \/ Origin(i, mine[i].start)'
  <2>1. CASE mine' = mine
    BY <2>1 DEF RunnerInv, TypeOK
  <2>2. CASE rec[o] # Nothing /\ mine' = [mine EXCEPT ![o] = [pid |-> rec[o].pid, start |-> rec[o].start]]
    <3>1. PICK m : m = [pid |-> rec[o].pid, start |-> rec[o].start]
      OBVIOUS
    <3>2. rec[o] \in Record
      BY <2>2 DEF RunnerInv, TypeOK
    <3>3. m \in Owner /\ m.start = rec[o].start /\ m.start \in Times \cup {Nothing}
      BY <3>1, <3>2 DEF Record, Owner
    <3>4. Origin(o, m.start)
      BY <2>2, <3>3 DEF RunnerInv, RegistryTells, RecordTells
    <3>5. Origin(o, m.start)'
      BY <1>5, <3>3, <3>4, OriginStays DEF RunnerInv, Steady
    <3>6. mine' \in [Ops -> Owner] /\ \A i \in Ops : mine'[i] = mine[i] \/ (i = o /\ mine'[i] = m)
      BY <2>2, <3>1, <3>3 DEF RunnerInv, TypeOK
    <3> QED
      BY <3>5, <3>6
  <2> QED
    BY <2>1, <2>2 DEF RecordWorkerPid
<1>7. TypeOK'
  BY <1>1, <1>4, <1>6, CalmSteady DEF RunnerInv, TypeOK, world
<1>8. RegistryTells'
  BY <1>1, <1>5, <1>6, RegistryStep DEF world
<1> QED
  BY <1>3, <1>4, <1>7, <1>8, CalmSteady, OpStep

LEMMA updateOperationInv ==
  ASSUME RunnerInv, NEW o \in Ops, updateOperationFromExecution(o)
  PROVE  RunnerInv'
<1>1. /\ pc[o] = "finalize" /\ pc[o] \notin Ended /\ Return(o) /\ UNCHANGED <<world, late>>
      /\ Fault \/ faults' = faults
      /\ rec' = rec \/ rec' = Updated(o, FinalStatus(o), mine[o].pid, mine[o].start)
  BY DEF updateOperationFromExecution, Ended
<1>2. ProcessesTell' /\ ProcsStep
  BY <1>1, ProcsShrink DEF world
<1>3. \A i \in Ops : rec[i] = Nothing => rec'[i] = Nothing
  BY <1>1, UpdatedAdds
<1>4. CalmStep(o)
  BY <1>1, <1>2, <1>3, ReturnFacts DEF CalmStep
<1>5. Steady
  BY <1>4, CalmSteady
<1>6. /\ rec' \in [Ops -> Record \cup {Nothing}]
      /\ \A i \in Ops : rec'[i] \in {rec[i], Nothing} \/ RecordTells(i, rec[i])'
  <2>1. CASE rec' = rec
    BY <2>1 DEF RunnerInv, TypeOK
  <2>2. CASE rec' = Updated(o, FinalStatus(o), mine[o].pid, mine[o].start)
    <3>1. PICK m \in Owner : m = mine[o]
      BY DEF RunnerInv, TypeOK
    <3>2. PICK status \in {"starting", "running", "completed", "cleaned"} \cup ELIGIBLE_STATUSES :
            status = FinalStatus(o)
      BY DEF FinalStatus, ELIGIBLE_STATUSES
    <3>3. Origin(o, m.start)
      BY <3>1 DEF RunnerInv, RegistryTells
    <3>4. rec' = Updated(o, status, m.pid, m.start) /\ pc'[o] \in Ended
      BY <1>1, <2>2, <3>1, <3>2, ReturnFacts
    <3> QED
      BY <1>5, <3>3, <3>4, UpdatedFacts
  <2> QED
    BY <1>1, <2>1, <2>2
<1>7. TypeOK'
  BY <1>1, <1>4, <1>6, ReturnFacts, CalmSteady DEF RunnerInv, TypeOK, world
<1>8. RegistryTells'
  BY <1>1, <1>5, <1>6, ReturnFacts, RegistryStep DEF world
<1> QED
  BY <1>2, <1>4, <1>7, <1>8, CalmSteady, OpStep

\* A step of the environment or of an operation that stays where it is.
StillStep ==
    /\ UNCHANGED <<pc, pre>> /\ ProcsStep /\ faults' = faults
    /\ \A i \in Ops : rec[i] = Nothing => rec'[i] = Nothing

LEMMA StillInv ==
  ASSUME RunnerInv, StillStep
  PROVE  /\ Steady
         /\ TypeOK' /\ ProcessesTell' /\ RegistryTells' => RunnerInv'
<1>1. Steady
  BY DEF StillStep, Steady, Begun
<1>2. \A q \in Ops : PreflightKnows(q)'
  BY <1>1, PreflightKeeps DEF StillStep, RunnerInv
<1> QED
  BY <1>1, <1>2 DEF RunnerInv

LEMMA LateCaptureInv ==
  ASSUME RunnerInv, NEW o \in Ops, LateCapture(o)
  PROVE  RunnerInv'
<1>1. /\ late' \subseteq late /\ UNCHANGED <<world, faults, pc, pre, lock, mine, outcome>>
  BY DEF LateCapture
<1>2. PICK m \in Markers(o) : rec' = Updated(o, "running", m.pid, m.start)
  BY DEF LateCapture, StoreOwner
<1>3. m \in Owner /\ Origin(o, m.start)
  BY MarkerFacts
<1>4. ProcessesTell' /\ ProcsStep
  BY <1>1, ProcsShrink DEF world
<1>5. StillStep
  BY <1>1, <1>2, <1>4, UpdatedAdds DEF StillStep
<1>6. Steady
  BY <1>5, StillInv
<1>7. /\ rec' \in [Ops -> Record \cup {Nothing}]
      /\ \A i \in Ops : rec'[i] \in {rec[i], Nothing} \/ RecordTells(i, rec[i])'
  <2>1. "running" \in {"starting", "running", "completed", "cleaned"} \cup ELIGIBLE_STATUSES
        /\ "running" \notin ELIGIBLE_STATUSES
    BY DEF ELIGIBLE_STATUSES
  <2> QED
    BY <1>2, <1>3, <1>6, <2>1, UpdatedFacts
<1>8. TypeOK'
  BY <1>1, <1>7 DEF RunnerInv, TypeOK, world
<1>9. RegistryTells'
  BY <1>1, <1>6, <1>7, RegistryStep DEF world
<1> QED
  BY <1>4, <1>5, <1>8, <1>9, StillInv

LEMMA LateOpenInv ==
  ASSUME RunnerInv, NEW o \in Ops, LateOpen(o)
  PROVE  RunnerInv'
<1>1. late' \subseteq late /\ UNCHANGED <<rec, aged, faults, pc, pre, lock, mine, outcome>>
  BY DEF LateOpen
<1>2. PICK p \in Pids : Started(p, o, FALSE, "hidden")
  BY DEF LateOpen
<1>3. /\ procs' \in [Pids -> Process \cup {Nothing}] /\ starts' \in 0..MaxStarts
      /\ ProcessesTell' /\ ProcsStep
  BY <1>2, StartedFacts
<1>4. StillStep
  BY <1>1, <1>3 DEF StillStep
<1>5. TypeOK'
  BY <1>1, <1>3 DEF RunnerInv, TypeOK
<1>6. RegistryTells'
  BY <1>1, <1>4, StillInv, RegistryStep
<1> QED
  BY <1>3, <1>4, <1>5, <1>6, StillInv

LEMMA EnvironmentInv ==
  ASSUME RunnerInv, NEW p \in Pids, OtherStarts(p) \/ ProcessExits(p)
  PROVE  RunnerInv'
<1>1. UNCHANGED <<rec, aged, faults, pc, pre, runner>>
  BY DEF OtherStarts, ProcessExits
<1>2. /\ procs' \in [Pids -> Process \cup {Nothing}] /\ starts' \in 0..MaxStarts
      /\ ProcessesTell' /\ ProcsStep
  <2>1. CASE OtherStarts(p)
    BY <2>1, StartedFacts DEF OtherStarts
  <2>2. CASE ProcessExits(p)
    <3>1. starts' = starts /\ procs' = [procs EXCEPT ![p] = Nothing]
      BY <2>2 DEF ProcessExits
    <3>2. procs' \in [Pids -> Process \cup {Nothing}] /\ \A q \in Pids : procs'[q] \in {procs[q], Nothing}
      BY <3>1 DEF RunnerInv, TypeOK
    <3> QED
      BY <3>1, <3>2, ProcsShrink DEF RunnerInv, TypeOK
  <2> QED
    BY <2>1, <2>2
<1>3. StillStep
  BY <1>1, <1>2 DEF StillStep
<1>4. TypeOK'
  BY <1>1, <1>2 DEF RunnerInv, TypeOK, runner
<1>5. RegistryTells'
  BY <1>1, <1>3, StillInv, RegistryStep DEF runner
<1> QED
  BY <1>2, <1>3, <1>4, <1>5, StillInv

LEMMA AgeInv ==
  ASSUME RunnerInv, NEW o \in Ops, Age(o)
  PROVE  RunnerInv'
<1>1. /\ UNCHANGED <<procs, starts, rec, faults, pc, pre, runner>> /\ aged' = aged \cup {o}
      /\ QuickStarts => pc[o] \in Ended
  BY DEF Age
<1>2. ProcessesTell' /\ ProcsStep
  BY <1>1, ProcsShrink
<1>3. StillStep
  BY <1>1, <1>2 DEF StillStep
<1>4. TypeOK'
  BY <1>1 DEF RunnerInv, TypeOK, runner
<1>5. RegistryTells'
  BY <1>1, <1>3, StillInv, RegistryStep DEF runner
<1> QED
  BY <1>2, <1>3, <1>4, <1>5, StillInv

LEMMA CrashInv ==
  ASSUME RunnerInv, NEW h \in Hosts, Crash(h)
  PROVE  RunnerInv'
<1>1. /\ pc' = [o \in Ops |-> IF HostOf[o] = h /\ Active(o) THEN "dead" ELSE pc[o]]
      /\ pre' = [o \in Ops |-> IF HostOf[o] = h THEN NoLocals ELSE pre[o]]
      /\ lock' \in {lock, Nothing} /\ late' \subseteq late \cup Ops
      /\ mine' = [o \in Ops |-> IF HostOf[o] = h THEN NoOwner ELSE mine[o]]
      /\ outcome' = [o \in Ops |-> IF HostOf[o] = h THEN Nothing ELSE outcome[o]]
      /\ UNCHANGED <<world, rec, faults>>
  BY DEF Crash
<1>2. ProcessesTell' /\ ProcsStep
  BY <1>1, ProcsShrink DEF world
<1>3. Steady
  BY <1>1, <1>2 DEF Steady, Begun, Ended
<1>4. NoOwner \in Owner /\ NoOwner.start = Nothing
  BY DEF NoOwner, Owner
<1>5. TypeOK'
  <2>1. pc' \in [Ops -> PreflightPoints \cup RunnerPoints]
    BY <1>1 DEF RunnerInv, TypeOK, RunnerPoints
  <2>2. pre' \in [Ops -> Locals] /\ mine' \in [Ops -> Owner] /\ outcome' \in [Ops -> Outcomes \cup {Nothing}]
    BY <1>1, <1>4, NoLocalsFacts DEF RunnerInv, TypeOK
  <2> QED
    BY <1>1, <2>1, <2>2 DEF RunnerInv, TypeOK, world
<1>6. RegistryTells'
  <2>1. \A i \in Ops : mine'[i] = mine[i] \/ mine'[i].start = Nothing
    BY <1>1, <1>4
  <2>2. \A i \in Ops : mine'[i] = mine[i] \/ Origin(i, mine[i].start)'
    BY <2>1 DEF Origin
  <2> QED
    BY <1>1, <1>3, <2>2, RegistryStep DEF world
<1>7. ASSUME NEW q \in Ops PROVE PreflightKnows(q)'
  <2>1. CASE HostOf[q] = h
    <3>1. pre'[q] = NoLocals /\ pc'[q] = IF Active(q) THEN "dead" ELSE pc[q]
      BY <1>1, <2>1
    <3>2. pc'[q] \in CalmPoints
      BY <3>1 DEF Active, CalmPoints, Ended
    <3> QED
      BY <1>3, <3>1, <3>2, CalmKnows
  <2>2. CASE HostOf[q] # h
    <3>1. pre'[q] = pre[q] /\ pc'[q] = pc[q]
      BY <1>1, <2>2
    <3> QED
      BY <1>3, <3>1, PreflightKeeps DEF RunnerInv
  <2> QED
    BY <2>1, <2>2
<1> QED
  BY <1>2, <1>5, <1>6, <1>7 DEF RunnerInv

-----------------------------------------------------------------------------
(* The invariant holds.                                                    *)

LEMMA RunnerInvInit == Init => RunnerInv
<1> SUFFICES ASSUME Init PROVE RunnerInv
  OBVIOUS
<1>1. NoOwner \in Owner /\ NoOwner.start = Nothing
  BY DEF NoOwner, Owner
<1>2. /\ \A p \in Pids : procs[p] = Nothing
      /\ \A i \in Ops : /\ rec[i] = Nothing /\ pc[i] = "queued" /\ pre[i] = NoLocals
                        /\ mine[i] = NoOwner
      /\ aged = {}
  BY DEF Init
<1>3. TypeOK
  BY <1>1, BoundsAssumption, NoLocalsFacts DEF Init, TypeOK, RunnerPoints
<1>4. ProcessesTell
  BY <1>2 DEF ProcessesTell
<1>5. RegistryTells
  BY <1>1, <1>2 DEF RegistryTells, Origin
<1>6. ASSUME NEW o \in Ops PROVE PreflightKnows(o)
  <2>1. HandKnows(o)
    BY <1>2, NoLocalsFacts DEF HandKnows, KillPoints
  <2>2. ListKnows(o)
    BY <1>2, NoLocalsFacts DEF ListKnows
  <2>3. \A i \in Ops : Owes(o, i)
    BY <1>2, NoLocalsFacts DEF Owes
  <2> QED
    BY <2>1, <2>2, <2>3 DEF PreflightKnows
<1> QED
  BY <1>3, <1>4, <1>5, <1>6 DEF RunnerInv

LEMMA StutterInv ==
  ASSUME RunnerInv, UNCHANGED vars
  PROVE  RunnerInv'
<1>1. UNCHANGED <<procs, starts, rec, aged, faults, pc, pre, lock, mine, outcome, late>>
  BY DEF vars
<1>2. ProcessesTell' /\ ProcsStep
  BY <1>1, ProcsShrink
<1>3. StillStep
  BY <1>1, <1>2 DEF StillStep
<1>4. TypeOK'
  BY <1>1 DEF RunnerInv, TypeOK
<1>5. RegistryTells'
  BY <1>1, <1>3, StillInv, RegistryStep
<1> QED
  BY <1>2, <1>3, <1>4, <1>5, StillInv

LEMMA RunInv ==
  ASSUME RunnerInv, NEW o \in Ops, Run(o)
  PROVE  RunnerInv'
BY PreflightInv, CreateInv, CaptureInv, ExecutionInv, RecordWorkerPidInv, updateOperationInv DEF Run

LEMMA RunnerInvStep == RunnerInv /\ [Next]_vars => RunnerInv'
<1> SUFFICES ASSUME RunnerInv, [Next]_vars PROVE RunnerInv'
  OBVIOUS
<1>1. ASSUME NEW o \in Ops, Turn(o) PROVE RunnerInv'
  BY <1>1, TurnInv
<1>2. ASSUME NEW o \in Ops, Run(o) PROVE RunnerInv'
  BY <1>2, RunInv
<1>3. ASSUME NEW o \in Ops, Reject(o) PROVE RunnerInv'
  BY <1>3, RejectInv
<1>4. ASSUME NEW o \in Ops, OpenAccess(o) PROVE RunnerInv'
  BY <1>4, OpenAccessInv
<1>5. ASSUME NEW o \in Ops, LateCapture(o) PROVE RunnerInv'
  BY <1>5, LateCaptureInv
<1>6. ASSUME NEW o \in Ops, Age(o) PROVE RunnerInv'
  BY <1>6, AgeInv
<1>7. ASSUME NEW h \in Hosts, Crash(h) PROVE RunnerInv'
  BY <1>7, CrashInv
<1>8. ASSUME NEW p \in Pids, OtherStarts(p) \/ ProcessExits(p) PROVE RunnerInv'
  BY <1>8, EnvironmentInv
<1>9. ASSUME NEW o \in Ops, LockRefused(o) PROVE RunnerInv'
  BY <1>9, LockRefusedInv
<1>10. ASSUME NEW o \in Ops, LateOpen(o) PROVE RunnerInv'
  BY <1>10, LateOpenInv
<1>11. CASE UNCHANGED vars
  BY <1>11, StutterInv
<1> QED
  BY <1>1, <1>2, <1>3, <1>4, <1>5, <1>6, <1>7, <1>8, <1>9, <1>10, <1>11 DEF Next

(* AccessPowerShellRunner.run and the preflight cleanup it begins with: at *)
(* every await, what the preflight holds in its local variables is still   *)
(* true of the registry and of the processes, whatever the other calls,    *)
(* the users and a crashing host did since it was read.                    *)
THEOREM RunnerIsInductive == Spec => []RunnerInv
BY RunnerInvInit, RunnerInvStep, PTL DEF Spec

LEMMA PreflightReaps == ASSUME RunnerInv PROVE QuietPreflightReaps
<1> SUFFICES ASSUME NEW o \in Ops, NEW i \in Ops, pc[o] = "create", ~pre[o].errors,
                    pre[o].owed[i] # Nothing
             PROVE  /\ rec[i] = Nothing
                    /\ isOwned(pre[o].owed[i]) /\ faults = 0 => Gone(pre[o].owed[i])
  BY DEF QuietPreflightReaps, Gone
<1>1. pre[o].cur = Nothing
  BY DEF RunnerInv, PreflightKnows, HandKnows
<1>2. pre[o].todo[i] = Nothing
  BY DEF RunnerInv, PreflightKnows, ListKnows
<1>3. pre[o].cur # i
  BY <1>1, NothingFacts
<1>4. Owes(o, i)
  BY DEF RunnerInv, PreflightKnows
<1> QED
  BY <1>2, <1>3, <1>4 DEF Owes

(* cleanup, for any number of calls, processes and failures: a preflight   *)
(* that reports no error has retired every eligible record that it listed  *)
(* and whose call has ended.  The Access that such a record owned is gone  *)
(* if no registry or process call has failed so far; an inspection whose   *)
(* output was not understood lets it live.                                 *)
THEOREM PreflightsReap == Spec => []RunnerInvariant
<1>1. RunnerInv => RunnerInvariant
  BY PreflightReaps DEF RunnerInvariant, RunnerInv
<1> QED
  BY <1>1, RunnerIsInductive, PTL

\* A process starts only under an id that nobody is about to kill.
LEMMA StartsAreQuiet ==
  ASSUME RunnerInv, Next, NEW p \in Pids, procs[p] = Nothing, procs'[p] # Nothing
  PROVE  Quiet(p)
<1>1. ASSUME NEW o \in Ops, Preflight(o) PROVE FALSE
  <2>1. ASSUME NEW q, KillSucceeds(q) \/ KillFails(q) PROVE procs' \in {procs, Killed(q)}
    BY <2>1 DEF KillSucceeds, KillFails
  <2>2. CASE procs' = procs
    BY <2>2
  <2>3. CASE KillOwned(o) \/ KillHeadless(o)
    <3>1. procs' \in {procs, Killed(pre[o].target.pid)}
      BY <2>1, <2>3 DEF KillOwned, KillHeadless
    <3> QED
      BY <3>1 DEF Killed, RunnerInv, TypeOK
  <2> QED
    BY <1>1, <2>2, <2>3 DEF Preflight, ListRecords, SkipRecord, markInterruptedStartingFailed,
       reconcileRunningRecord, cleanupRecord, retireUnownedRecord, markCleaned, scanAndCleanOrphans,
       VisitOrphan, EndPreflight, Revalidate, world
<1>2. ASSUME NEW q \in Pids, NEW by, NEW named, NEW window, Started(q, by, named, window)
      PROVE  Quiet(p)
  <2>1. q = p
    BY <1>2 DEF Started, RunnerInv, TypeOK
  <2> QED
    BY <1>2, <2>1 DEF Started
<1>3. ASSUME NEW o \in Ops, OpenAccess(o) \/ LateOpen(o) PROVE Quiet(p)
  BY <1>2, <1>3 DEF OpenAccess, LateOpen
<1>4. ASSUME NEW q \in Pids, OtherStarts(q) PROVE Quiet(p)
  BY <1>2, <1>4 DEF OtherStarts
<1>5. ASSUME NEW q \in Pids, ProcessExits(q) PROVE FALSE
  BY <1>5 DEF ProcessExits, RunnerInv, TypeOK
<1>6. ASSUME NEW o \in Ops, Execution(o) PROVE FALSE
  BY <1>6 DEF Execution
<1>7. ASSUME NEW o \in Ops,
             \/ Turn(o) \/ LockRefused(o) \/ Create(o) \/ Capture(o) \/ RecordWorkerPid(o)
             \/ updateOperationFromExecution(o) \/ Reject(o) \/ LateCapture(o) \/ Age(o)
      PROVE  FALSE
  BY <1>7 DEF Turn, LockRefused, Create, Capture, RecordWorkerPid, updateOperationFromExecution, Reject,
     LateCapture, Age, world
<1>8. ASSUME NEW h \in Hosts, Crash(h) PROVE FALSE
  BY <1>8 DEF Crash, world
<1> QED
  BY <1>1, <1>3, <1>4, <1>5, <1>6, <1>7, <1>8 DEF Next, Run

\* The process a kill ends is the one that was checked.
LEMMA VictimKnown ==
  ASSUME QuickKills, RunnerInv, Next, NEW o \in Ops, Kills(o)
  PROVE  Victim(o) # Nothing /\ Victim(o).start = pre[o].target.start
<1>1. pc[o] \in KillPoints /\ procs'[pre[o].target.pid] # procs[pre[o].target.pid]
  BY DEF Kills
<1>2. pre[o].target.pid \in Pids
  BY <1>1, TargetKnown DEF KillPoints
<1>3. procs[pre[o].target.pid] # Nothing
  <2> SUFFICES ASSUME procs[pre[o].target.pid] = Nothing PROVE FALSE
    OBVIOUS
  <2>1. Quiet(pre[o].target.pid)
    BY <1>1, <1>2, StartsAreQuiet
  <2> QED
    BY <1>1, <2>1 DEF Quiet
<1> QED
  BY <1>1, <1>3 DEF Victim, RunnerInv, PreflightKnows, HandKnows

\* The process a kill ends is a user's, or that of a call that has ended.
LEMMA VictimEnded ==
  ASSUME QuickKills, QuickStarts, RunnerInv, Next, NEW o \in Ops, Kills(o),
         NEW i \in Ops, Victim(o).by = i
  PROVE  pc[i] \notin {"opened", "running"}
<1>1. Victim(o) # Nothing /\ Victim(o).start = pre[o].target.start
  BY VictimKnown
<1>2. pc[o] \in KillPoints
  BY DEF Kills
<1>3. pre[o].target.pid \in Pids /\ pre[o].target.start \in Times
  BY <1>2, TargetKnown DEF KillPoints
<1>4. pre[o].target.start # Nothing
  BY <1>3, NothingFacts
<1>5. CASE pc[o] = "killHeadless"
  <2>1. Origin("user", pre[o].target.start)
    BY <1>5 DEF RunnerInv, PreflightKnows, HandKnows
  <2>2. Victim(o).by = "user"
    BY <1>1, <1>3, <1>4, <2>1 DEF Origin, Victim
  <2> QED
    BY <2>2, NothingFacts
<1>6. CASE pc[o] = "killOwned"
  <2>1. Origin(pre[o].cur, pre[o].target.start) /\ pc[pre[o].cur] \in Ended
    BY <1>6 DEF RunnerInv, PreflightKnows, HandKnows
  <2>2. Victim(o).by = pre[o].cur
    BY <1>1, <1>3, <1>4, <2>1 DEF Origin, Victim
  <2> QED
    BY <2>1, <2>2 DEF Ended
<1> QED
  BY <1>2, <1>5, <1>6 DEF KillPoints

(* cleanupRecord and killIfHeadlessAccess, when no pid is reused between   *)
(* the check and the kill it allows and every Access reports its pid       *)
(* within DEFAULT_STARTING_STALE_MS: what they kill is the process that    *)
(* they decided on, and never the Access of a call that is still at work,  *)
(* although the calls of other hosts go on beside them.                    *)
THEOREM PreflightKillsAreSafe == QuickKills /\ QuickStarts => (Spec => KillsAreSafe)
<1> SUFFICES ASSUME QuickKills, QuickStarts PROVE Spec => KillsAreSafe
  OBVIOUS
<1> DEFINE Decided == \A o \in Ops : Kills(o) => Victim(o).start = pre[o].target.start
           Spares == \A o, i \in Ops : Kills(o) /\ Victim(o).by = i
                        => pc[i] \notin {"opened", "running"}
<1>1. RunnerInv /\ [Next]_vars => [Decided]_vars
  BY VictimKnown
<1>2. RunnerInv /\ [Next]_vars => [Spares]_vars
  BY VictimEnded
<1> QED
  BY <1>1, <1>2, RunnerIsInductive, PTL DEF Spec, KillsAreSafe, KillsWhatItDecided, LiveOperationSafe

=============================================================================
