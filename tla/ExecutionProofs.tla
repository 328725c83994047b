--------------------------- MODULE ExecutionProofs ---------------------------
(***************************************************************************)
(* What the queue of calls in a process and one call of the PowerShell     *)
(* executor promise, for every number of callers, processes and lines.     *)
(***************************************************************************)
EXTENDS ExecutionQueue, PowerShellExecutor, TLAPS

-----------------------------------------------------------------------------
(***************************************************************************)
(* The queue.  A call is active from its place in the chain to the end of  *)
(* its outer finally; its turn has come when the promise before it is      *)
(* resolved.  The chain of promises is not visible in the Map entry, which *)
(* holds its end only, so the invariant numbers the active calls of each   *)
(* process along the chain: the lowest number is the one whose turn it is, *)
(* and the highest one is the Map entry.                                   *)
(***************************************************************************)
Active(c) == pc[c] \in {"waiting"} \cup InLock
Turn(c) == previous[c] \in resolved \cup {Nobody}
Together(c, d) == ProcOf[c] = ProcOf[d] /\ Active(d)

Numbered(t) ==
    \A c \in Callers : Active(c) =>
        /\ tail[ProcOf[c]] \in Callers /\ t[c] <= t[tail[ProcOf[c]]]
        /\ \A d \in Callers : Together(c, d) /\ t[c] = t[d] => c = d
        /\ Turn(c) => \A d \in Callers : Together(c, d) => t[c] <= t[d]
        /\ ~Turn(c) => /\ previous[c] \in Callers /\ Together(c, previous[c])
                       /\ t[c] = t[previous[c]] + 1

Chained == \E t \in [Callers -> Nat] : Numbered(t)

QueueFacts ==
    /\ \A c \in resolved : pc[c] = "settled"
    /\ \A c \in Callers : pc[c] \in InLock => Turn(c)
    /\ \A c \in Callers : Active(c) => ProcOf[c] \in alive
    /\ \A p \in alive : tail[p] \in Callers => Active(tail[p]) /\ ProcOf[tail[p]] = p
    /\ \A c \in Callers \ ReadOnly : pc[c] \in {"working", "releasing"} => crossLock = c
    /\ \A c \in ReadOnly : pc[c] \notin {"acquiring", "releasing"}
    /\ crossLock # Nobody => /\ crossLock \in Callers \ ReadOnly
                            /\ pc[crossLock] \in {"working", "releasing", "finally",
                                                 "settled", "crashed"}

QueueInv == QueueTypeOK /\ QueueFacts /\ Chained

(* A queue step keeps the types.                                           *)
LEMMA QueueTypeStep == ASSUME QueueTypeOK, QueueNext PROVE QueueTypeOK'
<1> USE ProcOfAssumption DEF QueueTypeOK
<1>1. ASSUME NEW c \in Callers, Enqueue(c) PROVE QueueTypeOK'
  BY <1>1 DEF Enqueue, QueueGoto, QueuePoints
<1>2. ASSUME NEW c \in Callers, TakeTurn(c) PROVE QueueTypeOK'
  BY <1>2 DEF TakeTurn, QueueGoto, QueuePoints
<1>3. ASSUME NEW c \in Callers, AcquireCrossLock(c) PROVE QueueTypeOK'
  BY <1>3 DEF AcquireCrossLock, QueueGoto, QueuePoints
<1>4. ASSUME NEW c \in Callers, AcquireThrows(c) PROVE QueueTypeOK'
  BY <1>4 DEF AcquireThrows, QueueGoto, QueuePoints
<1>5. ASSUME NEW c \in Callers, WorkEnds(c) PROVE QueueTypeOK'
  BY <1>5 DEF WorkEnds, QueueGoto, QueuePoints
<1>6. ASSUME NEW c \in Callers, ReleaseCrossLock(c) PROVE QueueTypeOK'
  BY <1>6 DEF ReleaseCrossLock, QueueGoto, QueuePoints
<1>7. ASSUME NEW c \in Callers, Finally(c) PROVE QueueTypeOK'
  BY <1>7 DEF Finally, QueueGoto, QueuePoints
<1>8. ASSUME NEW p \in Processes, ProcessDies(p) PROVE QueueTypeOK'
  BY <1>8 DEF ProcessDies, QueuePoints
<1>9. CASE EvictStaleLock
  BY <1>9 DEF EvictStaleLock
<1> QED
  BY <1>1, <1>2, <1>3, <1>4, <1>5, <1>6, <1>7, <1>8, <1>9 DEF QueueNext, QueueStep

(* A step that leaves a call active, or as it was, and neither the Map nor *)
(* the promises changed, keeps the numbering.                              *)
LEMMA ChainedKept ==
    ASSUME Chained, UNCHANGED <<tail, previous, resolved>>,
           \A c \in Callers : Active(c)' <=> Active(c)
    PROVE  Chained'
  BY DEF Chained, Numbered, Together, Turn

(* A queue step keeps the facts about single calls.                        *)
LEMMA QueueFactsStep == ASSUME QueueInv, QueueNext PROVE QueueFacts'
<1> USE ProcOfAssumption, ReadOnlyAssumption, NobodyAssumption
    DEF QueueInv, QueueTypeOK, QueueFacts, Active, Turn, InLock
<1>1. ASSUME NEW c \in Callers, Enqueue(c) PROVE QueueFacts'
  BY <1>1 DEF Enqueue, QueueGoto
<1>2. ASSUME NEW c \in Callers, TakeTurn(c) PROVE QueueFacts'
  BY <1>2 DEF TakeTurn, QueueGoto
<1>3. ASSUME NEW c \in Callers, AcquireCrossLock(c) PROVE QueueFacts'
  BY <1>3 DEF AcquireCrossLock, QueueGoto
<1>4. ASSUME NEW c \in Callers, AcquireThrows(c) PROVE QueueFacts'
  BY <1>4 DEF AcquireThrows, QueueGoto
<1>5. ASSUME NEW c \in Callers, WorkEnds(c) PROVE QueueFacts'
  BY <1>5 DEF WorkEnds, QueueGoto
<1>6. ASSUME NEW c \in Callers, ReleaseCrossLock(c) PROVE QueueFacts'
  BY <1>6 DEF ReleaseCrossLock, QueueGoto
<1>7. ASSUME NEW c \in Callers, Finally(c) PROVE QueueFacts'
  BY <1>7 DEF Finally, QueueGoto
<1>8. ASSUME NEW p \in Processes, ProcessDies(p) PROVE QueueFacts'
  BY <1>8 DEF ProcessDies, Finished
<1>9. CASE EvictStaleLock
  BY <1>9 DEF EvictStaleLock, Writing
<1> QED
  BY <1>1, <1>2, <1>3, <1>4, <1>5, <1>6, <1>7, <1>8, <1>9 DEF QueueNext, QueueStep

(* A call that joins the queue gets the number after the Map entry's.      *)
LEMMA EnqueueChained ==
    ASSUME QueueInv, NEW c \in Callers, Enqueue(c) PROVE Chained'
<1> USE ProcOfAssumption, NobodyAssumption DEF QueueInv, QueueTypeOK
<1>1. PICK t \in [Callers -> Nat] : Numbered(t)
  BY DEF Chained
<1> DEFINE p == ProcOf[c]
<1>n. PICK n \in Nat : n = IF tail[p] = Nobody THEN 0 ELSE t[tail[p]] + 1
  OBVIOUS
<1> DEFINE u == [t EXCEPT ![c] = n]
<1>2. u \in [Callers -> Nat]
  OBVIOUS
<1>3. ~Active(c) /\ \A d \in Callers : Active(d)' <=> Active(d) \/ d = c
  BY DEF Enqueue, QueueGoto, Active, InLock
<1>4. \A d \in Callers : d # c => previous'[d] = previous[d] /\ u[d] = t[d]
  BY DEF Enqueue
<1>5. previous'[c] = tail[p] /\ tail'[p] = c /\ u[c] = n /\ resolved' = resolved
  BY DEF Enqueue
<1>6. \A q \in Processes : q # p => tail'[q] = tail[q]
  BY DEF Enqueue
<1>7. p \in alive /\ (tail[p] \in Callers => Active(tail[p]) /\ ProcOf[tail[p]] = p)
  BY DEF Enqueue, QueueFacts
<1>8. \A d \in Callers : Active(d) /\ ProcOf[d] = p => tail[p] \in Callers /\ t[d] < u[c]
  BY <1>1, <1>5, <1>n DEF Numbered
<1>9. Numbered(u)'
  <2> SUFFICES ASSUME NEW d \in Callers, Active(d)'
               PROVE  /\ tail'[ProcOf[d]] \in Callers /\ u[d] <= u[tail'[ProcOf[d]]]
                      /\ \A e \in Callers : Together(d, e)' /\ u[d] = u[e] => d = e
                      /\ Turn(d)' => \A e \in Callers : Together(d, e)' => u[d] <= u[e]
                      /\ ~Turn(d)' => /\ previous'[d] \in Callers /\ Together(d, previous[d])'
                                      /\ u[d] = u[previous'[d]] + 1
    BY DEF Numbered
  <2>1. CASE d = c
    <3>1. tail'[ProcOf[d]] \in Callers /\ u[d] <= u[tail'[ProcOf[d]]]
      BY <2>1, <1>2, <1>5
    <3>2. \A e \in Callers : Together(d, e)' /\ e # d => u[e] < u[d] /\ tail[p] \in Callers
      BY <2>1, <1>3, <1>4, <1>8 DEF Together
    <3>3. Turn(d)' => tail[p] \notin Callers
      BY <2>1, <1>5, <1>7 DEF Turn, QueueFacts, Active, InLock
    <3>4. ~Turn(d)' => /\ previous'[d] \in Callers /\ Together(d, previous[d])'
                       /\ u[d] = u[previous'[d]] + 1
      BY <2>1, <1>3, <1>4, <1>5, <1>7, <1>n DEF Turn, Together
    <3> QED
      BY <3>1, <3>2, <3>3, <3>4, <1>2
  <2>2. CASE d # c
    <3>1. Active(d) /\ u[d] = t[d] /\ (Turn(d)' <=> Turn(d))
      BY <2>2, <1>3, <1>4, <1>5 DEF Turn
    <3>2. tail'[ProcOf[d]] \in Callers /\ u[d] <= u[tail'[ProcOf[d]]]
      <4>1. CASE ProcOf[d] = p
        BY <4>1, <3>1, <1>2, <1>5, <1>8
      <4>2. CASE ProcOf[d] # p
        BY <4>2, <3>1, <1>1, <1>4, <1>6 DEF Numbered, QueueFacts
      <4> QED
        BY <4>1, <4>2
    <3>3. ASSUME NEW e \in Callers, Together(d, e)'
          PROVE  (u[d] = u[e] => d = e) /\ (Turn(d)' => u[d] <= u[e])
      <4>1. CASE e = c
        BY <4>1, <3>1, <3>3, <1>2, <1>8 DEF Together
      <4>2. CASE e # c
        BY <4>2, <3>1, <3>3, <1>1, <1>3, <1>4 DEF Numbered, Together
      <4> QED
        BY <4>1, <4>2
    <3>4. ~Turn(d)' => /\ previous'[d] \in Callers /\ Together(d, previous[d])'
                       /\ u[d] = u[previous'[d]] + 1
      BY <2>2, <3>1, <1>1, <1>3, <1>4 DEF Numbered, Together
    <3> QED
      BY <3>2, <3>3, <3>4
  <2> QED
    BY <2>1, <2>2
<1> QED
  BY <1>2, <1>9 DEF Chained

(* A call that ends has the lowest number of its process: the next one     *)
(* takes its turn, and if it is the Map entry no call is left.             *)
LEMMA FinallyChained ==
    ASSUME QueueInv, NEW c \in Callers, Finally(c) PROVE Chained'
<1> USE ProcOfAssumption, NobodyAssumption DEF QueueInv, QueueTypeOK
<1>1. PICK t \in [Callers -> Nat] : Numbered(t)
  BY DEF Chained
<1>2. Active(c) /\ Turn(c) /\ \A d \in Callers : Active(d)' <=> Active(d) /\ d # c
  BY DEF Finally, QueueGoto, Active, InLock, QueueFacts
<1>3. \A d \in Callers : Together(c, d) /\ d # c => t[c] < t[d] /\ tail[ProcOf[c]] # c
  BY <1>1, <1>2 DEF Numbered, Together
<1>4. previous' = previous /\ resolved' = resolved \cup {c}
  BY DEF Finally
<1>5. \A p \in Processes : tail'[p] = IF p = ProcOf[c] /\ tail[p] = c THEN Nobody ELSE tail[p]
  BY DEF Finally
<1>6. ASSUME NEW d \in Callers, Active(d)'
      PROVE  /\ tail'[ProcOf[d]] \in Callers /\ t[d] <= t[tail'[ProcOf[d]]]
             /\ \A e \in Callers : Together(d, e)' /\ t[d] = t[e] => d = e
             /\ Turn(d)' => \A e \in Callers : Together(d, e)' => t[d] <= t[e]
             /\ ~Turn(d)' => /\ previous'[d] \in Callers /\ Together(d, previous[d])'
                             /\ t[d] = t[previous'[d]] + 1
  <2>1. Active(d) /\ d # c /\ \A e \in Callers : Together(d, e)' => Together(d, e) /\ e # c
    BY <1>2, <1>6 DEF Together
  <2>2. tail'[ProcOf[d]] \in Callers /\ t[d] <= t[tail'[ProcOf[d]]]
    BY <2>1, <1>1, <1>3, <1>5 DEF Numbered, Together
  <2>3. \A e \in Callers : Together(d, e)' /\ t[d] = t[e] => d = e
    BY <2>1, <1>1 DEF Numbered
  <2>4. Turn(d)' => \A e \in Callers : Together(d, e)' => t[d] <= t[e]
    <3>1. CASE Turn(d)
      BY <3>1, <2>1, <1>1 DEF Numbered
    <3>2. CASE ~Turn(d) /\ Turn(d)'
      <4>1. previous[d] = c /\ ProcOf[d] = ProcOf[c] /\ t[d] = t[c] + 1
        BY <3>2, <2>1, <1>1, <1>4 DEF Numbered, Turn, Together
      <4> QED
        BY <4>1, <2>1, <1>3 DEF Together
    <3> QED
      BY <3>1, <3>2
  <2>5. ~Turn(d)' => /\ previous'[d] \in Callers /\ Together(d, previous[d])'
                     /\ t[d] = t[previous'[d]] + 1
    BY <2>1, <1>1, <1>2, <1>4 DEF Numbered, Turn, Together
  <2> QED
    BY <2>2, <2>3, <2>4, <2>5
<1> QED
  BY <1>1, <1>6 DEF Chained, Numbered

(* A process that dies takes all its calls with it and no other.           *)
LEMMA DiesChained ==
    ASSUME QueueInv, NEW p \in Processes, ProcessDies(p) PROVE Chained'
<1> USE ProcOfAssumption, NobodyAssumption DEF QueueInv, QueueTypeOK
<1>1. PICK t \in [Callers -> Nat] : Numbered(t)
  BY DEF Chained
<1>2. \A d \in Callers : Active(d)' <=> Active(d) /\ ProcOf[d] # p
  BY DEF ProcessDies, Active, InLock, Finished
<1>3. UNCHANGED <<tail, previous, resolved>>
  BY DEF ProcessDies
<1>4. Numbered(t)'
  BY <1>1, <1>2, <1>3 DEF Numbered, Together, Turn
<1> QED
  BY <1>1, <1>4 DEF Chained

(* The invariant holds at first, is kept by every step, and implies the    *)
(* safety of the queue.                                                    *)
LEMMA QueueInvInit == QueueInit => QueueInv
<1> SUFFICES ASSUME QueueInit PROVE QueueInv
  OBVIOUS
<1>1. QueueTypeOK /\ QueueFacts
  BY NobodyAssumption, ReadOnlyAssumption
     DEF QueueInit, QueueTypeOK, QueuePoints, QueueFacts, Active, InLock
<1>2. [c \in Callers |-> 0] \in [Callers -> Nat] /\ Numbered([c \in Callers |-> 0])
  BY DEF QueueInit, Numbered, Active, InLock
<1> QED
  BY <1>1, <1>2 DEF QueueInv, Chained

LEMMA QueueInvStep == QueueInv /\ [QueueNext]_queueVars => QueueInv'
<1>1. ASSUME QueueInv, QueueNext PROVE QueueInv'
  <2>1. QueueTypeOK' /\ QueueFacts'
    BY <1>1, QueueTypeStep, QueueFactsStep DEF QueueInv
  <2>2. CASE \E c \in Callers : Enqueue(c) \/ Finally(c)
    BY <1>1, <2>1, <2>2, EnqueueChained, FinallyChained DEF QueueInv
  <2>3. CASE \E p \in Processes : ProcessDies(p)
    BY <1>1, <2>1, <2>3, DiesChained DEF QueueInv
  <2>4. ASSUME NEW c \in Callers,
               \/ TakeTurn(c) \/ AcquireCrossLock(c) \/ AcquireThrows(c)
               \/ WorkEnds(c) \/ ReleaseCrossLock(c)
        PROVE  Chained'
    <3>1. UNCHANGED <<tail, previous, resolved>> /\ \A d \in Callers : Active(d)' <=> Active(d)
      BY <1>1, <2>4 DEF QueueInv, QueueTypeOK, TakeTurn, AcquireCrossLock, AcquireThrows,
                        WorkEnds, ReleaseCrossLock, QueueGoto, Active, InLock
    <3> QED
      BY <1>1, <3>1, ChainedKept DEF QueueInv
  <2>5. CASE EvictStaleLock
    BY <1>1, <2>1, <2>5, ChainedKept DEF QueueInv, EvictStaleLock, Active
  <2> QED
    BY <1>1, <2>1, <2>2, <2>3, <2>4, <2>5 DEF QueueNext, QueueStep, QueueInv
<1>2. ASSUME QueueInv, UNCHANGED queueVars PROVE QueueInv'
  BY <1>2 DEF queueVars, QueueInv, QueueTypeOK, QueueFacts, Chained, Numbered, Active, Turn,
              Together
<1> QED
  BY <1>1, <1>2

LEMMA QueueInvSafe == QueueInv => QueueSafe
<1> SUFFICES ASSUME QueueInv PROVE QueueSafe
  OBVIOUS
<1> USE ProcOfAssumption, NobodyAssumption DEF QueueInv, QueueTypeOK
<1>1. InProcessExclusion
  <2>1. PICK t \in [Callers -> Nat] : Numbered(t)
    BY DEF Chained
  <2>2. ASSUME NEW c \in Callers, NEW d \in Callers, ProcOf[c] = ProcOf[d],
               pc[c] \in InLock, pc[d] \in InLock
        PROVE  c = d
    <3>1. Turn(c) /\ Turn(d) /\ Together(c, d) /\ Together(d, c)
      BY <2>2 DEF QueueFacts, Together, Active
    <3>2. t[c] <= t[d] /\ t[d] <= t[c]
      BY <2>1, <3>1 DEF Numbered, Together
    <3> QED
      BY <2>1, <3>1, <3>2 DEF Numbered, Together
  <2> QED
    BY <2>2 DEF InProcessExclusion
<1>2. WritersExclusive
  BY DEF WritersExclusive, QueueFacts
<1>3. NoLeak
  BY DEF NoLeak, QueueFacts, Active, InLock, Finished
<1> QED
  BY <1>1, <1>2, <1>3 DEF QueueSafe

(* runWithAccessExecutionLock: in every process one call for the database  *)
(* runs at a time, no two writers work on it at once in any process, and   *)
(* the Map keeps no entry when all calls of a process are over.            *)
THEOREM QueueIsSafe == QueueSpec => []QueueSafe
<1>1. QueueInit => QueueInv
  BY QueueInvInit
<1>2. QueueInv /\ [QueueNext]_queueVars => QueueInv'
  BY QueueInvStep
<1>3. QueueInv => QueueSafe
  BY QueueInvSafe
<1> QED
  BY <1>1, <1>2, <1>3, PTL DEF QueueSpec

(* A step of the queue uses the lock as a lock, or leaves it alone.        *)
LEMMA CrossLockStep == QueueInv /\ [QueueNext]_queueVars => [CrossLock!DbNext]_(CrossLock!lockVars)
<1> SUFFICES ASSUME QueueInv, [QueueNext]_queueVars
             PROVE  [CrossLock!DbNext]_(CrossLock!lockVars)
  OBVIOUS
<1> USE ReadOnlyAssumption, NobodyAssumption
    DEF QueueInv, QueueTypeOK, QueueFacts, Writing, CrossLock!DbNext, CrossLock!lockVars
<1>1. ASSUME NEW c \in Callers, AcquireCrossLock(c) PROVE CrossLock!DbNext
  BY <1>1 DEF AcquireCrossLock, QueueGoto, CrossLock!Take
<1>2. ASSUME NEW c \in Callers, ReleaseCrossLock(c) PROVE CrossLock!DbNext
  <2>1. Writing = {c} /\ Writing' = {} /\ crossLock = c
    BY <1>2 DEF ReleaseCrossLock, QueueGoto
  <2>2. CASE crossLock' = Nobody
    BY <1>2, <2>1, <2>2 DEF CrossLock!Give
  <2>3. CASE crossLock' = crossLock
    BY <1>2, <2>1, <2>3 DEF CrossLock!Abandon
  <2> QED
    BY <1>2, <2>2, <2>3 DEF ReleaseCrossLock
<1>3. ASSUME NEW p \in Processes, ProcessDies(p) PROVE [CrossLock!DbNext]_(CrossLock!lockVars)
  <2>1. CASE crossLock \in Writing /\ ProcOf[crossLock] = p
    BY <1>3, <2>1 DEF ProcessDies, Finished, CrossLock!Abandon
  <2>2. CASE ~(crossLock \in Writing /\ ProcOf[crossLock] = p)
    BY <1>3, <2>2 DEF ProcessDies, Finished
  <2> QED
    BY <2>1, <2>2
<1>4. CASE EvictStaleLock
  BY <1>4 DEF EvictStaleLock, CrossLock!TakeAway
<1>5. ASSUME NEW c \in Callers,
             \/ Enqueue(c) \/ TakeTurn(c) \/ AcquireThrows(c) \/ WorkEnds(c) \/ Finally(c)
      PROVE  UNCHANGED CrossLock!lockVars
  BY <1>5 DEF Enqueue, TakeTurn, AcquireThrows, WorkEnds, Finally, QueueGoto
<1>6. CASE UNCHANGED queueVars
  BY <1>6 DEF queueVars
<1> QED
  BY <1>1, <1>2, <1>3, <1>4, <1>5, <1>6 DEF QueueNext, QueueStep

(* runWithAccessExecutionLock uses the cross-process lock as DatabaseLock  *)
(* specifies it, for every number of processes and callers: nobody works   *)
(* or releases without having it, not after a throw and not after the      *)
(* process of the caller before it died.                                   *)
THEOREM QueueUsesLock == QueueSpec => QueueUsesDatabaseLock
<1>1. QueueInit => CrossLock!DbInit
  BY DEF QueueInit, CrossLock!DbInit, Writing
<1>2. QueueInv /\ [QueueNext]_queueVars => [CrossLock!DbNext]_(CrossLock!lockVars)
  BY CrossLockStep
<1> QED
  BY <1>1, <1>2, QueueInvInit, QueueInvStep, PTL
     DEF QueueSpec, QueueUsesDatabaseLock, CrossLock!DbSpec
-----------------------------------------------------------------------------
(***************************************************************************)
(* One call of the executor.  While the call is open the buffer holds at   *)
(* most a part of one line, and every marker before it is captured; once   *)
(* it has ended by itself nothing more can arrive.                         *)
(***************************************************************************)
Arrived(n) == {line \in MarkerLines : Whole(line) <= n}

Buffered ==
    /\ captured \subseteq Arrived(consumed)
    /\ execAt = "spawned" => consumed = 3 * (received \div 3) /\ Arrived(consumed) \subseteq captured

Over ==
    execResult \in {"exit", "spawnError"} =>
        /\ child # "running" /\ received = written
        /\ Arrived(written) \subseteq captured /\ capturing \subseteq awaited

ExecFacts ==
    /\ execAt = "idle" => child = "none" /\ written = 0 /\ cause = "none" /\ captured = {}
    /\ execAt \in {"idle", "spawned"} <=> execResult = "none"
    /\ killing # "no" => cause # "none"
    /\ execAt = "returned" => awaited \cap capturing = {}

ExecInv == ExecTypeOK /\ ExecFacts /\ Buffered /\ Over /\ ResultTellsCause

(* What division by the length of a line says of the last whole line.      *)
LEMMA Thirds == ASSUME NEW n \in Nat PROVE n \div 3 \in Nat /\ 3 * (n \div 3) <= n /\ n < 3 * (n \div 3) + 3
  OBVIOUS

(* While the call is open, taking the whole lines up to piece n out of the *)
(* buffer captures every marker up to there.                               *)
LEMMA BufferDrained ==
    ASSUME ExecInv, execAt = "spawned", NEW n \in Nat
    PROVE  Arrived(n) \subseteq captured \cup MarkersUpTo(n)
<1>1. PICK k \in Nat : consumed = 3 * k
  BY Thirds DEF ExecInv, Buffered, ExecTypeOK
<1>2. ASSUME NEW line \in MarkerLines, Whole(line) <= n, line \notin captured
      PROVE  line \in MarkersUpTo(n)
  <2>1. line \in Nat
    BY LinesAssumption
  <2>2. ~(Whole(line) <= consumed)
    BY <1>2 DEF ExecInv, Buffered, Arrived
  <2>3. 3 * line - 1 > 3 * k
    BY <2>1, <2>2, <1>1 DEF Whole
  <2>4. line >= k + 1
    BY <2>1, <2>3
  <2> QED
    BY <2>1, <2>4, <1>1, <1>2 DEF MarkersUpTo, Whole
<1> QED
  BY <1>2 DEF Arrived

(* Settling keeps the invariant, provided the outcome tells the cause and  *)
(* an end by itself comes after the last of the output.                    *)
LEMMA SettleKeeps ==
    ASSUME ExecInv, NEW outcome \in {"exit", "timedOut", "aborted", "spawnError"}, Settle(outcome),
           UNCHANGED <<written, received, cause, killing>>,
           child' \in {"ended", "killed"} \/ child' = child,
           outcome \in {"exit", "spawnError"} => cause = "none",
           outcome = "timedOut" => cause = "timeout",
           outcome = "aborted" => cause = "abort",
           outcome \in {"exit", "spawnError"} => child' \in {"ended", "killed"} /\ received = written
    PROVE  ExecInv'
<1> USE DEF ExecInv, Settle, Process
<1>1. received \in Nat /\ written \in Nat /\ consumed \in Nat /\ received <= written /\ consumed <= received
  BY LinesAssumption DEF ExecTypeOK
<1>2. MarkersUpTo(received) \subseteq Arrived(received) /\ Arrived(received) \subseteq MarkerLines
  BY DEF MarkersUpTo, Arrived
<1>3. captured \subseteq Arrived(received)
  <2>1. \A line \in MarkerLines : Whole(line) \in Int
    BY LinesAssumption DEF Whole
  <2> QED
    BY <1>1, <2>1 DEF Buffered, Arrived
<1>4. Arrived(received) \subseteq captured'
  BY <1>1, BufferDrained
<1>5. ExecTypeOK'
  BY <1>1, <1>2 DEF ExecTypeOK
<1>6. ExecFacts'
  BY DEF ExecFacts, ExecTypeOK
<1>7. Buffered'
  BY <1>2, <1>3 DEF Buffered, Arrived
<1>8. Over'
  BY <1>4 DEF Over, Arrived
<1>9. ResultTellsCause'
  BY DEF ResultTellsCause
<1> QED
  BY <1>5, <1>6, <1>7, <1>8, <1>9

(* A chunk of output keeps the invariant, before and after the settling.   *)
LEMMA ReceiveKeeps == ASSUME ExecInv, NEW n \in 1..3 * MaxLines, Receive(n) PROVE ExecInv'
<1> USE LinesAssumption DEF ExecInv
<1>1. received \in Nat /\ written \in Nat /\ consumed \in Nat /\ consumed <= received
  BY DEF ExecTypeOK
<1>2. n \in Nat /\ received < n /\ n <= written /\ received' = n
  BY <1>1 DEF Receive
<1>3. PICK newline \in Nat : newline = 3 * (n \div 3) /\ newline <= n /\ n < newline + 3
  BY <1>2, Thirds
<1>4. /\ consumed' = IF newline > consumed THEN newline ELSE consumed
      /\ consumed' \in Nat /\ consumed <= consumed' /\ newline <= consumed' /\ consumed' <= n
  BY <1>1, <1>2, <1>3 DEF Receive
<1>5. /\ captured' = captured \cup MarkersUpTo(newline)
      /\ capturing' = capturing \cup MarkersUpTo(newline)
      /\ UNCHANGED <<execAt, child, written, awaited, cause, killing, execResult>>
  BY <1>3 DEF Receive, Process
<1>6. MarkerLines \subseteq Nat
  OBVIOUS
<1>7. MarkersUpTo(newline) \subseteq Arrived(consumed') /\ captured \subseteq Arrived(consumed')
  <2>1. consumed \in Int /\ newline \in Int /\ consumed' \in Int
    BY <1>1, <1>4
  <2>2. captured \subseteq MarkerLines /\ \A line \in captured : Whole(line) <= consumed
    BY DEF Buffered, Arrived
  <2>3. \A line \in MarkerLines : Whole(line) <= newline => Whole(line) <= consumed'
    BY <2>1, <1>4, <1>6 DEF Whole
  <2>4. \A line \in MarkersUpTo(newline) : line \in MarkerLines /\ Whole(line) <= newline
    BY DEF MarkersUpTo
  <2>5. \A line \in captured : Whole(line) <= consumed'
    BY <2>1, <2>2, <1>4, <1>6 DEF Whole
  <2>6. MarkersUpTo(newline) \subseteq Arrived(consumed')
    BY <2>3, <2>4 DEF Arrived
  <2> QED
    BY <2>2, <2>5, <2>6 DEF Arrived
<1>8. MarkersUpTo(newline) \cap captured = {}
  <2>1. consumed \in Int
    BY <1>1
  <2>2. \A line \in captured : line \in MarkerLines /\ Whole(line) <= consumed
    BY DEF Buffered, Arrived
  <2>3. \A line \in MarkersUpTo(newline) : line \in MarkerLines /\ consumed < Whole(line) - 1
    BY DEF MarkersUpTo
  <2>4. \A line \in MarkerLines : ~(consumed < Whole(line) - 1 /\ Whole(line) <= consumed)
    BY <2>1, <1>6 DEF Whole
  <2> QED
    BY <2>2, <2>3, <2>4
<1>9. ExecTypeOK'
  <2>1. written' \in 0..3 * MaxLines /\ received' \in 0..written' /\ consumed' \in 0..received'
    BY <1>1, <1>2, <1>4, <1>5 DEF ExecTypeOK
  <2>2. MarkersUpTo(newline) \subseteq MarkerLines
    BY DEF MarkersUpTo
  <2> QED
    BY <2>1, <2>2, <1>5 DEF ExecTypeOK
<1>10. ExecFacts'
  BY <1>2, <1>5, <1>8 DEF ExecFacts, ExecTypeOK, Receive
<1>11. Buffered'
  <2>1. CASE execAt = "spawned"
    <3>1. consumed <= newline
      BY <2>1, <1>1, <1>2, <1>3, Thirds DEF Buffered
    <3>2. consumed' = newline
      BY <3>1, <1>1, <1>4
    <3>3. Arrived(newline) \subseteq captured'
      BY <2>1, <1>3, <1>5, BufferDrained
    <3> QED
      BY <3>2, <3>3, <1>2, <1>3, <1>7, <1>5 DEF Buffered, Arrived
  <2>2. CASE execAt # "spawned"
    BY <2>2, <1>7, <1>5 DEF Buffered, Arrived
  <2> QED
    BY <2>1, <2>2
<1>12. Over'
  BY <1>1, <1>2, <1>5 DEF Over
<1>13. ResultTellsCause'
  BY <1>5 DEF ResultTellsCause
<1> QED
  BY <1>9, <1>10, <1>11, <1>12, <1>13

(* Every step of the executor keeps the invariant.                         *)
LEMMA ExecInvStep == ExecInv /\ [ExecNext]_execVars => ExecInv'
<1> SUFFICES ASSUME ExecInv, [ExecNext]_execVars PROVE ExecInv'
  OBVIOUS
<1> USE LinesAssumption DEF ExecInv
<1>1. CASE Spawn
  <2>1. received = 0 /\ consumed = 0 /\ 0 = 3 * (0 \div 3) /\ Arrived(0) = {}
    <3>1. received = 0 /\ consumed = 0
      BY <1>1 DEF Spawn, ExecTypeOK, ExecFacts
    <3>2. \A line \in MarkerLines : ~(Whole(line) <= 0)
      BY DEF Whole
    <3>3. 0 = 3 * (0 \div 3)
      OBVIOUS
    <3> QED
      BY <3>1, <3>2, <3>3 DEF Arrived
  <2>2. ExecTypeOK' /\ ExecFacts' /\ Over' /\ ResultTellsCause'
    BY <1>1, <2>1 DEF Spawn, ExecTypeOK, ExecFacts, Over, ResultTellsCause, Arrived
  <2>3. Buffered'
    BY <1>1, <2>1 DEF Spawn, Buffered, Arrived
  <2> QED
    BY <2>2, <2>3
<1>2. CASE Close
  BY <1>2, SettleKeeps DEF Close, Ended, ExecTypeOK
<1>3. CASE SpawnError
  <2>1. CASE cause = "none" /\ Settle("spawnError")
    <3>1. received = written
      BY <1>3 DEF SpawnError, ExecTypeOK
    <3> QED
      BY <1>3, <2>1, <3>1, SettleKeeps DEF SpawnError
  <2>2. CASE UNCHANGED <<execAt, execResult, consumed, captured, capturing, awaited>>
    BY <1>3, <2>2 DEF SpawnError, ExecTypeOK, ExecFacts, Buffered, Over, ResultTellsCause, Arrived
  <2> QED
    BY <1>3, <2>1, <2>2 DEF SpawnError
<1>4. CASE KillReturns
  BY <1>4 DEF KillReturns, ExecTypeOK, ExecFacts, Buffered, Over, ResultTellsCause, Arrived
<1>5. CASE FinishAfterKill
  BY <1>5, SettleKeeps DEF FinishAfterKill, Ended, ExecTypeOK, ExecFacts
<1>6. CASE Return
  BY <1>6 DEF Return, ExecTypeOK, ExecFacts, Buffered, Over, ResultTellsCause, Arrived
<1>7. CASE Terminate("timeout") \/ Terminate("abort")
  BY <1>7 DEF Terminate, ExecTypeOK, ExecFacts, Buffered, Over, ResultTellsCause, Arrived
<1>8. ASSUME NEW line \in MarkerLines, CaptureSettles(line) PROVE ExecInv'
  BY <1>8 DEF CaptureSettles, ExecTypeOK, ExecFacts, Buffered, Over, ResultTellsCause, Arrived
<1>9. CASE ChildWrites
  <2>1. written \in Nat /\ written' \in 0..3 * MaxLines /\ written' = written + 1
    BY <1>9 DEF ChildWrites, ExecTypeOK
  <2> QED
    BY <1>9, <2>1 DEF ChildWrites, ExecTypeOK, ExecFacts, Buffered, Over, ResultTellsCause, Arrived
<1>10. CASE ChildEnds
  BY <1>10 DEF ChildEnds, ExecTypeOK, ExecFacts, Buffered, Over, ResultTellsCause, Arrived
<1>11. CASE KillTakesEffect
  BY <1>11 DEF KillTakesEffect, ExecTypeOK, ExecFacts, Buffered, Over, ResultTellsCause, Arrived
<1>12. ASSUME NEW n \in 1..3 * MaxLines, Receive(n) PROVE ExecInv'
  BY <1>12, ReceiveKeeps
<1>13. CASE UNCHANGED execVars
  BY <1>13 DEF execVars, ExecTypeOK, ExecFacts, Buffered, Over, ResultTellsCause, Arrived
<1> QED
  BY <1>1, <1>2, <1>3, <1>4, <1>5, <1>6, <1>7, <1>8, <1>9, <1>10, <1>11, <1>12, <1>13
     DEF ExecNext, ExecStep

LEMMA ExecInvInit == ExecInit => ExecInv
  BY LinesAssumption
     DEF ExecInit, ExecInv, ExecTypeOK, ExecFacts, Buffered, Over, ResultTellsCause, Arrived

(* default-executor.ts: however the child's end, the timer, the abort, the *)
(* kill and the chunks of output race, the result names the first cause    *)
(* and a returned call has handled every marker it may be asked about.     *)
THEOREM ExecutorIsSafe == ExecSpec => []ExecutorSafe
<1>1. ExecInit => ExecInv
  BY ExecInvInit
<1>2. ExecInv /\ [ExecNext]_execVars => ExecInv'
  BY ExecInvStep
<1>3. ExecInv => ExecutorSafe
  BY DEF ExecInv, ExecFacts, Over, Arrived, ExecutorSafe, CapturesKnownAtReturn
<1> QED
  BY <1>1, <1>2, <1>3, PTL DEF ExecSpec

(***************************************************************************)
(* The call as the runner sees it.                                         *)
(***************************************************************************)
(* One more piece completes at most one marker.                            *)
LEMMA NextPiece ==
    ASSUME NEW n \in Nat
    PROVE  \/ Arrived(n + 1) = Arrived(n)
           \/ \E line \in MarkerLines \ Arrived(n) : Arrived(n + 1) = Arrived(n) \cup {line}
<1>1. MarkerLines \subseteq Nat
  BY LinesAssumption
<1>2. CASE \E line \in MarkerLines : Whole(line) = n + 1
  <2>1. PICK line \in MarkerLines : Whole(line) = n + 1
    BY <1>2
  <2>2. \A l \in MarkerLines : Whole(l) <= n + 1 <=> Whole(l) <= n \/ l = line
    BY <1>1, <2>1 DEF Whole
  <2>3. line \notin Arrived(n)
    BY <2>1 DEF Arrived
  <2> QED
    BY <2>1, <2>2, <2>3 DEF Arrived
<1>3. CASE \A line \in MarkerLines : Whole(line) # n + 1
  <2>1. \A l \in MarkerLines : Whole(l) <= n + 1 <=> Whole(l) <= n
    BY <1>1, <1>3 DEF Whole
  <2> QED
    BY <2>1 DEF Arrived
<1> QED
  BY <1>2, <1>3

(* What leaves the buffer was never captured before: no marker is handled  *)
(* twice, so none that is known becomes unknown again.                     *)
LEMMA CapturedOnce ==
    ASSUME ExecInv, NEW n \in Nat
    PROVE  (captured \cup MarkersUpTo(n)) \ (capturing \cup MarkersUpTo(n)) = captured \ capturing
<1>1. consumed \in Nat
  BY LinesAssumption DEF ExecInv, ExecTypeOK
<1>2. \A line \in captured : line \in MarkerLines /\ Whole(line) <= consumed
  BY DEF ExecInv, Buffered, Arrived
<1>3. \A line \in MarkerLines : ~(consumed < Whole(line) - 1 /\ Whole(line) <= consumed)
  BY <1>1, LinesAssumption DEF Whole
<1>4. MarkersUpTo(n) \cap captured = {}
  BY <1>2, <1>3 DEF MarkersUpTo
<1> QED
  BY <1>4

(* A marker that was captured has been written.                            *)
LEMMA CapturedIsWritten == ASSUME ExecInv PROVE captured \subseteq Arrived(written)
<1>1. consumed \in Nat /\ written \in Nat /\ consumed <= written
  BY LinesAssumption DEF ExecInv, ExecTypeOK
<1>2. \A line \in MarkerLines : Whole(line) <= consumed => Whole(line) <= written
  BY <1>1, LinesAssumption DEF Whole
<1> QED
  BY <1>2 DEF ExecInv, Buffered, Arrived

(* Every step of the executor is a step of the abstract execution, or is   *)
(* not seen by the runner.                                                 *)
LEMMA ScriptStep == ExecInv /\ [ExecNext]_execVars => [Script!ScriptNext]_(Script!scriptVars)
<1> SUFFICES ASSUME ExecInv, [ExecNext]_execVars
             PROVE  [Script!ScriptNext]_(Script!scriptVars)
  OBVIOUS
<1> DEFINE result == IF execAt = "returned" THEN execResult ELSE "none"
<1>1. /\ Script!scriptVars = <<Arrived(written), captured \ capturing, result>>
      /\ Script!scriptVars' = <<Arrived(written'), captured' \ capturing', result'>>
  BY DEF Script!scriptVars, Arrived
<1>2. written \in Nat /\ received \in Nat
  BY LinesAssumption DEF ExecInv, ExecTypeOK
<1>3. CASE ChildWrites
  <2>1. written' = written + 1 /\ UNCHANGED <<execAt, execResult, captured, capturing>>
    BY <1>3 DEF ChildWrites
  <2>2. result \notin Script!EndedByItself
    BY <1>3 DEF ExecInv, Over, ChildWrites, Script!EndedByItself
  <2>3. CASE Arrived(written + 1) = Arrived(written)
    BY <1>1, <2>1, <2>3
  <2>4. ASSUME NEW line \in MarkerLines \ Arrived(written),
               Arrived(written + 1) = Arrived(written) \cup {line}
        PROVE  Script!ScriptNext
    BY <2>1, <2>2, <2>4 DEF Script!ScriptNext, Script!Write, Arrived
  <2> QED
    BY <1>2, <2>3, <2>4, NextPiece
<1>4. ASSUME NEW line \in MarkerLines, CaptureSettles(line) PROVE Script!ScriptNext
  <2>1. line \in capturing /\ capturing' = capturing \ {line}
        /\ UNCHANGED <<execAt, execResult, written, captured>>
    BY <1>4 DEF CaptureSettles
  <2>2. line \in captured /\ line \in Arrived(written)
    BY <2>1, CapturedIsWritten DEF ExecInv, ExecTypeOK
  <2>3. result \notin Script!EndedByItself
    BY <2>1 DEF ExecInv, Over, ExecFacts, Script!EndedByItself
  <2>4. captured' \ capturing' = (captured \ capturing) \cup {line}
    BY <2>1, <2>2
  <2> QED
    BY <2>1, <2>2, <2>3, <2>4 DEF Script!ScriptNext, Script!Learn, Arrived
<1>5. CASE Return
  <2>1. /\ execAt = "settled" /\ execAt' = "returned" /\ awaited \cap capturing = {}
        /\ UNCHANGED <<execResult, written, captured, capturing>>
    BY <1>5 DEF Return
  <2>2. execResult \in Script!EndedByItself \cup {"timedOut", "aborted"}
    BY <2>1 DEF ExecInv, ExecTypeOK, ExecFacts, Script!EndedByItself
  <2>3. execResult \in Script!EndedByItself => captured \ capturing = Arrived(written)
    <3>1. execResult \in Script!EndedByItself => capturing = {} /\ Arrived(written) \subseteq captured
      BY <2>1 DEF ExecInv, Over, Script!EndedByItself
    <3> QED
      BY <3>1, CapturedIsWritten
  <2> QED
    BY <2>1, <2>2, <2>3 DEF Script!ScriptNext, Script!Finish, Arrived
<1>6. ASSUME UNCHANGED written, result' = result, captured' \ capturing' = captured \ capturing
      PROVE  UNCHANGED Script!scriptVars
  BY <1>1, <1>6
<1>7. ASSUME NEW n \in Nat, Process(MarkersUpTo(n)) PROVE captured' \ capturing' = captured \ capturing
  BY <1>7, CapturedOnce DEF Process
<1>8. CASE Close \/ FinishAfterKill
  BY <1>2, <1>6, <1>7, <1>8 DEF Close, FinishAfterKill, Settle
<1>9. CASE SpawnError
  BY <1>2, <1>6, <1>7, <1>9 DEF SpawnError, Settle
<1>10. ASSUME NEW n \in 1..3 * MaxLines, Receive(n) PROVE UNCHANGED Script!scriptVars
  <2>1. 3 * (n \div 3) \in Nat
    BY Thirds, LinesAssumption
  <2> QED
    BY <1>6, <1>7, <1>10, <2>1 DEF Receive
<1>11. CASE Spawn
  BY <1>6, <1>11 DEF Spawn
<1>12. CASE KillReturns \/ Terminate("timeout") \/ Terminate("abort") \/ ChildEnds \/ KillTakesEffect
  BY <1>6, <1>12 DEF KillReturns, Terminate, ChildEnds, KillTakesEffect
<1>13. CASE UNCHANGED execVars
  BY <1>6, <1>13 DEF execVars
<1> QED
  BY <1>3, <1>4, <1>5, <1>8, <1>9, <1>10, <1>11, <1>12, <1>13 DEF ExecNext, ExecStep

(* default-executor.ts runs a script as ScriptExecution specifies, however *)
(* its output is cut into chunks and whatever races: every marker is       *)
(* learned once, the result comes once, and when it says that the script   *)
(* ended by itself the runner knows all markers there will ever be.        *)
THEOREM ExecutorRunsScript == ExecSpec => ExecutesScript
<1>1. ExecInit => ExecInv
  BY ExecInvInit
<1>2. ExecInit => Script!ScriptInit
  <2>1. \A line \in MarkerLines : ~(Whole(line) <= 0)
    BY LinesAssumption DEF Whole
  <2> QED
    BY <2>1 DEF ExecInit, Script!ScriptInit
<1> QED
  BY <1>1, <1>2, ExecInvStep, ScriptStep, PTL DEF ExecSpec, ExecutesScript, Script!ScriptSpec
=============================================================================
