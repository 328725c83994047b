-------------------------- MODULE PowerShellExecutor --------------------------
(***************************************************************************)
(* One call of the default PowerShell executor on Windows                  *)
(* (src/adapters/powershell/default-executor.ts): the child process, its   *)
(* stderr cut into arbitrary chunks, the timer, the caller's abort signal, *)
(* the bounded taskkill, and the promise that settles once.                *)
(*                                                                         *)
(* A line of stderr is three pieces: a first part, the rest, and the       *)
(* newline; a chunk is any run of pieces.  Some lines are markers that     *)
(* carry the pid of the Access process the script started.                 *)
(***************************************************************************)
EXTENDS Integers, FiniteSets

CONSTANTS
    MaxLines,     \* bound on the lines the script writes
    MarkerLines   \* which of them are Access process markers

ASSUME LinesAssumption == MaxLines \in Nat /\ MarkerLines \subseteq 1..MaxLines

VARIABLES
    execAt,     \* idle, spawned, settled or returned
    child,      \* the PowerShell process
    written,    \* pieces the child has written
    received,   \* pieces delivered in data events
    consumed,   \* pieces no longer in the buffer pending
    captured,   \* markers handed to onAccessProcessCaptured
    capturing,  \* those whose task has not settled
    awaited,    \* the tasks allSettled waits for
    cause,      \* terminationCause
    killing,    \* killProcessTree
    execResult      \* how the execution was reported to end

execVars == <<execAt, child, written, received, consumed, captured, capturing,
              awaited, cause, killing, execResult>>

Whole(line) == 3 * line - 1  \* the last piece of a line before its newline

ExecInit ==
    /\ execAt = "idle" /\ child = "none"
    /\ written = 0 /\ received = 0 /\ consumed = 0
    /\ captured = {} /\ capturing = {} /\ awaited = {}
    /\ cause = "none" /\ killing = "no" /\ execResult = "none"

\* Markers among the lines that start in the buffer and end by piece n.
MarkersUpTo(n) ==
    {line \in MarkerLines : consumed < Whole(line) - 1 /\ Whole(line) <= n}

\* processLine on each of them.
Process(lines) ==
    /\ captured' = captured \cup lines
    /\ capturing' = capturing \cup lines

\* An aborted signal or a missing executable ends the call before the spawn.
Spawn ==
    /\ execAt = "idle"
    /\ \/ execAt' = "spawned" /\ child' = "running" /\ UNCHANGED <<cause, execResult>>
       \/ execAt' = "settled" /\ cause' = "abort" /\ execResult' = "aborted"
          /\ UNCHANGED child
       \/ execAt' = "settled" /\ execResult' = "spawnError" /\ UNCHANGED <<child, cause>>
    /\ UNCHANGED <<written, received, consumed, captured, capturing, awaited, killing>>

(***************************************************************************)
(* The child.                                                              *)
(***************************************************************************)
ChildWrites ==
    /\ child = "running" /\ written < 3 * MaxLines
    /\ written' = written + 1
    /\ UNCHANGED <<execAt, child, received, consumed, captured, capturing,
                   awaited, cause, killing, execResult>>

ChildEnds ==
    /\ child = "running"
    /\ child' = "ended"
    /\ UNCHANGED <<execAt, written, received, consumed, captured, capturing,
                   awaited, cause, killing, execResult>>

\* Mutant of Receive: each chunk is split into lines by itself.
ReceiveUnbuffered(n) ==
    /\ execAt # "idle" /\ n \in received + 1..written
    /\ received' = n
    /\ consumed' = n
    /\ Process({line \in MarkersUpTo(n) : received < Whole(line) - 1})
    /\ UNCHANGED <<execAt, child, written, awaited, cause, killing, execResult>>
\* onStderr: whole lines leave the buffer, a last partial line stays.
Receive(n) ==
    /\ execAt # "idle" /\ n \in received + 1..written
    /\ received' = n
    /\ LET newline == 3 * (n \div 3) IN
          /\ consumed' = IF newline > consumed THEN newline ELSE consumed
          /\ Process(MarkersUpTo(newline))
    /\ UNCHANGED <<execAt, child, written, awaited, cause, killing, execResult>>

(***************************************************************************)
(* The promise.  Settling flushes the buffer in the same turn of the event *)
(* loop and takes the list of capture tasks to wait for.                   *)
(***************************************************************************)
\* Mutant of Settle: the list of tasks is taken before the buffer is flushed.
SettleAwaitsEarlier(outcome) ==
    /\ execAt = "spawned"
    /\ execAt' = "settled"
    /\ execResult' = outcome
    /\ consumed' = received
    /\ Process(MarkersUpTo(received))
    /\ awaited' = capturing

Settle(outcome) ==
    /\ execAt = "spawned"
    /\ execAt' = "settled"
    /\ execResult' = outcome
    /\ consumed' = received
    /\ Process(MarkersUpTo(received))
    /\ awaited' = capturing'

Ended == CASE cause = "timeout" -> "timedOut"
           [] cause = "abort" -> "aborted"
           [] OTHER -> "exit"

\* "close" comes once the process is over and its pipes are drained.
Close ==
    /\ child \in {"ended", "killed"} /\ received = written
    /\ Settle(Ended)
    /\ UNCHANGED <<child, written, received, cause, killing>>

\* "error": the spawn failed; under a termination it is left to the kill.
SpawnError ==
    /\ child = "running" /\ written = 0
    /\ child' = "ended"
    /\ \/ cause = "none" /\ Settle("spawnError")
       \/ cause # "none"
          /\ UNCHANGED <<execAt, execResult, consumed, captured, capturing, awaited>>
    /\ UNCHANGED <<written, received, cause, killing>>

Terminate(why) ==
    /\ execAt = "spawned" /\ cause = "none"
    /\ cause' = why /\ killing' = "running"
    /\ UNCHANGED <<execAt, child, written, received, consumed, captured,
                   capturing, awaited, execResult>>

KillTakesEffect ==
    /\ killing = "running" /\ child = "running"
    /\ child' = "killed"
    /\ UNCHANGED <<execAt, written, received, consumed, captured, capturing,
                   awaited, cause, killing, execResult>>

\* Mutant of KillReturns: there is no guard timer beside taskkill's close.
KillReturnsUnguarded ==
    /\ killing = "running" /\ child # "running"
    /\ killing' = "over"
    /\ UNCHANGED <<execAt, child, written, received, consumed, captured,
                   capturing, awaited, cause, execResult>>
\* taskkill closed, could not be started, or was given up after its bound.
KillReturns ==
    /\ killing = "running"
    /\ killing' = "over"
    /\ UNCHANGED <<execAt, child, written, received, consumed, captured,
                   capturing, awaited, cause, execResult>>

FinishAfterKill ==
    /\ killing = "over"
    /\ Settle(Ended)
    /\ UNCHANGED <<child, written, received, cause, killing>>

\* onAccessProcessCaptured settles, one way or the other.
CaptureSettles(line) ==
    /\ line \in capturing
    /\ capturing' = capturing \ {line}
    /\ UNCHANGED <<execAt, child, written, received, consumed, captured,
                   awaited, cause, killing, execResult>>

Return ==
    /\ execAt = "settled" /\ awaited \cap capturing = {}
    /\ execAt' = "returned"
    /\ UNCHANGED <<child, written, received, consumed, captured, capturing,
                   awaited, cause, killing, execResult>>

ExecStep ==
    \/ Spawn \/ Close \/ SpawnError \/ KillReturns \/ FinishAfterKill \/ Return
    \/ Terminate("timeout")
    \/ \E line \in MarkerLines : CaptureSettles(line)

ExecNext ==
    \/ ExecStep
    \/ ChildWrites \/ ChildEnds \/ KillTakesEffect \/ Terminate("abort")
    \/ \E n \in 1..3 * MaxLines : Receive(n)

\* The timer, taskkill's guard and the capture updates all come to an end; the
\* child need not, and neither need its output.
ExecSpec == ExecInit /\ [][ExecNext]_execVars /\ WF_execVars(ExecStep)

-----------------------------------------------------------------------------
(* Correctness.                                                            *)

\* The values the variables take.
ExecTypeOK ==
    /\ execAt \in {"idle", "spawned", "settled", "returned"}
    /\ child \in {"none", "running", "ended", "killed"}
    /\ written \in 0..3 * MaxLines
    /\ received \in 0..written /\ consumed \in 0..received
    /\ captured \subseteq MarkerLines
    /\ capturing \subseteq captured /\ awaited \subseteq captured
    /\ cause \in {"none", "timeout", "abort"}
    /\ killing \in {"no", "running", "over"}
    /\ execResult \in {"none", "exit", "timedOut", "aborted", "spawnError"}

\* The result keeps telling how the child ended, however its end, the timer, the
\* abort and the kill race: a call reported to have ended by itself was never
\* being killed, and the first cause wins.
ResultTellsCause ==
    /\ execResult \in {"exit", "spawnError"} => cause = "none"
    /\ execResult = "timedOut" => cause = "timeout"
    /\ execResult = "aborted" => cause = "abort"

\* When the call returns, every marker that had arrived has been captured and
\* its registry update is over; after an end by itself these are all the markers
\* the script wrote, wherever the chunks were cut and even if the last one has
\* no newline.
CapturesKnownAtReturn ==
    execAt = "returned" =>
        /\ awaited \cap capturing = {}
        /\ execResult = "exit" =>
              {line \in MarkerLines : Whole(line) <= written} \subseteq captured

\* What a caller may conclude from the returned result: how the run ended, and
\* which of the script's markers have been handled.
ExecutorSafe == ExecTypeOK /\ ResultTellsCause /\ CapturesKnownAtReturn

Script == INSTANCE ScriptExecution WITH
    Lines <- MarkerLines,
    wrote <- {line \in MarkerLines : Whole(line) <= written},
    known <- captured \ capturing,
    result <- IF execAt = "returned" THEN execResult ELSE "none"

\* Chunks, buffer, timer, kill and capture tasks together are one execution as
\* the runner sees it: each marker is learned once and none is made up, the
\* result comes once, and with an end by itself come all the markers.
ExecutesScript == Script!ScriptSpec

\* Every call returns, even if neither the script nor taskkill ever ends.
EveryExecutionReturns == <>[](execAt \in {"idle", "returned"})
=============================================================================
