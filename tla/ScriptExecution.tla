---------------------------- MODULE ScriptExecution ----------------------------
(***************************************************************************)
(* What one execution of a script promises to the runner that waits for    *)
(* it.  The script writes markers, the runner learns of them one by one,   *)
(* and at some moment it is told how the execution ended.  If it is told   *)
(* that the script ended by itself it knows every marker there will ever   *)
(* be; after a timeout or an abort the script may live on, and markers may *)
(* still come (the step LateCapture of AccessRunner).                      *)
(***************************************************************************)
CONSTANT Lines   \* the markers a script may write

VARIABLES
    wrote,    \* markers the script has written
    known,    \* those whose registry update is over
    result    \* how the execution was reported to end, or "none"

scriptVars == <<wrote, known, result>>

EndedByItself == {"exit", "spawnError"}

ScriptInit == wrote = {} /\ known = {} /\ result = "none"

\* A script that is reported to have ended writes no more.
Write(line) ==
    /\ line \in Lines \ wrote /\ result \notin EndedByItself
    /\ wrote' = wrote \cup {line}
    /\ UNCHANGED <<known, result>>

\* A marker is learned once, and only if it was written.
Learn(line) ==
    /\ line \in wrote \ known /\ result \notin EndedByItself
    /\ known' = known \cup {line}
    /\ UNCHANGED <<wrote, result>>

\* The result comes once.
Finish(r) ==
    /\ result = "none"
    /\ r \in EndedByItself => known = wrote
    /\ result' = r
    /\ UNCHANGED <<wrote, known>>

ScriptNext ==
    \/ \E line \in Lines : Write(line) \/ Learn(line)
    \/ \E r \in EndedByItself \cup {"timedOut", "aborted"} : Finish(r)

ScriptSpec == ScriptInit /\ [][ScriptNext]_scriptVars
=============================================================================
