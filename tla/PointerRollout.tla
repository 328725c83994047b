---------------------------- MODULE PointerRollout ----------------------------
(***************************************************************************)
(* installBundledPointerBlocks                                             *)
(* (cli/commands/install/pointer-rollout.ts): an install or update puts    *)
(* Dysflow's pointer block into the instruction files that the user keeps  *)
(* for each agent.  Every file is read, backed up, rewritten and read back; *)
(* when one of them fails, all are written back.  Nothing is locked: the   *)
(* user edits the files and a second update may run at the same time.      *)
(*                                                                         *)
(* Of a file only the edition of the user's text and the state of the      *)
(* block between the markers are kept; 0 is no text at all.                *)
(***************************************************************************)
EXTENDS Naturals, Sequences

CONSTANTS
    Rollouts,          \* processes that run an install or update
    Targets,           \* the instruction files, in the order they are visited
    CursorRules,       \* the file that is all Dysflow's but for its frontmatter
    InitialFiles,      \* what the files may hold at first
    NoFile,            \* the file does not exist
    MaxEdits,          \* bound on the user's edits
    MaxRolloutFaults   \* bound on failed file system calls

ASSUME RolloutAssumption == MaxEdits \in Nat /\ MaxRolloutFaults \in Nat

VARIABLES
    instructions,   \* the files
    edition,        \* the text the user saved last in each file
    edits,          \* edits so far
    backups,        \* the editions kept in the backup directories of a file
    rollout,        \* the local state of each rollout
    rolloutFaults,  \* file system calls that have failed, of those allowed to
    disturbed,      \* rollouts beside an edit or another rollout, or that misjudged a file
    overwritten     \* files whose last edition was saved under a running rollout, or
                    \* that a rollout took for missing

rolloutVars == <<instructions, edition, edits, backups, rollout, rolloutFaults,
                 disturbed, overwritten>>

TargetFiles == {Targets[i] : i \in DOMAIN Targets}
Blocks == {"none", "old", "new", "malformed"}
Content == [text : 0..(MaxEdits + 1), block : Blocks]
EmptyFile == [text |-> 0, block |-> "none"]

\* Each agent has a file of its own; without a target there is nothing to do.
ASSUME TargetsAssumption ==
    /\ Targets \in Seq(TargetFiles) /\ Targets # <<>>
    /\ \A i, j \in DOMAIN Targets : Targets[i] = Targets[j] => i = j
    /\ NoFile \notin Content /\ InitialFiles \subseteq [TargetFiles -> Content \cup {NoFile}]

Running == {r \in Rollouts : rollout[r].at \notin {"idle", "ok", "failed", "dead"}}

RolloutFault == rolloutFaults < MaxRolloutFaults /\ rolloutFaults' = rolloutFaults + 1

NoRollout == [at |-> "idle", next |-> 1, current |-> NoFile, mutations |-> <<>>,
              failures |-> FALSE, rollbackFailures |-> FALSE, before |-> <<>>]

File(r) == Targets[rollout[r].next]

\* Local state of r after a target: the next one, or the end of the loop.
Following(l) ==
    LET next == [l EXCEPT !.next = @ + 1, !.at = "target", !.current = NoFile]
    IN  IF next.next <= Len(Targets) THEN next
        ELSE [next EXCEPT !.next = 1, !.at = IF l.failures THEN "rollback" ELSE "ok"]
\* A rollout that is over keeps no local variables.
Sets(r, l) ==
    rollout' = [rollout EXCEPT ![r] = IF l.at \in {"ok", "failed", "dead"}
                                      THEN [NoRollout EXCEPT !.at = l.at] ELSE l]
NextTarget(r) == Sets(r, Following(rollout[r]))
TargetFails(r) == Sets(r, Following([rollout[r] EXCEPT !.failures = TRUE]))

-----------------------------------------------------------------------------
Begin(r) ==
    /\ rollout[r].at = "idle"
    /\ Sets(r, [NoRollout EXCEPT !.at = "target", !.before = instructions])
    /\ disturbed' = IF Running = {} THEN disturbed ELSE disturbed \cup Running \cup {r}
    /\ UNCHANGED <<instructions, edition, edits, backups, rolloutFaults, overwritten>>

\* The block to put in place of what was read: the cursor file is replaced whole.
NextContent(f, c) ==
    [text |-> IF c = NoFile \/ f = CursorRules THEN 0 ELSE c.text, block |-> "new"]

\* The file is read and judged: nothing to do, not understood, or to be written.
\* A link on its way or a failing read is a failure, but a file that cannot be
\* examined counts as missing.
ReadTarget(r) ==
    LET f == File(r)
        c == instructions[f]
    IN
    /\ rollout[r].at = "target"
    /\ \/ /\ IF c = NoFile THEN Sets(r, [rollout[r] EXCEPT !.at = "write"])
             ELSE IF c.block = "malformed" \/ (f = CursorRules /\ c = EmptyFile) THEN TargetFails(r)
             ELSE IF c = NextContent(f, c) THEN NextTarget(r)
             ELSE Sets(r, [rollout[r] EXCEPT !.at = "backup", !.current = c])
          /\ UNCHANGED <<rolloutFaults, disturbed, overwritten>>
       \/ RolloutFault /\ TargetFails(r) /\ UNCHANGED <<disturbed, overwritten>>
       \/ /\ RolloutFault /\ c # NoFile
          /\ Sets(r, [rollout[r] EXCEPT !.at = "write"])
          /\ disturbed' = disturbed \cup {r} /\ overwritten' = overwritten \cup {f}
    /\ UNCHANGED <<instructions, edition, edits, backups>>

\* Mutant of BackUp: no copy is made.
BackUpNothing(r) ==
    /\ rollout[r].at = "backup"
    /\ Sets(r, [rollout[r] EXCEPT !.at = "write"])
    /\ UNCHANGED <<instructions, edition, edits, backups, rolloutFaults, disturbed, overwritten>>

BackUp(r) ==
    /\ rollout[r].at = "backup"
    /\ \/ /\ backups' = [backups EXCEPT ![File(r)] = @ \cup {rollout[r].current.text}]
          /\ Sets(r, [rollout[r] EXCEPT !.at = "write"])
          /\ UNCHANGED rolloutFaults
       \/ RolloutFault /\ TargetFails(r) /\ UNCHANGED backups
    /\ UNCHANGED <<instructions, edition, edits, disturbed, overwritten>>

\* Mutant of Truncate: a file is remembered only once it is written.
TruncateUnrecorded(r) ==
    /\ rollout[r].at = "write"
    /\ instructions' = [instructions EXCEPT ![File(r)] = EmptyFile]
    /\ Sets(r, [rollout[r] EXCEPT !.at = "fill"])
    /\ UNCHANGED <<edition, edits, backups, rolloutFaults, disturbed, overwritten>>

\* The mutation is remembered, then writeFile opens the file, which empties it.
Truncate(r) ==
    LET l == [rollout[r] EXCEPT !.mutations = Append(@, <<File(r), rollout[r].current>>)]
    IN
    /\ rollout[r].at = "write"
    /\ \/ /\ instructions' = [instructions EXCEPT ![File(r)] = EmptyFile]
          /\ Sets(r, [l EXCEPT !.at = "fill"])
          /\ UNCHANGED rolloutFaults
       \/ /\ RolloutFault /\ UNCHANGED instructions
          /\ Sets(r, Following([l EXCEPT !.failures = TRUE]))
    /\ UNCHANGED <<edition, edits, backups, disturbed, overwritten>>

Fill(r) ==
    /\ rollout[r].at = "fill"
    /\ \/ /\ instructions' = [instructions EXCEPT ![File(r)] =
                                NextContent(File(r), rollout[r].current)]
          /\ Sets(r, [rollout[r] EXCEPT !.at = "verify"])
          /\ UNCHANGED rolloutFaults
       \/ RolloutFault /\ TargetFails(r) /\ UNCHANGED instructions
    /\ UNCHANGED <<edition, edits, backups, disturbed, overwritten>>

\* The read-back must show the block.
Verify(r) ==
    LET c == instructions[File(r)] IN
    /\ rollout[r].at = "verify"
    /\ \/ /\ IF c # NoFile /\ c.block = "new" /\ (File(r) = CursorRules => c.text = 0)
             THEN NextTarget(r) ELSE TargetFails(r)
          /\ UNCHANGED rolloutFaults
       \/ RolloutFault /\ TargetFails(r)
    /\ UNCHANGED <<instructions, edition, edits, backups, disturbed, overwritten>>

\* The mutation to undo first, and the local state once it is undone.
LastMutation(l) == l.mutations[Len(l.mutations)]
Undone(l) == [l EXCEPT !.at = "rollback", !.mutations = SubSeq(@, 1, Len(@) - 1)]
NotUndone(l) == [Undone(l) EXCEPT !.rollbackFailures = TRUE]

\* The mutations are undone from the last to the first: a file that was not there
\* is removed, another one is opened, which empties it, and then written.
Rollback(r) ==
    LET l == rollout[r]
        last == LastMutation(l)
    IN
    /\ l.at = "rollback"
    /\ \/ /\ l.mutations = <<>>
          /\ Sets(r, [l EXCEPT !.at = "failed"]) /\ UNCHANGED <<instructions, rolloutFaults>>
       \/ /\ l.mutations # <<>> /\ last[2] = NoFile
          /\ instructions' = [instructions EXCEPT ![last[1]] = NoFile]
          /\ Sets(r, Undone(l)) /\ UNCHANGED rolloutFaults
       \/ /\ l.mutations # <<>> /\ last[2] # NoFile
          /\ instructions' = [instructions EXCEPT ![last[1]] = EmptyFile]
          /\ Sets(r, [l EXCEPT !.at = "restore"]) /\ UNCHANGED rolloutFaults
       \/ l.mutations # <<>> /\ RolloutFault /\ Sets(r, NotUndone(l)) /\ UNCHANGED instructions
    /\ UNCHANGED <<edition, edits, backups, disturbed, overwritten>>

WriteBack(r) ==
    LET l == rollout[r]
        last == LastMutation(l)
    IN
    /\ l.at = "restore" /\ l.mutations # <<>>
    /\ \/ /\ instructions' = [instructions EXCEPT ![last[1]] = last[2]]
          /\ Sets(r, Undone(l)) /\ UNCHANGED rolloutFaults
       \/ RolloutFault /\ Sets(r, NotUndone(l)) /\ UNCHANGED instructions
    /\ UNCHANGED <<edition, edits, backups, disturbed, overwritten>>

\* The process dies, perhaps between the emptying and the filling of a file.
RolloutKilled(r) ==
    /\ r \in Running
    /\ Sets(r, [NoRollout EXCEPT !.at = "dead"])
    /\ UNCHANGED <<instructions, edition, edits, backups, rolloutFaults, disturbed, overwritten>>

\* A running rollout has read f and may still write it.
MayWrite(r, f) ==
    /\ r \in Running
    /\ \/ rollout[r].at \in {"backup", "write", "fill"} /\ File(r) = f
       \/ \E i \in DOMAIN rollout[r].mutations : rollout[r].mutations[i][1] = f

\* The user saves a new edition of a file.
UserEdits(f) ==
    LET c == instructions[f] IN
    /\ edits < MaxEdits /\ c # NoFile
    /\ edits' = edits + 1
    /\ edition' = [edition EXCEPT ![f] = edits + 2]
    /\ instructions' = [instructions EXCEPT ![f].text = edits + 2]
    /\ disturbed' = disturbed \cup Running
    /\ overwritten' = IF \E r \in Rollouts : MayWrite(r, f) THEN overwritten \cup {f}
                                                           ELSE overwritten \ {f}
    /\ UNCHANGED <<backups, rollout, rolloutFaults>>

-----------------------------------------------------------------------------
RolloutInit ==
    /\ instructions \in InitialFiles
    /\ edition = [f \in TargetFiles |->
                    IF instructions[f] = NoFile THEN 0 ELSE instructions[f].text]
    /\ edits = 0 /\ backups = [f \in TargetFiles |-> {}]
    /\ rollout = [r \in Rollouts |-> NoRollout]
    /\ rolloutFaults \in 0..MaxRolloutFaults /\ disturbed = {} /\ overwritten = {}

RolloutStep(r) ==
    \/ ReadTarget(r) \/ BackUp(r) \/ Truncate(r) \/ Fill(r) \/ Verify(r)
    \/ Rollback(r) \/ WriteBack(r)

RolloutsNext(rs) == \E r \in rs : Begin(r) \/ RolloutStep(r) \/ RolloutKilled(r)
UserNext == \E f \in TargetFiles : UserEdits(f)
RolloutNext == RolloutsNext(Rollouts) \/ UserNext

RolloutSpec ==
    /\ RolloutInit /\ [][RolloutNext]_rolloutVars
    /\ \A r \in Rollouts : WF_rolloutVars(RolloutStep(r))

-----------------------------------------------------------------------------
\* The values the variables take.
RolloutTypeOK ==
    /\ instructions \in [TargetFiles -> Content \cup {NoFile}]
    /\ edition \in [TargetFiles -> 0..(MaxEdits + 1)] /\ edits \in 0..MaxEdits
    /\ backups \in [TargetFiles -> SUBSET (0..(MaxEdits + 1))]
    /\ \A r \in Rollouts :
         /\ rollout[r].at \in {"idle", "target", "backup", "write", "fill", "verify",
                               "rollback", "restore", "ok", "failed", "dead"}
         /\ rollout[r].next \in DOMAIN Targets
         /\ Len(rollout[r].mutations) <= Len(Targets)
    /\ rolloutFaults \in 0..MaxRolloutFaults
    /\ disturbed \subseteq Rollouts /\ overwritten \subseteq TargetFiles

\* What the user wrote is in the file or in a backup, whatever fails, whoever
\* dies, and although two rollouts may read each other's half-written files;
\* only an edition saved after a running rollout has read the file, or a file that
\* could not be examined, can be lost.
UserTextKept ==
    \A f \in TargetFiles \ overwritten :
        \/ edition[f] = 0 \/ edition[f] \in backups[f]
        \/ instructions[f] # NoFile /\ instructions[f].text = edition[f]

\* The files stay instruction files, and the user's text is not lost.
RolloutSafe == RolloutTypeOK /\ UserTextKept

\* "Pointer rollout failed; applied pointer files were rolled back": a rollout
\* that fails alone leaves every file as it found it, unless it reports rollback
\* failures.
FailedRolloutUndone ==
    [][\A r \in Rollouts \ disturbed :
          rollout[r].at = "rollback" /\ rollout'[r].at = "failed" /\ ~rollout[r].rollbackFailures
            => instructions' = rollout[r].before]_rolloutVars

\* A rollout that succeeds alone has put the new block into every file and has
\* kept the user's text in place, but for the cursor file, which is Dysflow's.
OkIsInstalled ==
    [][\A r \in Rollouts \ disturbed :
          rollout[r].at # "ok" /\ rollout'[r].at = "ok"
            => \A f \in TargetFiles :
                 instructions'[f] = NextContent(f, rollout[r].before[f])]_rolloutVars

\* The outcome of an undisturbed rollout tells the files: all or nothing.
RolloutHonest == FailedRolloutUndone /\ OkIsInstalled

\* Every rollout comes to an end.
EveryRolloutEnds == <>[](Running = {})
=============================================================================
