-------------------------------- MODULE MCParts --------------------------------
(***************************************************************************)
(* Small instances of the components that share no state with each other.  *)
(* The initial state picks one of them, and only its actions are taken:    *)
(* the run checks each component on its own, under its own fairness.       *)
(***************************************************************************)
EXTENDS ExecutionQueue, PowerShellExecutor, WriteGate, TransactionalWrite,
        VbaImport, RelinkDirectory, TrackedAccess, PointerRollout, RuntimeUpdate, TLC

VARIABLE part  \* the component this behaviour is about

parts == <<part, queueVars, execVars, gateVars, txVars, importVars, relinkVars,
           trackedVars, rolloutVars, updateVars>>

-----------------------------------------------------------------------------
(* The instances.                                                          *)

CONSTANTS c1, c2, c3, c4, c5, p1, p2

\* Two writers and a reader in one process, a writer and a reader in another.
MCProcOf == c1 :> p1 @@ c2 :> p1 @@ c3 :> p1 @@ c4 :> p2 @@ c5 :> p2

CONSTANTS o1, o2, g1, g2, x1, x2, d1

CONSTANTS code, fresh, form, freshForm

\* Existing and new code, existing and new forms, two at a time.
MCBatches == {{}, {code, freshForm}, {fresh, form}, {code, form}}

CONSTANTS t1, t2, t3, t4

CONSTANTS k1, k2

CONSTANTS u1, u2

CONSTANTS r1, r2, claude, cursor

MCTargets == <<claude, cursor>>

\* Files that are missing, hold the user's text with or without an older block,
\* or are not understood.
MCInitialFiles ==
    {claude :> a @@ cursor :> b :
        a \in {NoFile, [text |-> 1, block |-> "old"]},
        b \in {NoFile} \cup [text : {1}, block : {"none", "malformed"}]}

MCFileOf == t1 :> "a.accdb" @@ t2 :> "b.accdb" @@ t3 :> "c.accdb" @@ t4 :> "d.accdb"

\* A link to be mapped, two tables on its way, and a table that may be its end.
MCDirectories ==
    LET Plain(kinds) == [kind : kinds, to : {NotScanned}]
        Link(kinds, tables) == [kind : kinds, to : tables]
    IN  {t1 :> a @@ t2 :> b @@ t3 :> c @@ t4 :> d :
            a \in Link({"mapped"}, {t2, t3}),
            b \in Entries,
            c \in Plain({"absent", "local", "unresolved"})
                  \cup Link({"mapped"}, {t1, t2, t4}) \cup Link({"inside"}, {t4, NotScanned}),
            d \in Plain({"absent", "local"}) \cup Link({"mapped"}, {t1})}

-----------------------------------------------------------------------------
TrackedParts == {"tracked cleanup", "tracked orphan", "cleanups"}
RolloutParts == {"rollout", "two rollouts"}

\* The variables of the components that are not picked have one initial value.
PartsInit ==
    /\ part \in {"queue", "executor", "gates", "operations", "transaction", "import",
                 "relink", "update"} \cup TrackedParts \cup RolloutParts
    /\ QueueInit /\ ExecInit /\ GateInit /\ TxInit /\ ImportInit /\ RelinkInit
    /\ TrackedInit /\ (part \notin TrackedParts => occupant = "gone")
    /\ RolloutInit /\ (part \notin RolloutParts => \A f \in TargetFiles : instructions[f] = NoFile)
    /\ UpdateInit /\ (part # "update" => state = NoState)
    /\ trackedFaults = IF part = "tracked orphan" THEN MaxTrackedFaults - 1 ELSE 0
    /\ rolloutFaults = IF part = "two rollouts" THEN MaxRolloutFaults ELSE 0

Queue(A) ==
    /\ part = "queue" /\ A
    /\ UNCHANGED <<part, execVars, gateVars, txVars, importVars, relinkVars, trackedVars, rolloutVars, updateVars>>
Executor(A) ==
    /\ part = "executor" /\ A
    /\ UNCHANGED <<part, queueVars, gateVars, txVars, importVars, relinkVars, trackedVars, rolloutVars, updateVars>>
\* Two gates and one operation, or two operations and one gate.
Gate(A) ==
    /\ part \in {"gates", "operations"} /\ A
    /\ UNCHANGED <<part, queueVars, execVars, txVars, importVars, relinkVars, trackedVars, rolloutVars, updateVars>>
Transaction(A) ==
    /\ part = "transaction" /\ A
    /\ UNCHANGED <<part, queueVars, execVars, gateVars, importVars, relinkVars, trackedVars, rolloutVars, updateVars>>
Import(A) ==
    /\ part = "import" /\ A
    /\ UNCHANGED <<part, queueVars, execVars, gateVars, txVars, relinkVars, trackedVars, rolloutVars, updateVars>>
Relink(A) ==
    /\ part = "relink" /\ A
    /\ UNCHANGED <<part, queueVars, execVars, gateVars, txVars, importVars, trackedVars, rolloutVars, updateVars>>
\* A run beside either cleanup tool, or the two tools without a run.
Tracked(A) ==
    /\ part \in TrackedParts /\ A
    /\ UNCHANGED <<part, queueVars, execVars, gateVars, txVars, importVars, relinkVars, rolloutVars, updateVars>>
\* A rollout beside a user who edits and with failing calls, or two rollouts.
Rollout(A) ==
    /\ part \in RolloutParts /\ A
    /\ UNCHANGED <<part, queueVars, execVars, gateVars, txVars, importVars, relinkVars, trackedVars, updateVars>>
\* One channel publishes; the second update starts after the first, at any time.
Update(A) ==
    /\ part = "update" /\ A
    /\ UNCHANGED <<part, queueVars, execVars, gateVars, txVars, importVars, relinkVars, trackedVars, rolloutVars>>

PartsNext ==
    \/ Queue(QueueNext) \/ Executor(ExecNext)
    \/ Gate(part = "gates" /\ GateNextOf({o1}, Gates))
    \/ Gate(part = "operations" /\ GateNextOf(Operations, {g1}))
    \/ Transaction(TxNext) \/ Import(ImportNext) \/ Relink(RelinkNext)
    \/ Tracked(part # "cleanups" /\ TrackedRunNext)
    \/ Tracked(part # "tracked orphan" /\ CallsNext({k1}))
    \/ Tracked(part # "tracked cleanup" /\ CallsNext({k2}))
    \/ Rollout(RolloutsNext({r1}))
    \/ Rollout(part = "rollout" /\ UserNext)
    \/ Rollout(part = "two rollouts" /\ RolloutsNext({r2}))
    \/ Update(Publish("stable")) \/ Update(UpdateNextOf({u1}))
    \/ Update(updater[u1].at # "idle" /\ UpdateNextOf({u2}))

\* The fairness of each component's own specification, of the part that is picked.
PartsFairness ==
    /\ \A c \in Callers : WF_queueVars(part = "queue" /\ QueueStep(c))
    /\ WF_execVars(part = "executor" /\ ExecStep)
    /\ WF_gateVars(part \in {"gates", "operations"} /\ GateStep(g1))
    /\ WF_gateVars(part = "gates" /\ GateStep(g2))
    /\ \A o \in Operations : WF_gateVars(part \in {"gates", "operations"} /\ RecordAges(o))
    /\ WF_gateVars(part \in {"gates", "operations"} /\ \E o \in Operations : EndMutation(o))
    /\ \A t \in Transactions : WF_txVars(part = "transaction" /\ TxStep(t))
    /\ WF_importVars(part = "import" /\ ImportStep)
    /\ WF_trackedVars(part \in TrackedParts /\ RunStep)
    /\ WF_trackedVars(part \in TrackedParts /\ PollWrite)
    /\ \A c \in Cleanups \cup Orphans : WF_trackedVars(part \in TrackedParts /\ CallStep(c))
    /\ \A r \in Rollouts : WF_rolloutVars(part \in RolloutParts /\ RolloutStep(r))

PartsSpec == PartsInit /\ [][PartsNext]_parts /\ PartsFairness

-----------------------------------------------------------------------------
\* Whatever is called comes to an end, under the fairness of its part: a queued
\* call, a PowerShell execution, a transactional write, an import, a tracked run
\* and its cleanups, a rollout.
EveryPartEnds ==
    /\ EveryCallEnds /\ EveryExecutionReturns /\ EveryTransactionEnds
    /\ EveryImportEnds /\ EveryTrackedCallEnds /\ EveryRolloutEnds
=============================================================================
