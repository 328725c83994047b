----------------------------- MODULE DatabaseLock -----------------------------
(***************************************************************************)
(* What the lock on a database promises to those who write it: one writer  *)
(* at a time.  A writer that dies, or fails to remove its lock, leaves it  *)
(* behind; only such a lock is ever taken away, and the lock is not free   *)
(* before that.                                                            *)
(*                                                                         *)
(* CrossProcessLock makes this lock out of directories, ExecutionQueue     *)
(* uses it for its writing callers.  Both are shown to implement this      *)
(* module, so the lock that the queue takes at its word is the one that    *)
(* exists.                                                                 *)
(***************************************************************************)
CONSTANT Clients   \* those who may take the lock

VARIABLES
    holders,    \* those who work under it, from its acquisition to its release
    abandoned   \* the lock was left behind by its holder

lockVars == <<holders, abandoned>>

DbInit == holders = {} /\ abandoned = FALSE

\* Only a free lock is taken.
Take(c) ==
    /\ holders = {} /\ ~abandoned
    /\ holders' = {c}
    /\ UNCHANGED abandoned

Give(c) ==
    /\ holders = {c}
    /\ holders' = {}
    /\ UNCHANGED abandoned

\* The holder is gone, its lock is not.
Abandon(c) ==
    /\ holders = {c}
    /\ holders' = {} /\ abandoned' = TRUE

\* Only an abandoned lock is taken away.
TakeAway ==
    /\ abandoned
    /\ abandoned' = FALSE
    /\ UNCHANGED holders

DbNext ==
    \/ \E c \in Clients : Take(c) \/ Give(c) \/ Abandon(c)
    \/ TakeAway

DbSpec == DbInit /\ [][DbNext]_lockVars
=============================================================================
