------------------------- MODULE MCCrossProcessLock -------------------------
(* Small instances of CrossProcessLock for TLC. *)
EXTENDS CrossProcessLock, TLC

\* Processes are interchangeable in the safety runs.
Symmetry == Permutations(Procs)

\* Acquisitions of each process: one, two, or two of one process only.
MCOnce == [p \in Procs |-> 1]
MCTwice == [p \in Procs |-> 2]
MCOneTwice == [MCOnce EXCEPT ![CHOOSE p \in Procs : TRUE] = 2]
=============================================================================
