-------------------------- MODULE MCStartupSuppression --------------------------
(* Sessions for TLC: two runs of the runner script, two of the VBA manager *)
(* and a diagnostics.                                                      *)
EXTENDS StartupSuppression, TLC

CONSTANTS r1, r2, m1, m2, d1

RunnerSymmetry == Permutations({r1, r2})
=============================================================================
