----------------------------- MODULE MCScheduler -----------------------------
(* Scheduler on small instances.                                            *)
EXTENDS Scheduler, TLC

CONSTANTS n1, n2, s1, s2, s3

RunnerSymmetry == Permutations(Runner)
=============================================================================
