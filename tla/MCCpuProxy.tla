----------------------------- MODULE MCCpuProxy -----------------------------
(* CpuProxy with the model values TLC needs for its configurations.          *)
EXTENDS CpuProxy, TLC

CONSTANTS t1, t2, q1, q2, q3

Symmetry == Permutations(Threads)
=============================================================================
