----------------------------- MODULE MCSendQueue -----------------------------
(* SendQueueInv with the definitions TLC needs for its configurations.        *)
EXTENDS SendQueueInv, TLC

CONSTANTS t1, t2

Symmetry == Permutations(Threads)
=============================================================================
