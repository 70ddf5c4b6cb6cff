----------------------------- MODULE MC_SafeQueue -----------------------------
(* SafeQueue for TLC. *)
EXTENDS SafeQueue

CONSTANTS p1, p2, c1, c2, n1, n2, n3
==============================================================================
