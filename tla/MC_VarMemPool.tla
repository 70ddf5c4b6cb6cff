---------------------------- MODULE MC_VarMemPool ----------------------------
(* poolConfig as VarMemPool.h has it, and the sizes around its limits.     *)
EXTENDS VarMemPool

MCUnitSize == [i \in 0 .. 6 |-> 2 ^ (i + 4)]
MCSizes == {0, 1, 1025, 2048} \cup UNION {{s - 1, s, s + 1} : s \in {2 ^ k : k \in 4 .. 10}}
==============================================================================
