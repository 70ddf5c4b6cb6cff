------------------------------ MODULE Allocator ------------------------------
(***************************************************************************)
(* What a memory pool promises its callers, and nothing of how it keeps    *)
(* it: an address handed out is not handed out again before it is given    *)
(* back.  IMemPool.h names the three operations.                           *)
(***************************************************************************)
CONSTANT Addresses
VARIABLE inUse      \* the addresses that callers hold

TypeOK == inUse \subseteq Addresses

Init == inUse = {}

Alloc == \E p \in Addresses \ inUse : inUse' = inUse \cup {p}

Free == \E p \in inUse : inUse' = inUse \ {p}

FreeAll == inUse' = {}

Next == Alloc \/ Free \/ FreeAll

Spec == Init /\ [][Next]_inUse
==============================================================================
