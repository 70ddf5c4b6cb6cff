----------------------------- MODULE VarMemPool ------------------------------
(***************************************************************************)
(* CommonLib/VarMemPool.cpp: pools of growing unit size behind a search by *)
(* size.  The size decides the pool twice, when a unit is allocated and    *)
(* again when it is freed, each time by the same two comparisons with the  *)
(* ends of poolConfig and, between them, getPool's binary search.          *)
(*                                                                         *)
(* A pool is what MemoryPool is shown to be, an Allocator: the set of its  *)
(* units in use.  A step of the search is a step of the model.             *)
(***************************************************************************)
EXTENDS Integers, FiniteSets

CONSTANTS
    POOL_NUM,       \* number of pools
    unitSize,       \* poolConfig[i].unitSize, increasing
    Sizes,          \* what callers ask for
    PoolUnits,      \* addresses of a pool, or of malloc
    MaxHeld         \* bound on the units held at once

Pools == 0 .. POOL_NUM - 1
System == POOL_NUM              \* malloc, for what no pool has

ASSUME VarPoolAssumption ==
    /\ POOL_NUM \in Nat /\ POOL_NUM >= 2
    /\ unitSize \in [Pools -> Nat]
    /\ \A i, j \in Pools : i < j => unitSize[i] < unitSize[j]
    /\ Sizes \subseteq Nat
    /\ MaxHeld \in Nat

VARIABLES
    used,           \* the units in use of each pool and of malloc
    held,           \* ghost: what callers hold, and the size they asked for
    op,             \* "none", or the call whose search is under way
    arg,            \* what Free was given
    size,           \* unitSize, the argument of the search
    d, u            \* the ends of the search

varVars == <<used, held, op, arg, size, d, u>>

Holding == [pool : Pools \cup {System}, unit : PoolUnits, size : Sizes]

VarInit ==
    /\ used = [i \in Pools \cup {System} |-> {}]
    /\ held = {}
    /\ op = "none" /\ arg = {} /\ size = 0 /\ d = 0 /\ u = 0

------------------------------------------------------------------------------
(* What a pool does, and the return.                                       *)

EndCall == op' = "none" /\ arg' = {} /\ size' = 0 /\ d' = 0 /\ u' = 0

Take(i, n) ==
    /\ \E a \in PoolUnits \ used[i] :
          /\ used' = [used EXCEPT ![i] = @ \cup {a}]
          /\ held' = held \cup {[pool |-> i, unit |-> a, size |-> n]}
    /\ EndCall

GiveBack(i, h) ==
    /\ used' = [used EXCEPT ![i] = @ \ {h.unit}]
    /\ held' = held \ {h}
    /\ EndCall

------------------------------------------------------------------------------
(* getPool.                                                                *)

SearchBegin(call, given, n) ==
    /\ op' = call /\ arg' = given /\ size' = n
    /\ d' = 0 /\ u' = POOL_NUM - 1
    /\ UNCHANGED <<used, held>>

\* Mistake: a unit of exactly the size asked for does not do.
NarrowStrict ==
    LET m == d + (u - d) \div 2 IN
    /\ op # "none" /\ u - d > 1
    /\ IF unitSize[m] > size THEN u' = m /\ d' = d ELSE d' = m /\ u' = u
    /\ UNCHANGED <<used, held, op, arg, size>>

\* Mistake: a smaller factor, with which the lower end may not move.
NarrowSlow ==
    LET m == d + (u - d) \div 4 IN
    /\ op # "none" /\ u - d > 1
    /\ IF unitSize[m] >= size THEN u' = m /\ d' = d ELSE d' = m /\ u' = u
    /\ UNCHANGED <<used, held, op, arg, size>>

Narrow ==
    LET m == d + (u - d) \div 2 IN
    /\ op # "none" /\ u - d > 1
    /\ IF unitSize[m] >= size THEN u' = m /\ d' = d ELSE d' = m /\ u' = u
    /\ UNCHANGED <<used, held, op, arg, size>>

Searched == op # "none" /\ u - d <= 1

------------------------------------------------------------------------------
(* Alloc and Free.                                                         *)

Largest == unitSize[POOL_NUM - 1]
Smallest == unitSize[0]

MayAlloc == op = "none" /\ Cardinality(held) < MaxHeld

AllocSystem == MayAlloc /\ \E n \in Sizes : n > Largest /\ Take(System, n)

AllocFirst == MayAlloc /\ \E n \in Sizes : n <= Smallest /\ Take(0, n)

AllocSearch ==
    MayAlloc /\ \E n \in Sizes :
        n <= Largest /\ n > Smallest /\ SearchBegin("Alloc", {}, n)

AllocFound == Searched /\ op = "Alloc" /\ Take(u, size)

VarAlloc == AllocSystem \/ AllocFirst \/ AllocSearch \/ AllocFound

\* Mistake: Free and Alloc disagree about a unit of the largest size.
FreedBySystemLargest(n) == n >= Largest

FreedBySystem(n) == n > Largest
FreedByFirst(n) == n <= Smallest

FreeSystem == op = "none" /\ \E h \in held : FreedBySystem(h.size) /\ GiveBack(System, h)

FreeFirst ==
    op = "none" /\ \E h \in held :
        ~FreedBySystem(h.size) /\ FreedByFirst(h.size) /\ GiveBack(0, h)

FreeSearch ==
    op = "none" /\ \E h \in held :
        ~FreedBySystem(h.size) /\ ~FreedByFirst(h.size) /\ SearchBegin("Free", {h}, h.size)

FreeFound == Searched /\ op = "Free" /\ \E h \in arg : GiveBack(u, h)

VarFree == FreeSystem \/ FreeFirst \/ FreeSearch \/ FreeFound

VarNext == VarAlloc \/ VarFree \/ Narrow

\* A call runs on.
VarSpec == VarInit /\ [][VarNext]_varVars /\ WF_varVars(Narrow \/ AllocFound \/ FreeFound)
------------------------------------------------------------------------------
(* Properties.                                                             *)

VarTypeOK ==
    /\ used \in [Pools \cup {System} -> SUBSET PoolUnits]
    /\ held \subseteq Holding
    /\ op \in {"none", "Alloc", "Free"}
    /\ arg \subseteq held
    /\ size \in Nat /\ d \in Pools /\ u \in Pools

\* Whoever asked for n bytes holds a unit with room for them, of the smallest
\* pool that has it, and malloc serves only what no pool can.
BestFit ==
    \A h \in held :
        IF h.pool = System THEN h.size > Largest
        ELSE /\ h.size <= unitSize[h.pool]
             /\ \A i \in Pools : i < h.pool => unitSize[i] < h.size

\* A unit goes back to the pool it came from, although Free finds the pool by
\* the size alone: the units in use are those that callers hold.
InUseIsHeld ==
    \A i \in Pools \cup {System} : used[i] = {h.unit : h \in {g \in held : g.pool = i}}

\* Every search ends.
SearchEnds == op # "none" ~> op = "none"
==============================================================================
