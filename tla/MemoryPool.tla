----------------------------- MODULE MemoryPool ------------------------------
(***************************************************************************)
(* CommonLib/MemoryPool.cpp: a pool of fixed-size units carved out of      *)
(* blocks.  Each block threads its free units on a list whose links live   *)
(* in the first two bytes of the free units themselves, so that the owner  *)
(* of an allocated unit overwrites the link.  The blocks are on a doubly   *)
(* linked list; Alloc looks at the first block only and puts a new block   *)
(* in front when that one is full, Free deletes a block it has emptied or  *)
(* moves a block that has space again to the front.                        *)
(*                                                                         *)
(* An address is <<block, unit>>: Free recovers both from the two bytes    *)
(* in front of the unit and from the _this pointer of the block.  Callers  *)
(* free only what they hold (IMemPool's contract).                         *)
(***************************************************************************)
EXTENDS Integers, FiniteSets

CONSTANTS
    Blocks,         \* addresses ::operator new may return for a block
    InitBlock,      \* _initHead, the block the constructor creates
    NULL,           \* nullptr
    InitUnitNum,    \* _nInitUnitNum
    GrowUnitNum,    \* _nGrowUnitNum
    Payload,        \* what the owner of a unit may leave in its first two bytes
    USHRT_MAX       \* the largest USHORT

USHORT == 0 .. USHRT_MAX

ASSUME PoolAssumption ==
    /\ USHRT_MAX \in Nat
    /\ IsFiniteSet(Blocks) /\ InitBlock \in Blocks /\ NULL \notin Blocks
    /\ InitUnitNum \in USHORT \ {0} /\ GrowUnitNum \in USHORT \ {0}
    /\ Payload \subseteq USHORT

VARIABLES
    pBlock,         \* head of the block list
    live,           \* blocks allocated and not deleted
    pPre, pNext,    \* the links of each block
    mem,            \* the unit administration of each block
    inUse,          \* ghost: the addresses callers hold
    freedAll        \* ghost: FreeAll has been called

list == <<pBlock, live, pPre, pNext, freedAll>>
vars == <<pBlock, live, pPre, pNext, mem, inUse, freedAll>>

------------------------------------------------------------------------------
(* One block: MemoryBlock.                                                 *)

NoUnit == USHRT_MAX             \* (USHORT)-1

UnitNum(b) == IF b = InitBlock THEN InitUnitNum ELSE GrowUnitNum
Units(b) == 0 .. UnitNum(b) - 1

MemoryBlock(b) == [nFree : 0 .. UnitNum(b), nFirst : USHORT, link : [Units(b) -> USHORT]]

reset(b) == [nFree |-> UnitNum(b), nFirst |-> 0, link |-> [u \in Units(b) |-> u + 1]]

\* Mistake: nFree is used as the number of the next free unit.
popUnitByCount(m) ==
    [m EXCEPT !.nFree = @ - 1,
              !.nFirst = IF m.nFree = 1 THEN NoUnit ELSE m.nFree - 1]

popUnit(m) ==
    [m EXCEPT !.nFree = @ - 1,
              !.nFirst = IF m.nFree = 1 THEN NoUnit ELSE m.link[m.nFirst]]

\* Mistake: the unit becomes the first free one without its link being set.
pushUnitNoLink(m, u) == [m EXCEPT !.nFree = @ + 1, !.nFirst = u]

pushUnit(m, u) ==
    [m EXCEPT !.nFree = @ + 1, !.nFirst = u, !.link[u] = m.nFirst]

------------------------------------------------------------------------------
(* The pool.                                                               *)

\* The blocks a walk along _pNext from the head visits.
Listed ==
    {b \in Blocks : \A S \in SUBSET Blocks :
        (pBlock \in S /\ \A c \in S : pNext[c] \in S \cup {NULL}) => b \in S}

Init ==
    /\ pBlock = InitBlock
    /\ live = {InitBlock}
    /\ pPre = [b \in Blocks |-> NULL]
    /\ pNext = [b \in Blocks |-> NULL]
    /\ mem = [b \in Blocks |-> reset(b)]
    /\ inUse = {}
    /\ freedAll = FALSE

AllocFromHead ==
    /\ pBlock # NULL
    /\ mem[pBlock].nFree > 0
    /\ mem' = [mem EXCEPT ![pBlock] = popUnit(@)]
    /\ inUse' = inUse \cup {<<pBlock, mem[pBlock].nFirst>>}
    /\ UNCHANGED list

AllocGrow ==
    /\ pBlock # NULL
    /\ mem[pBlock].nFree = 0
    /\ \E b \in Blocks \ live :
          /\ live' = live \cup {b}
          /\ pNext' = [pNext EXCEPT ![b] = pBlock]
          /\ pPre' = [pPre EXCEPT ![b] = NULL, ![pBlock] = b]
          /\ pBlock' = b
          /\ mem' = [mem EXCEPT ![b] = popUnit(reset(b))]
          /\ inUse' = inUse \cup {<<b, reset(b).nFirst>>}
    /\ UNCHANGED freedAll

\* Free returns unit u of block b to the block's free list; afterwards the
\* block's administration is Pushed(b, u).
Pushed(b, u) == pushUnit(mem[b], u)

Return(b, u) ==
    /\ <<b, u>> \in inUse
    /\ inUse' = inUse \ {<<b, u>>}
    /\ mem' = [mem EXCEPT ![b] = Pushed(b, u)]

\* Mistake: the comparison counts the units before the push.
EmptyGrowBlockEarly(b, u) == b # InitBlock /\ mem[b].nFree = UnitNum(b)

\* Mistake: the first block is not spared.
EmptyGrowBlockAny(b, u) == Pushed(b, u).nFree = UnitNum(b)

EmptyGrowBlock(b, u) == b # InitBlock /\ Pushed(b, u).nFree = UnitNum(b)

\* b leaves the middle or the end of the list.
Unlinked(b, pre, nxt) ==
    IF nxt[b] = NULL THEN pre ELSE [pre EXCEPT ![nxt[b]] = pre[b]]

\* Mistake: the neighbour behind keeps pointing at the deleted block.
FreeInnerBlockNoPre(b, u) ==
    /\ Return(b, u)
    /\ EmptyGrowBlock(b, u)
    /\ pPre[b] # NULL
    /\ pNext' = [pNext EXCEPT ![pPre[b]] = pNext[b]]
    /\ live' = live \ {b}
    /\ UNCHANGED <<pBlock, pPre, freedAll>>

FreeInnerBlock(b, u) ==
    /\ Return(b, u)
    /\ EmptyGrowBlock(b, u)
    /\ pPre[b] # NULL
    /\ pNext' = [pNext EXCEPT ![pPre[b]] = pNext[b]]
    /\ pPre' = Unlinked(b, pPre, pNext)
    /\ live' = live \ {b}
    /\ UNCHANGED <<pBlock, freedAll>>

FreeHeadBlock(b, u) ==
    /\ Return(b, u)
    /\ EmptyGrowBlock(b, u)
    /\ pPre[b] = NULL
    /\ pBlock' = pNext[b]
    /\ pPre' = IF pNext[b] = NULL THEN pPre ELSE [pPre EXCEPT ![pNext[b]] = NULL]
    /\ live' = live \ {b}
    /\ UNCHANGED <<pNext, freedAll>>

\* The block with the returned unit goes to the front of a full head.
MovesToFront(b, u) == mem'[pBlock].nFree = 0 /\ pPre[b] # NULL

FreeMove(b, u) ==
    /\ Return(b, u)
    /\ ~EmptyGrowBlock(b, u)
    /\ MovesToFront(b, u)
    /\ pNext' = [pNext EXCEPT ![pPre[b]] = pNext[b], ![b] = pBlock]
    /\ pPre' = [Unlinked(b, pPre, pNext) EXCEPT ![b] = NULL, ![pBlock] = b]
    /\ pBlock' = b
    /\ UNCHANGED <<live, freedAll>>

FreeKeep(b, u) ==
    /\ Return(b, u)
    /\ ~EmptyGrowBlock(b, u)
    /\ ~MovesToFront(b, u)
    /\ UNCHANGED list

Free(b, u) ==
    \/ FreeInnerBlock(b, u)
    \/ FreeHeadBlock(b, u)
    \/ FreeMove(b, u)
    \/ FreeKeep(b, u)

FreeAll ==
    /\ pBlock # NULL
    /\ mem' = [b \in Blocks |-> IF b \in Listed THEN reset(b) ELSE mem[b]]
    /\ inUse' = {}
    /\ freedAll' = TRUE
    /\ UNCHANGED <<pBlock, live, pPre, pNext>>

\* The destructor.
dispose ==
    /\ pBlock # NULL
    /\ live' = live \ Listed
    /\ pBlock' = NULL
    /\ inUse' = {}
    /\ UNCHANGED <<pPre, pNext, mem, freedAll>>

\* The owner of a unit uses it.
Write(b, u) ==
    /\ <<b, u>> \in inUse
    /\ \E v \in Payload : mem' = [mem EXCEPT ![b].link[u] = v]
    /\ UNCHANGED <<list, inUse>>

Next ==
    \/ AllocFromHead
    \/ AllocGrow
    \/ \E b \in Blocks : \E u \in Units(b) : Free(b, u) \/ Write(b, u)
    \/ FreeAll
    \/ dispose

Spec == Init /\ [][Next]_vars
------------------------------------------------------------------------------
(* Properties.                                                             *)

\* The addresses Alloc may return.
Addresses == UNION {{b} \X Units(b) : b \in Blocks}

TypeOK ==
    /\ pBlock \in Blocks \cup {NULL}
    /\ live \subseteq Blocks
    /\ pPre \in [Blocks -> Blocks \cup {NULL}]
    /\ pNext \in [Blocks -> Blocks \cup {NULL}]
    /\ \A b \in Blocks : mem[b] \in MemoryBlock(b)
    /\ DOMAIN mem = Blocks
    /\ inUse \subseteq Addresses

\* m threads exactly the units of F: its links visit each of them once,
\* beginning at nFirst, and nFree counts them.
FreeList(m, F) ==
    \E f \in [1 .. m.nFree -> F] :
        /\ \A x \in F : \E i \in 1 .. m.nFree : f[i] = x
        /\ \A i, j \in 1 .. m.nFree : f[i] = f[j] => i = j
        /\ \A i \in 1 .. m.nFree - 1 : m.link[f[i]] = f[i + 1]
        /\ m.nFirst = IF m.nFree = 0 THEN NoUnit ELSE f[1]

FreeUnits(b) == {u \in Units(b) : <<b, u>> \notin inUse}

\* The free list of every block holds exactly the units no caller holds,
\* although callers overwrite the links of the units they hold (popUnit,
\* pushUnit).
FreeListOK == \A b \in live : FreeList(mem[b], FreeUnits(b))

\* f lays out the n blocks of L in the order of nxt, from hd on, with pre
\* the inverse.
Chain(f, n, hd, L, pre, nxt) ==
    /\ \A b \in L : \E i \in 1 .. n : f[i] = b
    /\ \A i, j \in 1 .. n : f[i] = f[j] => i = j
    /\ \A i \in 1 .. n :
          /\ nxt[f[i]] = IF i = n THEN NULL ELSE f[i + 1]
          /\ pre[f[i]] = IF i = 1 THEN NULL ELSE f[i - 1]
    /\ hd = IF n = 0 THEN NULL ELSE f[1]

\* The block list visits every live block exactly once, in both directions,
\* whatever sequence of insertions, deletions and moves to the front
\* (Alloc, Free) built it; nothing is listed or left behind after dispose.
BlockListOK ==
    \E n \in 0 .. Cardinality(live) : \E f \in [1 .. n -> live] :
        Chain(f, n, pBlock, live, pPre, pNext)

\* No block is deleted while a caller holds one of its units, and the first
\* block outlives every Free (the test against _initHead).
HeldBlocksLive ==
    /\ \A p \in inUse : p[1] \in live
    /\ pBlock # NULL => InitBlock \in live

\* Until its user calls FreeAll, as VarMemPool never does, the pool keeps no
\* block it does not need: every block but the first has a unit in use (the
\* deletions in Free).
NoIdleGrowBlock ==
    freedAll = FALSE =>
        \A b \in live \ {InitBlock} : \E u \in Units(b) : <<b, u>> \in inUse

\* "If the first block has no space, allocate again, since we always move
\* blocks with space to the front" (MemoryPool.cpp:98): a full head means
\* that no block has space.
FullHeadMeansAllFull ==
    freedAll = FALSE /\ pBlock # NULL /\ mem[pBlock].nFree = 0 => \A b \in live : mem[b].nFree = 0

\* The pool is an allocator: no address is handed out twice.
Abstract == INSTANCE Allocator WITH Addresses <- Addresses, inUse <- inUse
ImplementsAllocator == Abstract!Spec
==============================================================================
