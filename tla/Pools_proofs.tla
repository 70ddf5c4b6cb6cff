----------------------------- MODULE Pools_proofs -----------------------------
(***************************************************************************)
(* Proofs about the two memory pools: MemoryPool, for every set of blocks, *)
(* every unit count that fits a USHORT and every content callers leave in  *)
(* their units, and VarMemPool, for any number of pools of any increasing  *)
(* unit sizes.                                                             *)
(***************************************************************************)
EXTENDS MemoryPool, VarMemPool, FiniteSetTheorems, TLAPS

(***************************************************************************)
(* The free list of one block.                                             *)
(***************************************************************************)

\* The unit count of a block is a positive USHORT (MemoryPool's constructor).
LEMMA UnitNumType ==
    /\ USHRT_MAX \in Nat
    /\ \A b \in Blocks : UnitNum(b) \in 1 .. USHRT_MAX
BY PoolAssumption DEF PoolAssumption, UnitNum, USHORT

\* reset yields a well-typed block.
LEMMA ResetType == \A b \in Blocks : reset(b) \in MemoryBlock(b)
BY UnitNumType DEF reset, MemoryBlock, Units, USHORT

\* reset threads all units of the block.
LEMMA ResetFreeList ==
    ASSUME NEW b \in Blocks
    PROVE  FreeList(reset(b), Units(b))
<1>1. UnitNum(b) \in 1 .. USHRT_MAX
  BY UnitNumType
<1> DEFINE f == [i \in 1 .. UnitNum(b) |-> i - 1]
<1>2. f \in [1 .. reset(b).nFree -> Units(b)]
  BY <1>1 DEF reset, Units
<1>3. \A x \in Units(b) : \E i \in 1 .. reset(b).nFree : f[i] = x
  <2> SUFFICES ASSUME NEW x \in Units(b)
               PROVE  \E i \in 1 .. reset(b).nFree : f[i] = x
    OBVIOUS
  <2>1. x + 1 \in 1 .. reset(b).nFree /\ f[x + 1] = x
    BY <1>1 DEF reset, Units
  <2> QED BY <2>1
<1>4. \A i, j \in 1 .. reset(b).nFree : f[i] = f[j] => i = j
  BY <1>1 DEF reset
<1>5. \A i \in 1 .. reset(b).nFree - 1 : reset(b).link[f[i]] = f[i + 1]
  BY <1>1 DEF reset, Units
<1>6. reset(b).nFirst = IF reset(b).nFree = 0 THEN NoUnit ELSE f[1]
  BY <1>1 DEF reset
<1> QED BY <1>2, <1>3, <1>4, <1>5, <1>6 DEF FreeList

\* popUnit takes the first unit of the list off it.
LEMMA PopFreeList ==
    ASSUME NEW b \in Blocks, NEW m \in MemoryBlock(b), NEW F \in SUBSET Units(b),
           m.nFree > 0, FreeList(m, F)
    PROVE  /\ m.nFirst \in F
           /\ popUnit(m) \in MemoryBlock(b)
           /\ FreeList(popUnit(m), F \ {m.nFirst})
<1> DEFINE n == m.nFree
           q == popUnit(m)
<1>0. /\ n \in 1 .. USHRT_MAX /\ n - 1 \in Nat /\ n <= UnitNum(b)
      /\ UnitNum(b) \in 1 .. USHRT_MAX
      /\ m.link \in [Units(b) -> USHORT]
  BY UnitNumType DEF MemoryBlock
<1>1. PICK f \in [1 .. n -> F] :
        /\ \A x \in F : \E i \in 1 .. n : f[i] = x
        /\ \A i, j \in 1 .. n : f[i] = f[j] => i = j
        /\ \A i \in 1 .. n - 1 : m.link[f[i]] = f[i + 1]
        /\ m.nFirst = IF n = 0 THEN NoUnit ELSE f[1]
  BY DEF FreeList
<1>2. m.nFirst = f[1] /\ f[1] \in F
  BY <1>0, <1>1
<1>3. /\ q.nFree = n - 1
      /\ q.nFirst = IF n = 1 THEN NoUnit ELSE m.link[m.nFirst]
      /\ q.link = m.link
  BY DEF popUnit, MemoryBlock
<1>4. q \in MemoryBlock(b)
  <2>1. q.nFirst \in USHORT
    BY <1>0, <1>2, <1>3, UnitNumType DEF NoUnit, USHORT
  <2>2. q.nFree \in 0 .. UnitNum(b)
    BY <1>0, <1>3
  <2> QED BY <2>1, <2>2 DEF popUnit, MemoryBlock
<1> DEFINE g == [i \in 1 .. n - 1 |-> f[i + 1]]
<1>5. g \in [1 .. q.nFree -> F \ {m.nFirst}]
  <2> SUFFICES ASSUME NEW i \in 1 .. n - 1
               PROVE  f[i + 1] \in F \ {m.nFirst}
    BY <1>0, <1>3
  <2>1. i + 1 \in 1 .. n /\ 1 \in 1 .. n /\ i + 1 # 1
    BY <1>0
  <2> QED BY <2>1, <1>1, <1>2
<1>6. \A x \in F \ {m.nFirst} : \E i \in 1 .. q.nFree : g[i] = x
  <2> SUFFICES ASSUME NEW x \in F \ {m.nFirst}
               PROVE  \E i \in 1 .. n - 1 : g[i] = x
    BY <1>3
  <2>1. PICK k \in 1 .. n : f[k] = x
    BY <1>1
  <2>2. k # 1
    BY <2>1, <1>2
  <2>3. k - 1 \in 1 .. n - 1 /\ g[k - 1] = x
    BY <2>1, <2>2, <1>0
  <2> QED BY <2>3
<1>7. \A i, j \in 1 .. q.nFree : g[i] = g[j] => i = j
  <2> SUFFICES ASSUME NEW i \in 1 .. n - 1, NEW j \in 1 .. n - 1, g[i] = g[j]
               PROVE  i = j
    BY <1>3
  <2>1. i + 1 \in 1 .. n /\ j + 1 \in 1 .. n
    BY <1>0
  <2>2. i + 1 = j + 1
    BY <2>1, <1>1
  <2> QED BY <2>2
<1>8. \A i \in 1 .. q.nFree - 1 : q.link[g[i]] = g[i + 1]
  <2> SUFFICES ASSUME NEW i \in 1 .. q.nFree - 1
               PROVE  q.link[g[i]] = g[i + 1]
    OBVIOUS
  <2>1. i \in Int /\ i + 1 \in 1 .. n - 1 /\ i \in 1 .. n - 1
    BY <1>0, <1>3
  <2>2. g[i] = f[i + 1] /\ g[i + 1] = f[(i + 1) + 1]
    BY <2>1
  <2>3. m.link[f[i + 1]] = f[(i + 1) + 1]
    BY <2>1, <1>1
  <2> QED BY <2>2, <2>3, <1>3
<1>9. q.nFirst = IF q.nFree = 0 THEN NoUnit ELSE g[1]
  <2>1. CASE n = 1
    BY <2>1, <1>3
  <2>2. CASE n # 1
    <3>1. 1 \in 1 .. n - 1 /\ q.nFree # 0
      BY <2>2, <1>0, <1>3
    <3>2. g[1] = f[2] /\ m.link[f[1]] = f[2]
      BY <3>1, <1>1
    <3> QED BY <2>2, <3>1, <3>2, <1>2, <1>3
  <2> QED BY <2>1, <2>2
<1> QED BY <1>2, <1>4, <1>5, <1>6, <1>7, <1>8, <1>9 DEF FreeList

\* pushUnit puts a unit in front of the list.
LEMMA PushFreeList ==
    ASSUME NEW b \in Blocks, NEW m \in MemoryBlock(b), NEW F \in SUBSET Units(b),
           NEW w \in Units(b) \ F, m.nFree < UnitNum(b), FreeList(m, F)
    PROVE  /\ pushUnit(m, w) \in MemoryBlock(b)
           /\ FreeList(pushUnit(m, w), F \cup {w})
<1> DEFINE n == m.nFree
           q == pushUnit(m, w)
<1>0. /\ n \in Nat /\ n + 1 \in 0 .. UnitNum(b)
      /\ UnitNum(b) \in 1 .. USHRT_MAX /\ USHRT_MAX \in Nat
      /\ m.link \in [Units(b) -> USHORT]
      /\ w \in USHORT
  BY UnitNumType DEF MemoryBlock, Units, USHORT
<1>1. PICK f \in [1 .. n -> F] :
        /\ \A x \in F : \E i \in 1 .. n : f[i] = x
        /\ \A i, j \in 1 .. n : f[i] = f[j] => i = j
        /\ \A i \in 1 .. n - 1 : m.link[f[i]] = f[i + 1]
        /\ m.nFirst = IF n = 0 THEN NoUnit ELSE f[1]
  BY DEF FreeList
<1>2. /\ q.nFree = n + 1
      /\ q.nFirst = w
      /\ q.link = [m.link EXCEPT ![w] = m.nFirst]
  BY DEF pushUnit, MemoryBlock
<1>3. q \in MemoryBlock(b)
  <2>1. q.link \in [Units(b) -> USHORT]
    BY <1>0, <1>2 DEF MemoryBlock
  <2> QED BY <1>0, <1>2, <2>1 DEF pushUnit, MemoryBlock
<1> DEFINE g == [i \in 1 .. n + 1 |-> IF i = 1 THEN w ELSE f[i - 1]]
<1>4. g \in [1 .. q.nFree -> F \cup {w}]
  <2> SUFFICES ASSUME NEW i \in 1 .. n + 1, i # 1
               PROVE  f[i - 1] \in F
    BY <1>0, <1>2
  <2>1. i - 1 \in 1 .. n
    BY <1>0
  <2> QED BY <2>1, <1>1
<1>5. \A x \in F \cup {w} : \E i \in 1 .. q.nFree : g[i] = x
  <2> SUFFICES ASSUME NEW x \in F \cup {w}
               PROVE  \E i \in 1 .. n + 1 : g[i] = x
    BY <1>2
  <2>1. CASE x = w
    <3>1. 1 \in 1 .. n + 1 /\ g[1] = w
      BY <1>0
    <3> QED BY <2>1, <3>1
  <2>2. CASE x \in F
    <3>1. PICK k \in 1 .. n : f[k] = x
      BY <2>2, <1>1
    <3>2. k + 1 \in 1 .. n + 1 /\ g[k + 1] = x
      BY <3>1, <1>0
    <3> QED BY <3>2
  <2> QED BY <2>1, <2>2
<1>6. \A i, j \in 1 .. q.nFree : g[i] = g[j] => i = j
  <2> SUFFICES ASSUME NEW i \in 1 .. n + 1, NEW j \in 1 .. n + 1, g[i] = g[j]
               PROVE  i = j
    BY <1>2
  <2>1. CASE i = 1 \/ j = 1
    <3>1. \A k \in 1 .. n + 1 : k # 1 => g[k] # w
      <4> SUFFICES ASSUME NEW k \in 1 .. n + 1, k # 1
                   PROVE  f[k - 1] # w
        OBVIOUS
      <4>1. k - 1 \in 1 .. n
        BY <1>0
      <4> QED BY <4>1, <1>1
    <3>2. 1 \in 1 .. n + 1 /\ g[1] = w
      BY <1>0
    <3> HIDE DEF g
    <3> QED BY <2>1, <3>1, <3>2
  <2>2. CASE i # 1 /\ j # 1
    <3>1. i - 1 \in 1 .. n /\ j - 1 \in 1 .. n
      BY <2>2, <1>0
    <3>2. i - 1 = j - 1
      BY <3>1, <2>2, <1>1
    <3> QED BY <3>2
  <2> QED BY <2>1, <2>2
<1>7. \A i \in 1 .. q.nFree - 1 : q.link[g[i]] = g[i + 1]
  <2> SUFFICES ASSUME NEW i \in 1 .. q.nFree - 1
               PROVE  q.link[g[i]] = g[i + 1]
    OBVIOUS
  <2> i \in 1 .. n
    BY <1>0, <1>2
  <2>0. g[i + 1] = f[i] /\ f[i] \in F /\ f[i] \in Units(b) /\ w \in Units(b)
    BY <1>0, <1>1
  <2>1. CASE i = 1
    <3>1. g[i] = w /\ m.nFirst = f[1]
      BY <2>1, <1>0, <1>1
    <3> QED BY <3>1, <2>0, <2>1, <1>0, <1>2
  <2>2. CASE i # 1
    <3>1. i - 1 \in 1 .. n - 1 /\ g[i] = f[i - 1] /\ f[i - 1] \in F /\ f[i - 1] # w
      <4>1. i - 1 \in 1 .. n - 1 /\ i - 1 \in 1 .. n
        BY <2>2, <1>0
      <4>2. i \in 1 .. n + 1
        BY <1>0
      <4> QED BY <4>1, <4>2, <2>2
    <3>2. m.link[f[i - 1]] = f[i]
      BY <3>1, <1>1
    <3>3. q.link[f[i - 1]] = m.link[f[i - 1]]
      BY <3>1, <1>0, <1>2
    <3> QED BY <3>1, <3>2, <3>3, <2>0
  <2> QED BY <2>1, <2>2
<1>8. q.nFirst = IF q.nFree = 0 THEN NoUnit ELSE g[1]
  BY <1>0, <1>2
<1> HIDE DEF g
<1> QED BY <1>3, <1>4, <1>5, <1>6, <1>7, <1>8 DEF FreeList

\* The owner of a unit may overwrite the link it finds there.
LEMMA WriteFreeList ==
    ASSUME NEW b \in Blocks, NEW m \in MemoryBlock(b), NEW F \in SUBSET Units(b),
           NEW w \in Units(b) \ F, NEW v \in USHORT, FreeList(m, F)
    PROVE  /\ [m EXCEPT !.link[w] = v] \in MemoryBlock(b)
           /\ FreeList([m EXCEPT !.link[w] = v], F)
<1> DEFINE q == [m EXCEPT !.link[w] = v]
<1>1. PICK f \in [1 .. m.nFree -> F] :
        /\ \A x \in F : \E i \in 1 .. m.nFree : f[i] = x
        /\ \A i, j \in 1 .. m.nFree : f[i] = f[j] => i = j
        /\ \A i \in 1 .. m.nFree - 1 : m.link[f[i]] = f[i + 1]
        /\ m.nFirst = IF m.nFree = 0 THEN NoUnit ELSE f[1]
  BY DEF FreeList
<1>2. /\ q.nFree = m.nFree /\ q.nFirst = m.nFirst
      /\ q.link = [m.link EXCEPT ![w] = v]
      /\ m.link \in [Units(b) -> USHORT]
      /\ m.nFree \in Nat
  BY UnitNumType DEF MemoryBlock
<1>3. q \in MemoryBlock(b)
  BY DEF MemoryBlock
<1>4. \A i \in 1 .. q.nFree - 1 : q.link[f[i]] = f[i + 1]
  <2> SUFFICES ASSUME NEW i \in 1 .. m.nFree - 1
               PROVE  q.link[f[i]] = f[i + 1]
    BY <1>2
  <2>1. i \in 1 .. m.nFree
    BY <1>2
  <2>2. f[i] \in F /\ f[i] \in Units(b) /\ f[i] # w
    BY <2>1
  <2> QED BY <2>2, <1>1, <1>2
<1>5. FreeList(q, F)
  <2>1. /\ f \in [1 .. q.nFree -> F]
        /\ \A x \in F : \E i \in 1 .. q.nFree : f[i] = x
        /\ \A i, j \in 1 .. q.nFree : f[i] = f[j] => i = j
        /\ q.nFirst = IF q.nFree = 0 THEN NoUnit ELSE f[1]
    <3> HIDE DEF q
    <3> QED BY <1>1, <1>2
  <2> HIDE DEF q
  <2> QED BY <2>1, <1>4 DEF FreeList
<1> QED BY <1>3, <1>5

\* A block with nFree = UnitNum has every unit free: the test in Free that
\* decides whether the block can be deleted.
LEMMA AllFree ==
    ASSUME NEW b \in Blocks, NEW m \in MemoryBlock(b), NEW F \in SUBSET Units(b),
           FreeList(m, F), F # Units(b)
    PROVE  m.nFree < UnitNum(b)
<1>0. m.nFree \in 0 .. UnitNum(b) /\ UnitNum(b) \in Nat
  BY UnitNumType DEF MemoryBlock
<1>1. PICK f \in [1 .. m.nFree -> F] :
        /\ \A x \in F : \E i \in 1 .. m.nFree : f[i] = x
        /\ \A i, j \in 1 .. m.nFree : f[i] = f[j] => i = j
  BY DEF FreeList
<1>2. IsFiniteSet(Units(b)) /\ Cardinality(Units(b)) = UnitNum(b)
  <2>1. 0 \in Int /\ UnitNum(b) - 1 \in Int
    BY <1>0
  <2>2. /\ IsFiniteSet(0 .. UnitNum(b) - 1)
        /\ Cardinality(0 .. UnitNum(b) - 1)
             = IF 0 > UnitNum(b) - 1 THEN 0 ELSE (UnitNum(b) - 1) - 0 + 1
    BY <2>1, FS_Interval
  <2> QED BY <2>2, <1>0 DEF Units
<1>3. /\ IsFiniteSet(1 .. m.nFree)
      /\ Cardinality(1 .. m.nFree) = m.nFree
  <2>1. 1 \in Int /\ m.nFree \in Int
    BY <1>0
  <2>2. /\ IsFiniteSet(1 .. m.nFree)
        /\ Cardinality(1 .. m.nFree) = IF 1 > m.nFree THEN 0 ELSE m.nFree - 1 + 1
    BY <2>1, FS_Interval
  <2> QED BY <2>2, <1>0
<1>4. f \in Injection(1 .. m.nFree, F)
  BY <1>1 DEF Injection, IsInjective
<1>5. IsFiniteSet(F) /\ Cardinality(F) <= UnitNum(b) /\ Cardinality(F) # UnitNum(b)
  BY <1>2, FS_Subset
<1>6. Cardinality(1 .. m.nFree) <= Cardinality(F)
  BY <1>4, <1>5, FS_Injection
<1>7. Cardinality(F) \in Nat
  BY <1>5, FS_CardinalityType
<1> QED BY <1>0, <1>3, <1>5, <1>6, <1>7

(***************************************************************************)
(* The block list.                                                         *)
(***************************************************************************)

IsList(hd, L, pre, nxt) ==
    \E n \in Nat : \E f \in [1 .. n -> L] : Chain(f, n, hd, L, pre, nxt)

\* The head of a list that is not empty is its block without predecessor.
LEMMA ChainHead ==
    ASSUME NEW L \in SUBSET Blocks, NEW pre, NEW nxt, NEW hd, IsList(hd, L, pre, nxt),
           L # {}
    PROVE  hd \in L /\ pre[hd] = NULL
<1> SUFFICES ASSUME NEW n \in Nat, NEW f \in [1 .. n -> L], Chain(f, n, hd, L, pre, nxt)
             PROVE  hd \in L /\ pre[hd] = NULL
  BY DEF IsList
<1>1. n # 0 /\ 1 \in 1 .. n
  BY DEF Chain
<1>2. hd = f[1]
  BY <1>1 DEF Chain
<1> QED BY <1>1, <1>2 DEF Chain

\* A new head goes in front of the list (Alloc).
LEMMA ChainInsert ==
    ASSUME NEW L \in SUBSET Blocks, NEW pre, NEW nxt, NEW hd, hd # NULL,
           IsList(hd, L, pre, nxt), NEW b \in Blocks \ L,
           NEW pre2, NEW nxt2, pre2[b] = NULL, nxt2[b] = hd,
           \A c \in L : pre2[c] = IF c = hd THEN b ELSE pre[c],
           \A c \in L : nxt2[c] = nxt[c]
    PROVE  IsList(b, L \cup {b}, pre2, nxt2)
<1> SUFFICES ASSUME NEW n \in Nat, NEW f \in [1 .. n -> L], Chain(f, n, hd, L, pre, nxt)
             PROVE  IsList(b, L \cup {b}, pre2, nxt2)
  BY DEF IsList
<1> DEFINE g == [i \in 1 .. n + 1 |-> IF i = 1 THEN b ELSE f[i - 1]]
<1>0. /\ n \in Nat /\ n # 0
      /\ \A i \in 1 .. n + 1 : i # 1 => i - 1 \in 1 .. n /\ f[i - 1] \in L
      /\ \A i \in 1 .. n : i + 1 \in 1 .. n + 1 /\ (i + 1) - 1 = i
      /\ 1 \in 1 .. n + 1 /\ 1 \in 1 .. n /\ n + 1 # 1
      /\ hd = f[1] /\ hd \in L /\ hd \in Blocks /\ hd # b
  BY DEF Chain
<1>1. g \in [1 .. n + 1 -> L \cup {b}]
  BY <1>0
<1>2. ASSUME NEW c \in L \cup {b}
      PROVE  \E i \in 1 .. n + 1 : g[i] = c
  <2>1. CASE c = b
    BY <2>1, <1>0
  <2>2. CASE c \in L
    <3>1. PICK i \in 1 .. n : f[i] = c
      BY <2>2 DEF Chain
    <3>2. g[i + 1] = c
      BY <3>1, <1>0
    <3> QED BY <3>2, <1>0
  <2> QED BY <2>1, <2>2
<1>3. ASSUME NEW i \in 1 .. n + 1, NEW j \in 1 .. n + 1, g[i] = g[j]
      PROVE  i = j
  <2>1. CASE i = 1 \/ j = 1
    BY <2>1, <1>0, <1>3
  <2>2. CASE i # 1 /\ j # 1
    <3>1. f[i - 1] = f[j - 1] /\ i - 1 \in 1 .. n /\ j - 1 \in 1 .. n
      BY <2>2, <1>0, <1>3
    <3>2. i - 1 = j - 1
      BY <3>1 DEF Chain
    <3> QED BY <3>2
  <2> QED BY <2>1, <2>2
<1>4. ASSUME NEW i \in 1 .. n + 1
      PROVE  /\ nxt2[g[i]] = IF i = n + 1 THEN NULL ELSE g[i + 1]
             /\ pre2[g[i]] = IF i = 1 THEN NULL ELSE g[i - 1]
  <2>1. CASE i = 1
    <3>1. g[i] = b /\ i # n + 1 /\ g[i + 1] = f[1] /\ i + 1 \in 1 .. n + 1
      BY <2>1, <1>0
    <3>2. nxt2[b] = hd /\ pre2[b] = NULL
      BY <1>0
    <3> QED BY <3>1, <3>2, <2>1, <1>0
  <2>2. CASE i # 1
    <3> DEFINE k == i - 1
    <3>1. k \in 1 .. n /\ g[i] = f[k] /\ f[k] \in L /\ f[k] # b /\ f[k] \in Blocks
      BY <2>2, <1>0
    <3>2. /\ nxt[f[k]] = IF k = n THEN NULL ELSE f[k + 1]
          /\ pre[f[k]] = IF k = 1 THEN NULL ELSE f[k - 1]
      BY <3>1 DEF Chain
    <3>3. nxt2[g[i]] = nxt[f[k]]
      BY <3>1
    <3>4. nxt[f[k]] = IF i = n + 1 THEN NULL ELSE g[i + 1]
      <4>1. i = n + 1 <=> k = n
        OBVIOUS
      <4>2. i # n + 1 => i + 1 \in 1 .. n + 1 /\ g[i + 1] = f[i] /\ k + 1 = i
        BY <2>2
      <4> QED BY <4>1, <4>2, <3>2
    <3>5. pre2[g[i]] = g[i - 1]
      <4>1. CASE k = 1
        <5>1. f[k] = hd /\ g[i - 1] = b
          BY <4>1, <1>0
        <5> QED BY <5>1, <3>1, <1>0
      <4>2. CASE k # 1
        <5>1. f[k] # hd
          BY <4>2, <3>1, <1>0 DEF Chain
        <5>2. k \in 1 .. n + 1 /\ g[k] = f[k - 1]
          BY <4>2, <3>1
        <5> QED BY <5>1, <5>2, <4>2, <3>1, <3>2, <1>0
      <4> QED BY <4>1, <4>2
    <3> QED BY <2>2, <3>3, <3>4, <3>5
  <2> QED BY <2>1, <2>2
<1>5. b = IF n + 1 = 0 THEN NULL ELSE g[1]
  BY <1>0
<1> HIDE DEF g
<1>6. Chain(g, n + 1, b, L \cup {b}, pre2, nxt2)
  BY <1>2, <1>3, <1>4, <1>5 DEF Chain
<1>7. n + 1 \in Nat
  OBVIOUS
<1> QED BY <1>1, <1>6, <1>7 DEF IsList

\* A block that has a predecessor leaves the list (Free).
LEMMA ChainRemoveInner ==
    ASSUME NEW L \in SUBSET Blocks, NEW pre, NEW nxt, NEW hd,
           IsList(hd, L, pre, nxt), NEW b \in L, pre[b] # NULL,
           NEW pre2, \A c \in L : pre2[c] = IF c = nxt[b] THEN pre[b] ELSE pre[c],
           NEW nxt2, \A c \in L : nxt2[c] = IF c = pre[b] THEN nxt[b] ELSE nxt[c]
    PROVE  IsList(hd, L \ {b}, pre2, nxt2)
<1> SUFFICES ASSUME NEW n \in Nat, NEW f \in [1 .. n -> L], Chain(f, n, hd, L, pre, nxt)
             PROVE  IsList(hd, L \ {b}, pre2, nxt2)
  BY DEF IsList
<1>1. PICK k \in 1 .. n : f[k] = b
  BY DEF Chain
<1>2. /\ k # 1 /\ n \in Nat /\ k \in Int
      /\ pre[b] = f[k - 1]
      /\ nxt[b] = IF k = n THEN NULL ELSE f[k + 1]
      /\ \A i \in 1 .. n : f[i] \in L /\ f[i] \in Blocks /\ f[i] # NULL
  <2>1. /\ nxt[f[k]] = IF k = n THEN NULL ELSE f[k + 1]
        /\ pre[f[k]] = IF k = 1 THEN NULL ELSE f[k - 1]
    BY DEF Chain
  <2> QED BY <2>1, <1>1, PoolAssumption DEF PoolAssumption
<1>3. \A i, j \in 1 .. n : f[i] = f[j] => i = j
  BY DEF Chain
<1> DEFINE g == [i \in 1 .. n - 1 |-> IF i < k THEN f[i] ELSE f[i + 1]]
<1>4. k - 1 \in 1 .. n /\ k - 1 # k /\ n - 1 \in Nat \ {0}
  BY <1>2
<1>5. pre[b] \in L \ {b}
  BY <1>1, <1>2, <1>3, <1>4
<1>6. g \in [1 .. n - 1 -> L \ {b}]
  <2> SUFFICES ASSUME NEW i \in 1 .. n - 1
               PROVE  (IF i < k THEN f[i] ELSE f[i + 1]) \in L \ {b}
    OBVIOUS
  <2>1. i \in 1 .. n /\ i + 1 \in 1 .. n
    BY <1>2
  <2>2. (i < k => i # k) /\ (~(i < k) => i + 1 # k)
    BY <1>2
  <2> QED BY <2>1, <2>2, <1>1, <1>2, <1>3
<1>7. ASSUME NEW c \in L \ {b}
      PROVE  \E i \in 1 .. n - 1 : g[i] = c
  <2>1. PICK i \in 1 .. n : f[i] = c
    BY DEF Chain
  <2>2. i # k
    BY <2>1, <1>1
  <2>3. CASE i < k
    <3>1. i \in 1 .. n - 1 /\ g[i] = c
      BY <2>1, <2>3, <1>2
    <3> QED BY <3>1
  <2>4. CASE i > k
    <3>1. i - 1 \in 1 .. n - 1 /\ ~(i - 1 < k) /\ (i - 1) + 1 = i
      BY <2>4, <1>2
    <3>2. g[i - 1] = c
      BY <3>1, <2>1
    <3> QED BY <3>1, <3>2
  <2> QED BY <2>2, <2>3, <2>4, <1>2
<1>8. ASSUME NEW i \in 1 .. n - 1, NEW j \in 1 .. n - 1, g[i] = g[j]
      PROVE  i = j
  <2>1. i \in 1 .. n /\ i + 1 \in 1 .. n /\ j \in 1 .. n /\ j + 1 \in 1 .. n
    BY <1>2
  <2>2. (IF i < k THEN i ELSE i + 1) = (IF j < k THEN j ELSE j + 1)
    BY <2>1, <1>8, <1>3
  <2> QED BY <2>2, <1>2
<1>9. \A i \in 1 .. n :
        /\ nxt2[f[i]] = IF i = k - 1 THEN nxt[b] ELSE nxt[f[i]]
        /\ pre2[f[i]] = IF k # n /\ i = k + 1 THEN pre[b] ELSE pre[f[i]]
  <2> SUFFICES ASSUME NEW i \in 1 .. n
               PROVE  /\ nxt2[f[i]] = IF i = k - 1 THEN nxt[b] ELSE nxt[f[i]]
                      /\ pre2[f[i]] = IF k # n /\ i = k + 1 THEN pre[b] ELSE pre[f[i]]
    OBVIOUS
  <2>1. i = k - 1 <=> f[i] = pre[b]
    BY <1>2, <1>3, <1>4
  <2>2. nxt2[f[i]] = IF i = k - 1 THEN nxt[b] ELSE nxt[f[i]]
    BY <2>1, <1>2
  <2>3. CASE k = n
    <3>1. nxt[b] = NULL
      BY <2>3, <1>2
    <3> QED BY <3>1, <2>2, <2>3, <1>2
  <2>4. CASE k # n
    <3>1. k + 1 \in 1 .. n
      BY <2>4, <1>2
    <3>2. nxt[b] = f[k + 1] /\ nxt[b] # NULL /\ nxt[b] \in Blocks
      BY <3>1, <2>4, <1>2
    <3>3. i = k + 1 <=> f[i] = nxt[b]
      BY <3>1, <3>2, <1>3
    <3> QED BY <3>2, <3>3, <2>2, <2>4, <1>2
  <2> QED BY <2>3, <2>4
<1>10. ASSUME NEW i \in 1 .. n - 1
       PROVE  /\ nxt2[g[i]] = IF i = n - 1 THEN NULL ELSE g[i + 1]
              /\ pre2[g[i]] = IF i = 1 THEN NULL ELSE g[i - 1]
  <2>0. /\ i \in 1 .. n /\ i + 1 \in 1 .. n
        /\ i # n - 1 => i + 1 \in 1 .. n - 1 /\ (i + 1) + 1 \in 1 .. n
        /\ i # 1 => i - 1 \in 1 .. n - 1 /\ i - 1 \in 1 .. n
        /\ (i - 1) + 1 = i
    BY <1>2
  <2>1. CASE i < k - 1
    <3>1. g[i] = f[i] /\ g[i + 1] = f[i + 1] /\ i # n - 1 /\ i + 1 < k
      BY <2>0, <2>1, <1>2
    <3>2. i # 1 => g[i - 1] = f[i - 1]
      BY <2>0, <2>1, <1>2
    <3>3. nxt[f[i]] = f[i + 1] /\ pre[f[i]] = IF i = 1 THEN NULL ELSE f[i - 1]
      <4>1. i \in 1 .. n /\ i # n
        BY <2>0, <2>1, <1>2
      <4> QED BY <4>1 DEF Chain
    <3>4. nxt2[f[i]] = nxt[f[i]] /\ pre2[f[i]] = pre[f[i]]
      BY <2>0, <2>1, <1>2, <1>9
    <3> QED BY <3>1, <3>2, <3>3, <3>4
  <2>2. CASE i = k - 1
    <3>1. g[i] = f[i] /\ nxt2[f[i]] = nxt[b] /\ pre2[f[i]] = pre[f[i]]
      BY <2>0, <2>2, <1>2, <1>9
    <3>2. pre[f[i]] = IF i = 1 THEN NULL ELSE g[i - 1]
      BY <2>0, <2>2, <1>2 DEF Chain
    <3>3. (k = n <=> i = n - 1) /\ (i # n - 1 => g[i + 1] = f[k + 1])
      BY <2>0, <2>2, <1>2
    <3> QED BY <3>1, <3>2, <3>3, <1>2
  <2>3. CASE i > k - 1
    <3>1. g[i] = f[i + 1] /\ i # 1
      BY <2>0, <2>3, <1>2, <1>4
    <3>2. nxt2[f[i + 1]] = IF i = n - 1 THEN NULL ELSE g[i + 1]
      <4>1. nxt2[f[i + 1]] = nxt[f[i + 1]]
        BY <2>0, <2>3, <1>2, <1>9
      <4>2. nxt[f[i + 1]] = IF i + 1 = n THEN NULL ELSE f[(i + 1) + 1]
        BY <2>0 DEF Chain
      <4>3. i # n - 1 => g[i + 1] = f[(i + 1) + 1]
        BY <2>0, <2>3, <1>2
      <4> QED BY <4>1, <4>2, <4>3, <1>2
    <3>3. pre2[f[i + 1]] = g[i - 1]
      <4>1. CASE i = k
        <5>1. k # n /\ pre2[f[i + 1]] = pre[b] /\ g[i - 1] = f[k - 1]
          BY <4>1, <2>0, <3>1, <1>2, <1>9
        <5> QED BY <5>1, <1>2
      <4>2. CASE i # k
        <5>1. pre2[f[i + 1]] = pre[f[i + 1]] /\ g[i - 1] = f[i]
          BY <4>2, <2>0, <2>3, <3>1, <1>2, <1>9
        <5>2. pre[f[i + 1]] = f[i]
          <6>1. i + 1 # 1 /\ (i + 1) - 1 = i
            OBVIOUS
          <6> QED BY <6>1, <2>0 DEF Chain
        <5> QED BY <5>1, <5>2
      <4> QED BY <4>1, <4>2
    <3> QED BY <3>1, <3>2, <3>3
  <2> QED BY <2>1, <2>2, <2>3, <1>2
<1>11. hd = IF n - 1 = 0 THEN NULL ELSE g[1]
  <2>1. hd = f[1] /\ n - 1 # 0 /\ 1 \in 1 .. n - 1 /\ 1 < k
    BY <1>2, <1>4 DEF Chain
  <2> QED BY <2>1
<1> HIDE DEF g
<1>12. Chain(g, n - 1, hd, L \ {b}, pre2, nxt2)
  BY <1>7, <1>8, <1>10, <1>11 DEF Chain
<1> QED BY <1>4, <1>6, <1>12 DEF IsList

\* The head leaves the list (Free).
LEMMA ChainRemoveHead ==
    ASSUME NEW L \in SUBSET Blocks, NEW pre, NEW nxt, NEW hd,
           IsList(hd, L, pre, nxt), NEW b \in L, pre[b] = NULL,
           L # {b},
           NEW pre2, \A c \in L : pre2[c] = IF c = nxt[b] THEN NULL ELSE pre[c]
    PROVE  IsList(nxt[b], L \ {b}, pre2, nxt)
<1> SUFFICES ASSUME NEW n \in Nat, NEW f \in [1 .. n -> L], Chain(f, n, hd, L, pre, nxt)
             PROVE  IsList(nxt[b], L \ {b}, pre2, nxt)
  BY DEF IsList
<1>1. PICK k \in 1 .. n : f[k] = b
  BY DEF Chain
<1>2. /\ n \in Nat /\ \A i \in 1 .. n : f[i] \in L /\ f[i] \in Blocks /\ f[i] # NULL
      /\ \A i, j \in 1 .. n : f[i] = f[j] => i = j
  BY PoolAssumption DEF Chain, PoolAssumption
<1>3. k = 1
  <2>1. k # 1 => k - 1 \in 1 .. n /\ pre[b] = f[k - 1]
    BY <1>1 DEF Chain
  <2> QED BY <2>1, <1>2
<1>5. PICK c \in L : c # b
  OBVIOUS
<1>6. PICK l \in 1 .. n : f[l] = c
  BY DEF Chain
<1>7. l # 1 /\ n > 1 /\ n - 1 \in Nat \ {0} /\ 2 \in 1 .. n
  BY <1>1, <1>2, <1>3, <1>5, <1>6
<1>8. nxt[b] = f[2] /\ f[2] # b
  BY <1>1, <1>2, <1>3, <1>7 DEF Chain
<1> DEFINE g == [i \in 1 .. n - 1 |-> f[i + 1]]
<1>9. ASSUME NEW i \in 1 .. n - 1 PROVE i + 1 \in 1 .. n /\ g[i] = f[i + 1] /\ f[i + 1] \in L \ {b}
  <2>1. i + 1 \in 1 .. n /\ i + 1 # 1 /\ 1 \in 1 .. n
    BY <1>2
  <2> QED BY <2>1, <1>1, <1>2, <1>3
<1>10. g \in [1 .. n - 1 -> L \ {b}]
  BY <1>9
<1>11. ASSUME NEW e \in L \ {b}
       PROVE  \E i \in 1 .. n - 1 : g[i] = e
  <2>1. PICK i \in 1 .. n : f[i] = e
    BY DEF Chain
  <2>2. i - 1 \in 1 .. n - 1 /\ (i - 1) + 1 = i
    BY <2>1, <1>1, <1>2, <1>3
  <2>3. g[i - 1] = e
    BY <2>1, <2>2
  <2> QED BY <2>2, <2>3
<1>12. ASSUME NEW i \in 1 .. n - 1, NEW j \in 1 .. n - 1, g[i] = g[j]
       PROVE  i = j
  <2>1. i + 1 = j + 1
    BY <1>2, <1>9, <1>12
  <2> QED BY <2>1
<1>13. ASSUME NEW i \in 1 .. n - 1
       PROVE  /\ nxt[g[i]] = IF i = n - 1 THEN NULL ELSE g[i + 1]
              /\ pre2[g[i]] = IF i = 1 THEN NULL ELSE g[i - 1]
  <2>1. nxt[f[i + 1]] = IF i + 1 = n THEN NULL ELSE f[(i + 1) + 1]
    BY <1>9 DEF Chain
  <2>2. i # n - 1 => g[i + 1] = f[(i + 1) + 1]
    BY <1>2
  <2>3. pre[f[i + 1]] = f[i]
    <3>1. i + 1 \in 1 .. n /\ i + 1 # 1 /\ (i + 1) - 1 = i
      BY <1>2
    <3> QED BY <3>1 DEF Chain
  <2>4. i # 1 => g[i - 1] = f[i] /\ f[i + 1] # f[2]
    <3>1. i # 1 => i - 1 \in 1 .. n - 1 /\ (i - 1) + 1 = i /\ i + 1 # 2
      BY <1>2
    <3> QED BY <3>1, <1>2, <1>7, <1>9
  <2>5. i = 1 => pre2[g[i]] = NULL
    BY <1>2, <1>7, <1>8, <1>9
  <2>6. i # 1 => pre2[g[i]] = pre[g[i]]
    BY <2>4, <1>8, <1>9
  <2> QED BY <2>1, <2>2, <2>3, <2>4, <2>5, <2>6, <1>2, <1>9
<1>14. nxt[b] = IF n - 1 = 0 THEN NULL ELSE g[1]
  BY <1>7, <1>8
<1> HIDE DEF g
<1>15. Chain(g, n - 1, nxt[b], L \ {b}, pre2, nxt)
  BY <1>11, <1>12, <1>13, <1>14 DEF Chain
<1> QED BY <1>7, <1>10, <1>15 DEF IsList

(***************************************************************************)
(* A walk along _pNext (FreeAll, dispose) misses no block.  Induction      *)
(* along the list uses the least number of a set.                          *)
(***************************************************************************)

\* Every non-empty set of naturals has a least element.
LEMMA LeastNat ==
    ASSUME NEW T, T \subseteq Nat, T # {}
    PROVE  \E x \in T : \A y \in T : x <= y
<1>1. PICK x \in T : \A y \in T : ~ (<<y, x>> \in OpToRel(<, Nat))
  BY NatLessThanWellFounded, WFMin
<1>2. ASSUME NEW y \in T PROVE x <= y
  <2>1. <<y, x>> \notin OpToRel(<, Nat)
    BY <1>1
  <2>2. <<y, x>> \in Nat \X Nat /\ y \in Nat /\ x \in Nat
    OBVIOUS
  <2>3. ~(y < x)
    BY <2>1, <2>2 DEF OpToRel
  <2> QED BY <2>3, <2>2
<1> QED BY <1>2

\* A set that holds the head and is closed under _pNext holds every block of
\* the list.
LEMMA ChainReach ==
    ASSUME NEW L \in SUBSET Blocks, NEW pre, NEW nxt, NEW hd, IsList(hd, L, pre, nxt),
           NEW S \in SUBSET Blocks, hd \in S, \A c \in S : nxt[c] \in S \cup {NULL}
    PROVE  L \subseteq S
<1> SUFFICES ASSUME NEW n \in Nat, NEW f \in [1 .. n -> L], Chain(f, n, hd, L, pre, nxt)
             PROVE  L \subseteq S
  BY DEF IsList
<1> DEFINE T == {i \in 1 .. n : f[i] \notin S}
<1>1. T = {}
  <2> SUFFICES ASSUME T # {} PROVE FALSE
    OBVIOUS
  <2>1. T \subseteq Nat
    OBVIOUS
  <2>2. PICK x \in T : \A y \in T : x <= y
    <3> HIDE DEF T
    <3> QED BY <2>1, LeastNat
  <2>3. x \in 1 .. n /\ f[x] \notin S /\ n # 0
    OBVIOUS
  <2>4. x # 1
    BY <2>3 DEF Chain
  <2>5. x - 1 \in 1 .. n /\ x - 1 # n /\ (x - 1) + 1 = x /\ ~(x <= x - 1)
    BY <2>3, <2>4
  <2>6. f[x - 1] \in S
    BY <2>2, <2>5
  <2>7. nxt[f[x - 1]] = f[x]
    BY <2>5 DEF Chain
  <2>8. f[x] # NULL
    BY <2>3, PoolAssumption DEF PoolAssumption
  <2> QED BY <2>3, <2>6, <2>7, <2>8
<1>2. ASSUME NEW c \in L PROVE c \in S
  <2>1. PICK i \in 1 .. n : f[i] = c
    BY DEF Chain
  <2> QED BY <2>1, <1>1
<1> QED BY <1>2

(***************************************************************************)
(* The inductive invariant.  The free lists need the block list (Alloc     *)
(* reads the head, which must be a live block) and the block list needs    *)
(* the free lists (Free deletes a block whose count says that no unit of   *)
(* it is held), so that all conjuncts go together.                         *)
(***************************************************************************)

ListInv == IsList(pBlock, live, pPre, pNext)

Inv == TypeOK /\ FreeListOK /\ ListInv /\ HeldBlocksLive

\* The addresses are pairs of a block and one of its units.
LEMMA AddressesAreUnits ==
    /\ \A b \in Blocks : \A w \in Units(b) : <<b, w>> \in Addresses
    /\ \A p \in Addresses : p[1] \in Blocks /\ p[2] \in Units(p[1]) /\ p = <<p[1], p[2]>>
<1>1. ASSUME NEW b \in Blocks, NEW w \in Units(b) PROVE <<b, w>> \in Addresses
  <2>1. <<b, w>> \in {b} \X Units(b)
    OBVIOUS
  <2> QED BY <2>1 DEF Addresses
<1>2. ASSUME NEW p \in Addresses
      PROVE  p[1] \in Blocks /\ p[2] \in Units(p[1]) /\ p = <<p[1], p[2]>>
  <2>1. PICK b \in Blocks : p \in {b} \X Units(b)
    BY DEF Addresses
  <2> QED BY <2>1
<1> QED BY <1>1, <1>2

\* While the pool exists its head is one of its blocks.
LEMMA HeadLive ==
    ASSUME Inv, pBlock # NULL
    PROVE  pBlock \in live /\ pBlock \in Blocks
<1>0. PICK n \in Nat : \E f \in [1 .. n -> live] : Chain(f, n, pBlock, live, pPre, pNext)
  BY DEF Inv, ListInv, IsList
<1>1. PICK f \in [1 .. n -> live] : Chain(f, n, pBlock, live, pPre, pNext)
  BY <1>0
<1>2. n # 0 /\ pBlock = f[1]
  BY <1>1 DEF Chain
<1>3. pBlock \in live
  BY <1>2
<1> QED BY <1>3 DEF Inv, TypeOK

\* FreeAll and dispose reach every live block.
LEMMA LiveListed ==
    ASSUME Inv, pBlock # NULL
    PROVE  live \subseteq Listed
<1>1. IsList(pBlock, live, pPre, pNext)
  BY DEF Inv, ListInv
<1>2. live \in SUBSET Blocks
  BY DEF Inv, TypeOK
<1>3. ASSUME NEW b \in live, NEW S \in SUBSET Blocks,
             pBlock \in S, \A c \in S : pNext[c] \in S \cup {NULL}
      PROVE  b \in S
  <2>1. live \subseteq S
    BY <1>1, <1>2, <1>3, ChainReach
  <2> QED BY <2>1
<1> QED BY <1>2, <1>3 DEF Listed

\* A block whose units are all free counts them all (the converse of AllFree).
LEMMA AllFreeCounted ==
    ASSUME NEW b \in Blocks, NEW m \in MemoryBlock(b), FreeList(m, Units(b))
    PROVE  m.nFree = UnitNum(b)
<1>0. m.nFree \in 0 .. UnitNum(b) /\ m.nFree \in Nat /\ UnitNum(b) \in Nat
  BY UnitNumType DEF MemoryBlock
<1>1. PICK f \in [1 .. m.nFree -> Units(b)] :
        \A x \in Units(b) : \E i \in 1 .. m.nFree : f[i] = x
  BY DEF FreeList
<1>2. Cardinality(Units(b)) = UnitNum(b)
  <2>1. 0 \in Int /\ UnitNum(b) - 1 \in Int
    BY <1>0
  <2>2. Cardinality(0 .. UnitNum(b) - 1)
             = IF 0 > UnitNum(b) - 1 THEN 0 ELSE (UnitNum(b) - 1) - 0 + 1
    BY <2>1, FS_Interval
  <2> QED BY <2>2, <1>0 DEF Units
<1>3. f \in Surjection(1 .. m.nFree, Units(b))
  BY <1>1 DEF Surjection
<1>4. Cardinality(Units(b)) <= m.nFree
  BY <1>0, <1>3, FS_SurjCardinalityBound DEF ExistsSurjection
<1> QED BY <1>0, <1>2, <1>4

(***************************************************************************)
(* Steps.                                                                  *)
(***************************************************************************)

\* The initial pool.
LEMMA InitInv == Init => Inv
<1> SUFFICES ASSUME Init PROVE Inv
  OBVIOUS
<1> USE DEF Init
<1>1. InitBlock \in Blocks /\ InitBlock # NULL
  BY PoolAssumption DEF PoolAssumption
<1>2. TypeOK
  <2>1. \A b \in Blocks : mem[b] \in MemoryBlock(b)
    BY ResetType
  <2> QED BY <1>1, <2>1 DEF TypeOK
<1>3. FreeListOK
  <2> SUFFICES FreeList(mem[InitBlock], FreeUnits(InitBlock))
    BY DEF FreeListOK
  <2>1. mem[InitBlock] = reset(InitBlock) /\ FreeUnits(InitBlock) = Units(InitBlock)
    BY <1>1 DEF FreeUnits
  <2> QED BY <2>1, <1>1, ResetFreeList
<1>4. ListInv
  <2> DEFINE f == [i \in 1 .. 1 |-> InitBlock]
  <2>1. f \in [1 .. 1 -> live] /\ Chain(f, 1, pBlock, live, pPre, pNext)
    BY <1>1 DEF Chain
  <2> QED BY <2>1 DEF ListInv, IsList
<1>5. HeldBlocksLive
  BY <1>1 DEF HeldBlocksLive
<1> QED BY <1>2, <1>3, <1>4, <1>5 DEF Inv

\* Alloc takes a unit nobody holds.
LEMMA AllocFromHeadFree ==
    ASSUME Inv, AllocFromHead
    PROVE  /\ mem[pBlock].nFirst \in FreeUnits(pBlock)
           /\ popUnit(mem[pBlock]) \in MemoryBlock(pBlock)
           /\ FreeList(popUnit(mem[pBlock]), FreeUnits(pBlock) \ {mem[pBlock].nFirst})
<1>1. pBlock \in live /\ pBlock \in Blocks
  BY HeadLive DEF AllocFromHead
<1>2. /\ mem[pBlock] \in MemoryBlock(pBlock) /\ mem[pBlock].nFree > 0
      /\ FreeUnits(pBlock) \in SUBSET Units(pBlock)
      /\ FreeList(mem[pBlock], FreeUnits(pBlock))
  BY <1>1 DEF Inv, TypeOK, FreeListOK, FreeUnits, AllocFromHead
<1> QED BY <1>1, <1>2, PopFreeList

LEMMA AllocFromHeadInv == Inv /\ AllocFromHead => Inv'
<1> SUFFICES ASSUME Inv, AllocFromHead PROVE Inv'
  OBVIOUS
<1> DEFINE w == mem[pBlock].nFirst
<1>1. pBlock \in live /\ pBlock \in Blocks /\ mem[pBlock] \in MemoryBlock(pBlock)
  BY HeadLive DEF AllocFromHead, Inv, TypeOK
<1>2. /\ w \in FreeUnits(pBlock) /\ w \in Units(pBlock)
      /\ popUnit(mem[pBlock]) \in MemoryBlock(pBlock)
      /\ FreeList(popUnit(mem[pBlock]), FreeUnits(pBlock) \ {w})
  BY AllocFromHeadFree DEF FreeUnits
<1>3. /\ mem' = [mem EXCEPT ![pBlock] = popUnit(mem[pBlock])]
      /\ inUse' = inUse \cup {<<pBlock, w>>}
      /\ pBlock' = pBlock /\ live' = live /\ pPre' = pPre /\ pNext' = pNext
  BY DEF AllocFromHead, list
<1> HIDE DEF w
<1>4. TypeOK'
  <2>1. \A b \in Blocks : mem'[b] \in MemoryBlock(b)
    BY <1>1, <1>2, <1>3 DEF Inv, TypeOK
  <2>2. inUse' \subseteq Addresses
    BY <1>1, <1>2, <1>3, AddressesAreUnits DEF Inv, TypeOK
  <2> QED BY <1>3, <2>1, <2>2 DEF Inv, TypeOK
<1>5. FreeListOK'
  <2> SUFFICES ASSUME NEW b \in live PROVE FreeList(mem'[b], FreeUnits(b)')
    BY <1>3 DEF FreeListOK
  <2>0. b \in Blocks /\ FreeList(mem[b], FreeUnits(b))
    BY DEF Inv, TypeOK, FreeListOK
  <2>1. CASE b = pBlock
    <3>1. FreeUnits(b)' = FreeUnits(b) \ {w}
      BY <2>1, <1>3 DEF FreeUnits
    <3>2. mem'[b] = popUnit(mem[b])
      BY <2>1, <1>1, <1>3 DEF Inv, TypeOK
    <3> QED BY <3>1, <3>2, <2>1, <1>2
  <2>2. CASE b # pBlock
    <3>1. FreeUnits(b)' = FreeUnits(b) /\ mem'[b] = mem[b]
      BY <2>0, <2>2, <1>3 DEF FreeUnits, Inv, TypeOK
    <3> QED BY <3>1, <2>0
  <2> QED BY <2>1, <2>2
<1>6. ListInv'
  BY <1>3 DEF Inv, ListInv
<1>7. HeldBlocksLive'
  BY <1>1, <1>3 DEF Inv, HeldBlocksLive
<1> QED BY <1>4, <1>5, <1>6, <1>7 DEF Inv

\* A new block goes in front of a full head.
LEMMA AllocGrowInv == Inv /\ AllocGrow => Inv'
<1> SUFFICES ASSUME Inv, AllocGrow PROVE Inv'
  OBVIOUS
<1>0. PICK b \in Blocks \ live :
        /\ live' = live \cup {b}
        /\ pNext' = [pNext EXCEPT ![b] = pBlock]
        /\ pPre' = [pPre EXCEPT ![b] = NULL, ![pBlock] = b]
        /\ pBlock' = b
        /\ mem' = [mem EXCEPT ![b] = popUnit(reset(b))]
        /\ inUse' = inUse \cup {<<b, reset(b).nFirst>>}
  BY DEF AllocGrow
<1>1. pBlock \in live /\ pBlock \in Blocks /\ InitBlock \in live
  BY HeadLive DEF AllocGrow, Inv, HeldBlocksLive
<1>2. /\ reset(b).nFirst = 0 /\ reset(b).nFirst \in Units(b)
      /\ popUnit(reset(b)) \in MemoryBlock(b)
      /\ FreeList(popUnit(reset(b)), Units(b) \ {reset(b).nFirst})
  <2>1. reset(b) \in MemoryBlock(b) /\ FreeList(reset(b), Units(b))
    BY ResetType, ResetFreeList
  <2>2. reset(b).nFree > 0 /\ reset(b).nFirst = 0
    BY UnitNumType DEF reset
  <2> QED BY <2>1, <2>2, PopFreeList
<1>3. TypeOK'
  <2>1. \A c \in Blocks : mem'[c] \in MemoryBlock(c)
    BY <1>0, <1>2 DEF Inv, TypeOK
  <2>2. inUse' \subseteq Addresses
    BY <1>0, <1>2, AddressesAreUnits DEF Inv, TypeOK
  <2>3. DOMAIN mem' = Blocks
    BY <1>0 DEF Inv, TypeOK
  <2>4. /\ pPre' \in [Blocks -> Blocks \cup {NULL}]
        /\ pNext' \in [Blocks -> Blocks \cup {NULL}]
        /\ live' \subseteq Blocks /\ pBlock' \in Blocks \cup {NULL}
    BY <1>0, <1>1 DEF Inv, TypeOK
  <2> QED BY <2>1, <2>2, <2>3, <2>4 DEF TypeOK
<1>4. FreeListOK'
  <2> SUFFICES ASSUME NEW c \in live' PROVE FreeList(mem'[c], FreeUnits(c)')
    BY DEF FreeListOK
  <2>1. CASE c = b
    <3>1. \A p \in inUse : p[1] # b
      BY DEF Inv, HeldBlocksLive
    <3>2. FreeUnits(c)' = Units(b) \ {reset(b).nFirst}
      BY <2>1, <3>1, <1>0 DEF FreeUnits
    <3>3. mem'[c] = popUnit(reset(b))
      BY <2>1, <1>0 DEF Inv, TypeOK
    <3> QED BY <3>2, <3>3, <1>2
  <2>2. CASE c # b
    <3>1. c \in live /\ c \in Blocks
      BY <2>2, <1>0 DEF Inv, TypeOK
    <3>2. FreeUnits(c)' = FreeUnits(c) /\ mem'[c] = mem[c]
      BY <3>1, <2>2, <1>0 DEF FreeUnits, Inv, TypeOK
    <3> QED BY <3>1, <3>2 DEF Inv, FreeListOK
  <2> QED BY <2>1, <2>2
<1>5. ListInv'
  <2>1. /\ live \in SUBSET Blocks /\ pBlock # NULL
        /\ pPre'[b] = NULL /\ pNext'[b] = pBlock
        /\ \A c \in live : pPre'[c] = IF c = pBlock THEN b ELSE pPre[c]
        /\ \A c \in live : pNext'[c] = pNext[c]
    BY <1>0, <1>1 DEF Inv, TypeOK, AllocGrow
  <2>2. IsList(pBlock, live, pPre, pNext)
    BY DEF Inv, ListInv
  <2>3. IsList(b, live \cup {b}, pPre', pNext')
    BY <2>1, <2>2, ChainInsert
  <2> QED BY <2>3, <1>0 DEF ListInv
<1>6. HeldBlocksLive'
  BY <1>0, <1>1 DEF Inv, HeldBlocksLive
<1> QED BY <1>3, <1>4, <1>5, <1>6 DEF Inv

\* What every Free does before it looks at the list.
LEMMA ReturnStep ==
    ASSUME Inv, NEW b \in Blocks, NEW w \in Units(b), Return(b, w)
    PROVE  /\ b \in live
           /\ \A c \in Blocks : mem'[c] \in MemoryBlock(c)
           /\ DOMAIN mem' = Blocks
           /\ inUse' \subseteq inUse
           /\ \A c \in live : FreeList(mem'[c], FreeUnits(c)')
           /\ mem'[b] = Pushed(b, w)
           /\ b # InitBlock /\ ~EmptyGrowBlock(b, w) =>
                 \E x \in Units(b) : <<b, x>> \in inUse'
           /\ EmptyGrowBlock(b, w) => \A p \in inUse' : p[1] # b
<1> DEFINE F == FreeUnits(b)
           m == mem[b]
<1>0. /\ <<b, w>> \in inUse /\ inUse' = inUse \ {<<b, w>>}
      /\ mem' = [mem EXCEPT ![b] = Pushed(b, w)]
      /\ inUse \subseteq Addresses /\ DOMAIN mem = Blocks
      /\ \A c \in Blocks : mem[c] \in MemoryBlock(c)
  BY DEF Return, Inv, TypeOK
<1>1. b \in live
  <2>1. <<b, w>>[1] \in live
    BY <1>0 DEF Inv, HeldBlocksLive
  <2> QED BY <2>1
<1>2. /\ F \in SUBSET Units(b) /\ w \in Units(b) \ F /\ F # Units(b)
      /\ m \in MemoryBlock(b) /\ FreeList(m, F)
  BY <1>0, <1>1 DEF FreeUnits, Inv, FreeListOK
<1>3. m.nFree < UnitNum(b)
  BY <1>2, AllFree
<1>4. /\ Pushed(b, w) \in MemoryBlock(b)
      /\ FreeList(Pushed(b, w), F \cup {w})
  BY <1>2, <1>3, PushFreeList DEF Pushed
<1>5. mem'[b] = Pushed(b, w) /\ FreeUnits(b)' = F \cup {w}
  BY <1>0 DEF FreeUnits
<1>6. ASSUME NEW c \in live PROVE FreeList(mem'[c], FreeUnits(c)')
  <2>1. CASE c = b
    BY <2>1, <1>4, <1>5
  <2>2. CASE c # b
    <3>1. c \in Blocks /\ FreeList(mem[c], FreeUnits(c))
      BY DEF Inv, TypeOK, FreeListOK
    <3>2. mem'[c] = mem[c] /\ FreeUnits(c)' = FreeUnits(c)
      BY <3>1, <2>2, <1>0 DEF FreeUnits
    <3> QED BY <3>1, <3>2
  <2> QED BY <2>1, <2>2
<1>7. \A c \in Blocks : mem'[c] \in MemoryBlock(c)
  BY <1>0, <1>4
<1>8. DOMAIN mem' = Blocks
  BY <1>0
<1>9. ASSUME EmptyGrowBlock(b, w) PROVE \A p \in inUse' : p[1] # b
  <2>0. F \cup {w} \in SUBSET Units(b)
    BY <1>2
  <2>1. F \cup {w} = Units(b)
    <3>1. SUFFICES ASSUME F \cup {w} # Units(b) PROVE FALSE
      OBVIOUS
    <3>2. Pushed(b, w).nFree < UnitNum(b)
      BY <3>1, <2>0, <1>4, AllFree
    <3>3. UnitNum(b) \in Nat
      BY UnitNumType
    <3> QED BY <3>2, <3>3, <1>9 DEF EmptyGrowBlock
  <2>2. ASSUME NEW p \in inUse', p[1] = b PROVE FALSE
    <3>1. p = <<b, p[2]>> /\ p[2] \in Units(b)
      BY <2>2, <1>0, AddressesAreUnits
    <3>2. p[2] \in FreeUnits(b)'
      BY <3>1, <2>1, <1>5
    <3> QED BY <3>1, <3>2, <2>2 DEF FreeUnits
  <2> QED BY <2>2
<1>10. ASSUME b # InitBlock, ~EmptyGrowBlock(b, w)
       PROVE  \E x \in Units(b) : <<b, x>> \in inUse'
  <2> SUFFICES ASSUME \A x \in Units(b) : <<b, x>> \notin inUse' PROVE FALSE
    OBVIOUS
  <2>1. F \cup {w} = Units(b)
    BY <1>2, <1>5 DEF FreeUnits
  <2>2. Pushed(b, w).nFree = UnitNum(b)
    BY <2>1, <1>4, AllFreeCounted
  <2> QED BY <2>2, <1>10 DEF EmptyGrowBlock
<1> HIDE DEF F, m
<1> QED BY <1>0, <1>1, <1>5, <1>6, <1>7, <1>8, <1>9, <1>10

\* Deletion of a block that is not the head.
LEMMA FreeInnerBlockInv ==
    ASSUME Inv, NEW b \in Blocks, NEW w \in Units(b), FreeInnerBlock(b, w)
    PROVE  Inv'
<1>0. /\ Return(b, w) /\ EmptyGrowBlock(b, w) /\ pPre[b] # NULL /\ b # InitBlock
      /\ pNext' = [pNext EXCEPT ![pPre[b]] = pNext[b]]
      /\ pPre' = Unlinked(b, pPre, pNext)
      /\ live' = live \ {b} /\ pBlock' = pBlock
  BY DEF FreeInnerBlock, EmptyGrowBlock
<1>1. /\ live \in SUBSET Blocks /\ b \in live
      /\ pPre \in [Blocks -> Blocks \cup {NULL}]
      /\ pNext \in [Blocks -> Blocks \cup {NULL}]
      /\ pBlock \in Blocks \cup {NULL}
  BY <1>0, ReturnStep DEF Inv, TypeOK
<1>2. ListInv'
  <2>1. /\ \A c \in live : pPre'[c] = IF c = pNext[b] THEN pPre[b] ELSE pPre[c]
        /\ \A c \in live : pNext'[c] = IF c = pPre[b] THEN pNext[b] ELSE pNext[c]
    BY <1>0, <1>1, PoolAssumption DEF Unlinked, PoolAssumption
  <2>2. IsList(pBlock, live, pPre, pNext)
    BY DEF Inv, ListInv
  <2>3. IsList(pBlock, live \ {b}, pPre', pNext')
    <3>1. live \in SUBSET Blocks
      BY <1>1
    <3>2. b \in live
      BY <1>1
    <3>3. pPre[b] # NULL
      BY <1>0
    <3>4. \A c \in live : pPre'[c] = IF c = pNext[b] THEN pPre[b] ELSE pPre[c]
      BY <2>1
    <3>5. \A c \in live : pNext'[c] = IF c = pPre[b] THEN pNext[b] ELSE pNext[c]
      BY <2>1
    <3> QED BY <3>1, <3>2, <3>3, <3>4, <3>5, <2>2, ChainRemoveInner, SMTT(30)
  <2> QED BY <2>3, <1>0 DEF ListInv
<1>3. TypeOK'
  <2>1. inUse' \subseteq Addresses
    BY <1>0, ReturnStep DEF Inv, TypeOK
  <2>2. /\ pPre' \in [Blocks -> Blocks \cup {NULL}]
        /\ pNext' \in [Blocks -> Blocks \cup {NULL}]
    BY <1>0, <1>1 DEF Unlinked
  <2> QED BY <1>0, <1>1, <2>1, <2>2, ReturnStep DEF TypeOK
<1>4. FreeListOK'
  BY <1>0, ReturnStep DEF FreeListOK
<1>5. HeldBlocksLive'
  BY <1>0, ReturnStep DEF Inv, HeldBlocksLive
<1> QED BY <1>2, <1>3, <1>4, <1>5 DEF Inv

\* Deletion of the head: the first block is behind it.
LEMMA FreeHeadBlockInv ==
    ASSUME Inv, NEW b \in Blocks, NEW w \in Units(b), FreeHeadBlock(b, w)
    PROVE  Inv'
<1>0. /\ Return(b, w) /\ EmptyGrowBlock(b, w) /\ pPre[b] = NULL /\ b # InitBlock
      /\ pBlock' = pNext[b]
      /\ pPre' = IF pNext[b] = NULL THEN pPre ELSE [pPre EXCEPT ![pNext[b]] = NULL]
      /\ live' = live \ {b} /\ pNext' = pNext
  BY DEF FreeHeadBlock, EmptyGrowBlock
<1>1. /\ live \in SUBSET Blocks /\ b \in live
      /\ pPre \in [Blocks -> Blocks \cup {NULL}]
      /\ pNext \in [Blocks -> Blocks \cup {NULL}]
  BY <1>0, ReturnStep DEF Inv, TypeOK
<1>3. IsList(pBlock, live, pPre, pNext)
  BY DEF Inv, ListInv
<1>4. InitBlock \in live
  <2>1. pBlock # NULL
    BY <1>1, <1>3, PoolAssumption DEF IsList, Chain, PoolAssumption
  <2> QED BY <2>1 DEF Inv, HeldBlocksLive
<1>5. /\ pNext[b] \in live \ {b}
      /\ IsList(pNext[b], live \ {b}, pPre', pNext)
  <2>1. \A c \in live : pPre'[c] = IF c = pNext[b] THEN NULL ELSE pPre[c]
    BY <1>0, <1>1, PoolAssumption DEF PoolAssumption
  <2>2. live # {b}
    BY <1>0, <1>4
  <2>3. pPre[b] = NULL /\ live \in SUBSET Blocks /\ b \in live
    BY <1>0, <1>1
  <2>4. IsList(pNext[b], live \ {b}, pPre', pNext)
    BY <1>3, <2>1, <2>2, <2>3, ChainRemoveHead
  <2>5. pNext[b] \in live \ {b}
    <3>1. live \ {b} # {} /\ live \ {b} \in SUBSET Blocks
      BY <2>2, <2>3
    <3> QED BY <2>4, <3>1, ChainHead
  <2> QED BY <2>4, <2>5
<1>6. pPre' = [pPre EXCEPT ![pNext[b]] = NULL] /\ pNext[b] \in Blocks
  BY <1>0, <1>1, <1>5, PoolAssumption DEF PoolAssumption
<1>7. ListInv'
  BY <1>0, <1>5, <1>6 DEF ListInv
<1>8. TypeOK'
  <2>1. inUse' \subseteq Addresses
    BY <1>0, ReturnStep DEF Inv, TypeOK
  <2>2. pPre' \in [Blocks -> Blocks \cup {NULL}]
    BY <1>1, <1>6
  <2> QED BY <1>0, <1>1, <1>6, <2>1, <2>2, ReturnStep DEF TypeOK
<1>9. FreeListOK'
  BY <1>0, ReturnStep DEF FreeListOK
<1>10. HeldBlocksLive'
  BY <1>0, <1>4, ReturnStep DEF Inv, HeldBlocksLive
<1> QED BY <1>7, <1>8, <1>9, <1>10 DEF Inv

\* A block with space goes to the front of a full head.
LEMMA FreeMoveInv ==
    ASSUME Inv, NEW b \in Blocks, NEW w \in Units(b), FreeMove(b, w)
    PROVE  Inv'
<1> DEFINE pre2 == Unlinked(b, pPre, pNext)
           nxt2 == [pNext EXCEPT ![pPre[b]] = pNext[b]]
<1>0. /\ Return(b, w) /\ pPre[b] # NULL
      /\ pNext' = [nxt2 EXCEPT ![b] = pBlock]
      /\ pPre' = [pre2 EXCEPT ![b] = NULL, ![pBlock] = b]
      /\ live' = live /\ pBlock' = b
  BY DEF FreeMove, MovesToFront
<1>1. /\ live \in SUBSET Blocks /\ b \in live
      /\ pPre \in [Blocks -> Blocks \cup {NULL}]
      /\ pNext \in [Blocks -> Blocks \cup {NULL}]
  BY <1>0, ReturnStep DEF Inv, TypeOK
<1>3. IsList(pBlock, live, pPre, pNext)
  BY DEF Inv, ListInv
<1>4. pBlock \in live \ {b} /\ IsList(pBlock, live \ {b}, pre2, nxt2)
  <2>1. /\ \A c \in live : pre2[c] = IF c = pNext[b] THEN pPre[b] ELSE pPre[c]
        /\ \A c \in live : nxt2[c] = IF c = pPre[b] THEN pNext[b] ELSE pNext[c]
    BY <1>1, PoolAssumption DEF Unlinked, PoolAssumption
  <2> HIDE DEF pre2, nxt2
  <2>2. pPre[b] # NULL /\ live \in SUBSET Blocks /\ b \in live
    BY <1>0, <1>1
  <2>3. IsList(pBlock, live \ {b}, pre2, nxt2)
    BY <1>3, <2>1, <2>2, ChainRemoveInner
  <2>4. pBlock \in live \ {b}
    <3>1. pBlock \in live /\ pPre[pBlock] = NULL
      BY <1>3, <2>2, ChainHead
    <3> QED BY <2>2, <3>1
  <2> QED BY <2>3, <2>4
<1>6. pre2 \in [Blocks -> Blocks \cup {NULL}] /\ nxt2 \in [Blocks -> Blocks \cup {NULL}]
  BY <1>1 DEF Unlinked
<1> HIDE DEF pre2, nxt2
<1>10. pBlock \in Blocks /\ pBlock # NULL
  BY <1>1, <1>4, PoolAssumption DEF PoolAssumption
<1>9. ListInv'
  <2>1. /\ b \in Blocks \ (live \ {b}) /\ live \ {b} \in SUBSET Blocks
        /\ pPre'[b] = NULL /\ pNext'[b] = pBlock
        /\ \A c \in live \ {b} : pPre'[c] = IF c = pBlock THEN b ELSE pre2[c]
        /\ \A c \in live \ {b} : pNext'[c] = nxt2[c]
    BY <1>0, <1>1, <1>4, <1>6
  <2>2. IsList(b, (live \ {b}) \cup {b}, pPre', pNext')
    BY <1>4, <1>10, <2>1, ChainInsert
  <2>3. (live \ {b}) \cup {b} = live'
    BY <1>0, <1>1
  <2> QED BY <1>0, <2>2, <2>3 DEF ListInv
<1>11. TypeOK'
  <2>1. inUse' \subseteq Addresses
    BY <1>0, ReturnStep DEF Inv, TypeOK
  <2>2. /\ pPre' \in [Blocks -> Blocks \cup {NULL}]
        /\ pNext' \in [Blocks -> Blocks \cup {NULL}]
    BY <1>0, <1>6, <1>10
  <2> QED BY <1>0, <1>1, <2>1, <2>2, ReturnStep DEF TypeOK
<1>12. FreeListOK'
  BY <1>0, ReturnStep DEF FreeListOK
<1>13. HeldBlocksLive'
  BY <1>0, <1>10, ReturnStep DEF Inv, HeldBlocksLive
<1> QED BY <1>9, <1>11, <1>12, <1>13 DEF Inv

\* A unit comes back and the list stays as it is.
LEMMA FreeKeepInv ==
    ASSUME Inv, NEW b \in Blocks, NEW w \in Units(b), FreeKeep(b, w)
    PROVE  Inv'
<1>0. Return(b, w) /\ live' = live /\ pBlock' = pBlock /\ pPre' = pPre /\ pNext' = pNext
  BY DEF FreeKeep, list
<1>1. TypeOK'
  BY <1>0, ReturnStep DEF Inv, TypeOK
<1>2. FreeListOK'
  BY <1>0, ReturnStep DEF FreeListOK
<1>3. ListInv'
  BY <1>0 DEF Inv, ListInv
<1>4. HeldBlocksLive'
  BY <1>0, ReturnStep DEF Inv, HeldBlocksLive
<1> QED BY <1>1, <1>2, <1>3, <1>4 DEF Inv

\* All units of all blocks come back.
LEMMA FreeAllInv == Inv /\ FreeAll => Inv'
<1> SUFFICES ASSUME Inv, FreeAll PROVE Inv'
  OBVIOUS
<1>0. /\ mem' = [b \in Blocks |-> IF b \in Listed THEN reset(b) ELSE mem[b]]
      /\ inUse' = {} /\ live' = live /\ pBlock' = pBlock /\ pPre' = pPre /\ pNext' = pNext
      /\ live \subseteq Listed
  BY LiveListed DEF FreeAll, list
<1>1. TypeOK'
  <2>1. \A b \in Blocks : mem'[b] \in MemoryBlock(b)
    BY <1>0, ResetType DEF Inv, TypeOK
  <2> QED BY <1>0, <2>1 DEF Inv, TypeOK
<1>2. FreeListOK'
  <2> SUFFICES ASSUME NEW b \in live PROVE FreeList(mem'[b], FreeUnits(b)')
    BY <1>0 DEF FreeListOK
  <2>1. b \in Blocks /\ FreeUnits(b)' = Units(b)
    BY <1>0 DEF FreeUnits, Inv, TypeOK
  <2>2. mem'[b] = reset(b)
    BY <2>1, <1>0
  <2> QED BY <2>1, <2>2, ResetFreeList
<1>3. ListInv'
  BY <1>0 DEF Inv, ListInv
<1>4. HeldBlocksLive'
  BY <1>0 DEF Inv, HeldBlocksLive
<1> QED BY <1>1, <1>2, <1>3, <1>4 DEF Inv

\* The destructor leaves nothing behind.
LEMMA DisposeInv == Inv /\ dispose => Inv'
<1> SUFFICES ASSUME Inv, dispose PROVE Inv'
  OBVIOUS
<1>0. /\ live' = {} /\ pBlock' = NULL /\ inUse' = {}
      /\ pPre' = pPre /\ pNext' = pNext /\ mem' = mem
  BY LiveListed DEF dispose
<1>1. TypeOK'
  BY <1>0 DEF Inv, TypeOK
<1>2. FreeListOK'
  BY <1>0 DEF FreeListOK
<1>3. ListInv'
  <2> DEFINE f == [i \in 1 .. 0 |-> NULL]
  <2>1. f \in [1 .. 0 -> live'] /\ Chain(f, 0, pBlock', live', pPre', pNext')
    BY <1>0 DEF Chain
  <2> QED BY <2>1 DEF ListInv, IsList
<1>4. HeldBlocksLive'
  BY <1>0 DEF HeldBlocksLive
<1> QED BY <1>1, <1>2, <1>3, <1>4 DEF Inv

\* Callers may put anything into the units they hold.
LEMMA WriteInv ==
    ASSUME Inv, NEW b \in Blocks, NEW w \in Units(b), Write(b, w)
    PROVE  Inv'
<1>0. PICK v \in Payload : mem' = [mem EXCEPT ![b].link[w] = v]
  BY DEF Write
<1>1. /\ v \in USHORT /\ <<b, w>> \in inUse /\ inUse' = inUse
      /\ live' = live /\ pBlock' = pBlock /\ pPre' = pPre /\ pNext' = pNext
  BY PoolAssumption DEF PoolAssumption, Write, list
<1>2. b \in live
  <2>1. <<b, w>>[1] \in live
    BY <1>1 DEF Inv, HeldBlocksLive
  <2> QED BY <2>1
<1>3. /\ mem'[b] \in MemoryBlock(b) /\ FreeList(mem'[b], FreeUnits(b))
      /\ \A c \in Blocks \ {b} : mem'[c] = mem[c]
      /\ DOMAIN mem' = Blocks
  <2>1. /\ mem[b] \in MemoryBlock(b) /\ FreeList(mem[b], FreeUnits(b))
        /\ FreeUnits(b) \in SUBSET Units(b) /\ w \in Units(b) \ FreeUnits(b)
    BY <1>1, <1>2 DEF Inv, TypeOK, FreeListOK, FreeUnits
  <2>2. mem'[b] = [mem[b] EXCEPT !.link[w] = v]
    BY <1>0 DEF Inv, TypeOK
  <2> QED BY <1>0, <1>1, <2>1, <2>2, WriteFreeList DEF Inv, TypeOK
<1>4. TypeOK'
  BY <1>1, <1>3 DEF Inv, TypeOK
<1>5. FreeListOK'
  <2> SUFFICES ASSUME NEW c \in live PROVE FreeList(mem'[c], FreeUnits(c)')
    BY <1>1 DEF FreeListOK
  <2>1. c \in Blocks /\ FreeList(mem[c], FreeUnits(c)) /\ FreeUnits(c)' = FreeUnits(c)
    BY <1>1 DEF Inv, TypeOK, FreeListOK, FreeUnits
  <2> QED BY <1>3, <2>1
<1>6. ListInv'
  BY <1>1 DEF Inv, ListInv
<1>7. HeldBlocksLive'
  BY <1>1 DEF Inv, HeldBlocksLive
<1> QED BY <1>4, <1>5, <1>6, <1>7 DEF Inv

\* Every step keeps the invariant.
LEMMA NextInv == Inv /\ [Next]_vars => Inv'
<1> SUFFICES ASSUME Inv, [Next]_vars PROVE Inv'
  OBVIOUS
<1>1. CASE AllocFromHead
  BY <1>1, AllocFromHeadInv
<1>2. CASE AllocGrow
  BY <1>2, AllocGrowInv
<1>3. ASSUME NEW b \in Blocks, NEW w \in Units(b), Free(b, w) PROVE Inv'
  BY <1>3, FreeInnerBlockInv, FreeHeadBlockInv, FreeMoveInv, FreeKeepInv DEF Free
<1>4. ASSUME NEW b \in Blocks, NEW w \in Units(b), Write(b, w) PROVE Inv'
  BY <1>4, WriteInv
<1>5. CASE FreeAll
  BY <1>5, FreeAllInv
<1>6. CASE dispose
  BY <1>6, DisposeInv
<1>7. CASE UNCHANGED vars
  BY <1>7 DEF vars, Inv, TypeOK, FreeListOK, FreeUnits, ListInv, HeldBlocksLive
<1> QED BY <1>1, <1>2, <1>3, <1>4, <1>5, <1>6, <1>7 DEF Next

\* The list invariant in the form the runs check: the list is as long as
\* there are live blocks.
LEMMA ListInvOK == Inv => BlockListOK
<1> SUFFICES ASSUME Inv PROVE BlockListOK
  OBVIOUS
<1>1. PICK n \in Nat : \E f \in [1 .. n -> live] : Chain(f, n, pBlock, live, pPre, pNext)
  BY DEF Inv, ListInv, IsList
<1>2. PICK f \in [1 .. n -> live] : Chain(f, n, pBlock, live, pPre, pNext)
  BY <1>1
<1>3. f \in Bijection(1 .. n, live)
  BY <1>2 DEF Chain, Bijection, Injection, IsInjective, Surjection
<1>4. Cardinality(live) = n
  BY <1>3, FS_CountingElements DEF ExistsBijection
<1> QED BY <1>2, <1>4 DEF BlockListOK

(***************************************************************************)
(* Theorems.                                                               *)
(***************************************************************************)

\* The invariant holds of every execution of the pool.
THEOREM PoolInvariant == Spec => []Inv
<1>1. Init => Inv
  BY InitInv
<1>2. Inv /\ [Next]_vars => Inv'
  BY NextInv
<1> QED BY <1>1, <1>2, PTL DEF Spec

\* Every field keeps its type: no USHORT of a block leaves its range.
THEOREM PoolTypeOK == Spec => []TypeOK
<1>1. Inv => TypeOK
  BY DEF Inv
<1> QED BY <1>1, PoolInvariant, PTL

\* The free list of every live block holds exactly the units no caller holds,
\* whatever the callers write into theirs.
THEOREM PoolFreeLists == Spec => []FreeListOK
<1>1. Inv => FreeListOK
  BY DEF Inv
<1> QED BY <1>1, PoolInvariant, PTL

\* The block list is a doubly linked list of exactly the live blocks.
THEOREM PoolBlockList == Spec => []BlockListOK
<1> QED BY ListInvOK, PoolInvariant, PTL

\* Free deletes no block with a unit in use.
THEOREM PoolHeldBlocksLive == Spec => []HeldBlocksLive
<1>1. Inv => HeldBlocksLive
  BY DEF Inv
<1> QED BY <1>1, PoolInvariant, PTL

\* A step of the pool is a step of an allocator.
LEMMA NextRefines == Inv /\ [Next]_vars => [Abstract!Next]_inUse
<1> SUFFICES ASSUME Inv, [Next]_vars PROVE [Abstract!Next]_inUse
  OBVIOUS
<1>1. CASE AllocFromHead
  <2> DEFINE w == mem[pBlock].nFirst
  <2>1. w \in FreeUnits(pBlock) /\ pBlock \in Blocks
    BY <1>1, AllocFromHeadFree, HeadLive DEF AllocFromHead
  <2>2. <<pBlock, w>> \in Addresses \ inUse
    BY <2>1, AddressesAreUnits DEF FreeUnits
  <2>3. inUse' = inUse \cup {<<pBlock, w>>}
    BY <1>1 DEF AllocFromHead
  <2> QED BY <2>2, <2>3 DEF Abstract!Next, Abstract!Alloc
<1>2. CASE AllocGrow
  <2>1. PICK b \in Blocks \ live : inUse' = inUse \cup {<<b, reset(b).nFirst>>}
    BY <1>2 DEF AllocGrow
  <2>2. reset(b).nFirst = 0 /\ 0 \in Units(b)
    BY UnitNumType DEF reset, Units
  <2>3. <<b, 0>> \notin inUse
    <3>1. \A p \in inUse : p[1] # b
      BY DEF Inv, HeldBlocksLive
    <3>2. <<b, 0>>[1] = b
      OBVIOUS
    <3> QED BY <3>1, <3>2
  <2>4. <<b, 0>> \in Addresses \ inUse
    BY <2>2, <2>3, AddressesAreUnits
  <2> QED BY <2>1, <2>2, <2>4 DEF Abstract!Next, Abstract!Alloc
<1>3. ASSUME NEW b \in Blocks, NEW w \in Units(b), Free(b, w)
      PROVE  [Abstract!Next]_inUse
  <2>1. <<b, w>> \in inUse /\ inUse' = inUse \ {<<b, w>>}
    BY <1>3 DEF Free, FreeInnerBlock, FreeHeadBlock, FreeMove, FreeKeep, Return
  <2> QED BY <2>1 DEF Abstract!Next, Abstract!Free
<1>4. ASSUME NEW b \in Blocks, NEW w \in Units(b), Write(b, w)
      PROVE  [Abstract!Next]_inUse
  BY <1>4 DEF Write
<1>5. CASE FreeAll
  BY <1>5 DEF FreeAll, Abstract!Next, Abstract!FreeAll
<1>6. CASE dispose
  BY <1>6 DEF dispose, Abstract!Next, Abstract!FreeAll
<1>7. CASE UNCHANGED vars
  BY <1>7 DEF vars
<1> QED BY <1>1, <1>2, <1>3, <1>4, <1>5, <1>6, <1>7 DEF Next

\* The pool implements the allocator: no address is handed out twice.
THEOREM PoolImplementsAllocator == Spec => ImplementsAllocator
<1>1. Init => Abstract!Init
  BY DEF Init, Abstract!Init
<1>2. Inv /\ [Next]_vars => [Abstract!Next]_inUse
  BY NextRefines
<1> QED BY <1>1, <1>2, PoolInvariant, PTL DEF Spec, ImplementsAllocator, Abstract!Spec

\* A step of a pool whose user never calls FreeAll leaves no grown block idle.
LEMMA NextNoIdle ==
    Inv /\ NoIdleGrowBlock /\ [Next]_vars => NoIdleGrowBlock'
<1> SUFFICES ASSUME Inv, NoIdleGrowBlock, [Next]_vars, freedAll' = FALSE
             PROVE  NoIdleGrowBlock'
  BY DEF NoIdleGrowBlock
<1>0. freedAll = FALSE
  BY DEF Next, vars, list, AllocFromHead, AllocGrow, Free, FreeInnerBlock, FreeHeadBlock,
         FreeMove, FreeKeep, FreeAll, Write, dispose
<1> USE <1>0 DEF NoIdleGrowBlock
<1>1. CASE AllocFromHead
  <2>1. live' = live /\ inUse \subseteq inUse'
    BY <1>1 DEF AllocFromHead, list
  <2> QED BY <2>1
<1>2. CASE AllocGrow
  <2>1. PICK b \in Blocks \ live :
          live' = live \cup {b} /\ inUse' = inUse \cup {<<b, reset(b).nFirst>>}
    BY <1>2 DEF AllocGrow
  <2>2. reset(b).nFirst \in Units(b)
    BY UnitNumType DEF reset, Units
  <2> QED BY <2>1, <2>2
<1>3. ASSUME NEW b \in Blocks, NEW w \in Units(b), Free(b, w)
      PROVE  NoIdleGrowBlock'
  <2>1. Return(b, w) /\ inUse' = inUse \ {<<b, w>>}
    BY <1>3 DEF Free, FreeInnerBlock, FreeHeadBlock, FreeMove, FreeKeep, Return
  <2>2. IF EmptyGrowBlock(b, w) THEN live' = live \ {b} ELSE live' = live
    BY <1>3 DEF Free, FreeInnerBlock, FreeHeadBlock, FreeMove, FreeKeep, list
  <2>3. b # InitBlock /\ ~EmptyGrowBlock(b, w) => \E x \in Units(b) : <<b, x>> \in inUse'
    BY <2>1, ReturnStep
  <2>4. ASSUME NEW c \in live' \ {InitBlock}
        PROVE  \E x \in Units(c) : <<c, x>> \in inUse'
    <3>1. CASE c = b
      BY <3>1, <2>2, <2>3, <2>4
    <3>2. CASE c # b
      <4>1. PICK x \in Units(c) : <<c, x>> \in inUse
        BY <2>2, <2>4
      <4>2. <<c, x>> # <<b, w>>
        BY <3>2
      <4> QED BY <4>1, <4>2, <2>1
    <3> QED BY <3>1, <3>2
  <2> QED BY <2>4 DEF Units, UnitNum
<1>4. ASSUME NEW b \in Blocks, NEW w \in Units(b), Write(b, w)
      PROVE  NoIdleGrowBlock'
  BY <1>4 DEF Write, list
<1>5. CASE FreeAll
  BY <1>5 DEF FreeAll
<1>6. CASE dispose
  <2>1. live' = {}
    BY <1>6, LiveListed DEF dispose
  <2> QED BY <2>1
<1>7. CASE UNCHANGED vars
  BY <1>7 DEF vars
<1> QED BY <1>1, <1>2, <1>3, <1>4, <1>5, <1>6, <1>7 DEF Next

\* Without FreeAll the pool holds no more blocks than it needs.
THEOREM PoolNoIdleGrowBlock == Spec => []NoIdleGrowBlock
<1>1. Init => NoIdleGrowBlock
  BY DEF Init, NoIdleGrowBlock
<1>2. Inv /\ NoIdleGrowBlock /\ [Next]_vars => NoIdleGrowBlock'
  BY NextNoIdle
<1> QED BY <1>1, <1>2, PoolInvariant, PTL DEF Spec

(***************************************************************************)
(* VarMemPool.                                                             *)
(*                                                                         *)
(* The argument: the search keeps a pool that is too small at one end and  *)
(* one that is large enough at the other, so where it ends is the only     *)
(* pool that fits best, and Free finds the pool that Alloc found.          *)
(***************************************************************************)

\* The ends of a search enclose the pool that fits best.
SearchOK ==
    op # "none" => /\ d < u /\ unitSize[d] < size /\ size <= unitSize[u]
                   /\ op = "Alloc" => size \in Sizes
                   /\ op = "Free" => \E h \in held : arg = {h} /\ size = h.size

\* A unit has one holder.
HeldOnce == \A g, h \in held : g.pool = h.pool /\ g.unit = h.unit => g = h

VarInv == VarTypeOK /\ BestFit /\ InUseIsHeld /\ SearchOK /\ HeldOnce

------------------------------------------------------------------------------

LEMMA PoolFacts ==
    ASSUME VarPoolAssumption
    PROVE  /\ POOL_NUM \in Nat /\ POOL_NUM >= 2
           /\ 0 \in Pools /\ POOL_NUM - 1 \in Pools
           /\ \A i \in Pools : i \in Nat /\ i < POOL_NUM /\ unitSize[i] \in Nat /\ i # System
           /\ System \in Pools \cup {System}
           /\ \A i, j \in Pools : unitSize[i] < unitSize[j] => i < j
           /\ \A i \in Pools : unitSize[i] <= Largest
           /\ Sizes \subseteq Nat
<1>1. POOL_NUM \in Nat /\ POOL_NUM >= 2 /\ unitSize \in [Pools -> Nat] /\ Sizes \subseteq Nat
  BY DEF VarPoolAssumption
<1>2. \A i \in Pools : i \in Nat /\ i < POOL_NUM /\ unitSize[i] \in Nat /\ i # System
  BY <1>1 DEF Pools, System
<1>3. 0 \in Pools /\ POOL_NUM - 1 \in Pools
  BY <1>1 DEF Pools
<1>4. ASSUME NEW i \in Pools, NEW j \in Pools, unitSize[i] < unitSize[j] PROVE i < j
  <2>1. \A k, l \in Pools : k < l => unitSize[k] < unitSize[l]
    BY DEF VarPoolAssumption
  <2> QED BY <1>2, <1>4, <2>1
<1>5. ASSUME NEW i \in Pools PROVE unitSize[i] <= Largest
  <2>1. \A k, l \in Pools : k < l => unitSize[k] < unitSize[l]
    BY DEF VarPoolAssumption
  <2>2. i = POOL_NUM - 1 \/ i < POOL_NUM - 1
    BY <1>1, <1>2
  <2> QED BY <1>2, <1>3, <2>1, <2>2 DEF Largest
<1> QED BY <1>1, <1>2, <1>3, <1>4, <1>5

\* Two pools that fit best are one.
LEMMA BestIsOne ==
    ASSUME VarPoolAssumption, NEW i \in Pools, NEW n \in Nat, NEW j \in Pools,
           n <= unitSize[i], \A k \in Pools : k < i => unitSize[k] < n,
           n <= unitSize[j], \A k \in Pools : k < j => unitSize[k] < n
    PROVE  i = j
<1>1. ~(i < j) /\ ~(j < i)
  BY PoolFacts
<1> QED BY <1>1, PoolFacts

LEMMA VarInitInv == ASSUME VarPoolAssumption, VarInit PROVE VarInv
<1>1. VarTypeOK
  BY PoolFacts DEF VarInit, VarTypeOK
<1>2. BestFit /\ InUseIsHeld /\ SearchOK /\ HeldOnce
  BY DEF VarInit, BestFit, InUseIsHeld, SearchOK, HeldOnce
<1> QED BY <1>1, <1>2 DEF VarInv

------------------------------------------------------------------------------
(* What a pool does keeps the invariant, when it is the right pool.        *)

LEMMA TakeInv ==
    ASSUME VarPoolAssumption, VarInv, NEW i \in Pools \cup {System}, NEW n \in Sizes, Take(i, n),
           IF i = System THEN n > Largest
           ELSE n <= unitSize[i] /\ \A j \in Pools : j < i => unitSize[j] < n
    PROVE  VarInv'
<1>1. PICK a \in PoolUnits \ used[i] :
         /\ used' = [used EXCEPT ![i] = @ \cup {a}]
         /\ held' = held \cup {[pool |-> i, unit |-> a, size |-> n]}
  BY DEF Take
<1> DEFINE new == [pool |-> i, unit |-> a, size |-> n]
<1>2. op' = "none" /\ arg' = {} /\ size' = 0 /\ d' = 0 /\ u' = 0
  BY DEF Take, EndCall
<1>3. VarTypeOK /\ BestFit /\ InUseIsHeld /\ HeldOnce
  BY DEF VarInv
<1>4. new \in Holding /\ new.pool = i /\ new.unit = a /\ new.size = n
  BY DEF Holding
<1>5. /\ \A j \in Pools \cup {System} : j # i => used'[j] = used[j]
      /\ used'[i] = used[i] \cup {a}
      /\ held' = held \cup {new}
  BY <1>1, <1>3 DEF VarTypeOK
<1> HIDE DEF new
<1>6. VarTypeOK'
  <2>1. used' \in [Pools \cup {System} -> SUBSET PoolUnits]
    BY <1>1, <1>3 DEF VarTypeOK
  <2>2. held' \subseteq Holding
    BY <1>3, <1>4, <1>5 DEF VarTypeOK
  <2> QED BY <1>2, <2>1, <2>2, PoolFacts DEF VarTypeOK
<1>7. BestFit'
  BY <1>3, <1>4, <1>5 DEF BestFit
<1>8. InUseIsHeld'
  <2>1. ASSUME NEW j \in Pools \cup {System}
        PROVE  used'[j] = {h.unit : h \in {g \in held' : g.pool = j}}
    <3>1. used[j] = {h.unit : h \in {g \in held : g.pool = j}}
      BY <1>3 DEF InUseIsHeld
    <3>2. CASE j = i
      BY <1>4, <1>5, <3>1, <3>2
    <3>3. CASE j # i
      <4>1. {g \in held' : g.pool = j} = {g \in held : g.pool = j}
        BY <1>4, <1>5, <3>3
      <4> QED BY <1>5, <3>1, <3>3, <4>1
    <3> QED BY <3>2, <3>3
  <2> QED BY <2>1 DEF InUseIsHeld
<1>9. SearchOK'
  BY <1>2 DEF SearchOK
<1>10. HeldOnce'
  <2>1. ASSUME NEW g \in held, g.pool = i PROVE g.unit # a
    BY <1>1, <1>3, <2>1 DEF InUseIsHeld
  <2> QED BY <1>3, <1>4, <1>5, <2>1 DEF HeldOnce
<1> QED BY <1>6, <1>7, <1>8, <1>9, <1>10 DEF VarInv

LEMMA GiveBackInv ==
    ASSUME VarPoolAssumption, VarInv, NEW h \in held, GiveBack(h.pool, h)
    PROVE  VarInv'
<1> DEFINE i == h.pool
<1>1. VarTypeOK /\ BestFit /\ InUseIsHeld /\ HeldOnce
  BY DEF VarInv
<1>2. /\ used' = [used EXCEPT ![i] = @ \ {h.unit}] /\ held' = held \ {h}
      /\ op' = "none" /\ arg' = {} /\ size' = 0 /\ d' = 0 /\ u' = 0
  BY DEF GiveBack, EndCall
<1>3. i \in Pools \cup {System}
  BY <1>1 DEF VarTypeOK, Holding
<1>4. /\ \A j \in Pools \cup {System} : j # i => used'[j] = used[j]
      /\ used'[i] = used[i] \ {h.unit}
  BY <1>1, <1>2, <1>3 DEF VarTypeOK
<1>5. VarTypeOK'
  <2>1. used' \in [Pools \cup {System} -> SUBSET PoolUnits]
    BY <1>1, <1>2, <1>3 DEF VarTypeOK
  <2> QED BY <1>1, <1>2, <2>1, PoolFacts DEF VarTypeOK
<1>6. BestFit'
  BY <1>1, <1>2 DEF BestFit
<1>7. InUseIsHeld'
  <2>1. ASSUME NEW j \in Pools \cup {System}
        PROVE  used'[j] = {g.unit : g \in {f \in held' : f.pool = j}}
    <3>1. used[j] = {g.unit : g \in {f \in held : f.pool = j}}
      BY <1>1 DEF InUseIsHeld
    <3>2. CASE j = i
      <4>1. ASSUME NEW g \in held, g.pool = i PROVE g # h <=> g.unit # h.unit
        BY <1>1, <4>1 DEF HeldOnce
      <4>2. {f \in held' : f.pool = i} = {f \in held : f.pool = i} \ {h}
        BY <1>2
      <4> QED BY <1>4, <3>1, <3>2, <4>1, <4>2
    <3>3. CASE j # i
      <4>1. {f \in held' : f.pool = j} = {f \in held : f.pool = j}
        BY <1>2, <3>3
      <4> QED BY <1>4, <3>1, <3>3, <4>1
    <3> QED BY <3>2, <3>3
  <2> QED BY <2>1 DEF InUseIsHeld
<1>8. SearchOK' /\ HeldOnce'
  BY <1>1, <1>2 DEF SearchOK, HeldOnce
<1> QED BY <1>5, <1>6, <1>7, <1>8 DEF VarInv

\* Where a search ends is the pool that fits best.
LEMMA FoundBest ==
    ASSUME VarPoolAssumption, VarInv, Searched
    PROVE  /\ u \in Pools /\ size \in Nat /\ size <= unitSize[u] /\ size <= Largest
           /\ \A j \in Pools : j < u => unitSize[j] < size
<1>1. /\ d \in Pools /\ u \in Pools /\ size \in Nat /\ d < u /\ unitSize[d] < size
      /\ size <= unitSize[u] /\ u - d <= 1
  BY DEF VarInv, VarTypeOK, SearchOK, Searched
<1>2. size <= Largest
  BY <1>1, PoolFacts DEF Largest
<1>3. ASSUME NEW j \in Pools, j < u PROVE unitSize[j] < size
  <2>1. j < d \/ j = d
    BY <1>1, <1>3, PoolFacts
  <2>2. j < d => unitSize[j] < unitSize[d]
    BY <1>1 DEF VarPoolAssumption
  <2> QED BY <1>1, <2>1, <2>2, PoolFacts
<1> QED BY <1>1, <1>2, <1>3

------------------------------------------------------------------------------

LEMMA SearchBeginInv ==
    ASSUME VarPoolAssumption, VarInv, NEW call \in {"Alloc", "Free"}, NEW given, NEW n \in Nat,
           SearchBegin(call, given, n), given \subseteq held, Smallest < n, n <= Largest,
           call = "Alloc" => n \in Sizes,
           call = "Free" => \E h \in held : given = {h} /\ n = h.size
    PROVE  VarInv'
<1>1. /\ op' = call /\ arg' = given /\ size' = n /\ d' = 0 /\ u' = POOL_NUM - 1
      /\ used' = used /\ held' = held
  BY DEF SearchBegin
<1>2. VarTypeOK'
  BY <1>1, PoolFacts DEF VarInv, VarTypeOK
<1>3. SearchOK'
  BY <1>1, PoolFacts DEF SearchOK, Smallest, Largest
<1>4. BestFit' /\ InUseIsHeld' /\ HeldOnce'
  BY <1>1 DEF VarInv, BestFit, InUseIsHeld, HeldOnce
<1> QED BY <1>2, <1>3, <1>4 DEF VarInv

LEMMA NarrowInv == ASSUME VarPoolAssumption, VarInv, Narrow PROVE VarInv'
<1> DEFINE m == d + (u - d) \div 2
<1>1. /\ op # "none" /\ u - d > 1
      /\ IF unitSize[m] >= size THEN u' = m /\ d' = d ELSE d' = m /\ u' = u
      /\ used' = used /\ held' = held /\ op' = op /\ arg' = arg /\ size' = size
  BY DEF Narrow
<1>2. d \in 0 .. POOL_NUM - 1 /\ u \in 0 .. POOL_NUM - 1 /\ POOL_NUM \in Nat /\ size \in Nat
  BY PoolFacts DEF VarInv, VarTypeOK, Pools
<1>3. m \in Int /\ d < m /\ m < u
  BY <1>1, <1>2
<1>4. m \in Pools /\ unitSize[m] \in Nat
  <2>1. m \in Pools
    <3> HIDE DEF m
    <3> QED BY <1>2, <1>3 DEF Pools
  <2> QED BY <2>1, PoolFacts
<1> HIDE DEF m
<1>5. VarTypeOK'
  BY <1>1, <1>4 DEF VarInv, VarTypeOK
<1>6. SearchOK'
  <2>1. /\ d < u /\ unitSize[d] < size /\ size <= unitSize[u]
        /\ op = "Alloc" => size \in Sizes
        /\ op = "Free" => \E h \in held : arg = {h} /\ size = h.size
    BY <1>1 DEF VarInv, SearchOK
  <2>2. CASE unitSize[m] >= size
    BY <1>1, <1>2, <1>3, <1>4, <2>1, <2>2 DEF SearchOK
  <2>3. CASE ~(unitSize[m] >= size)
    BY <1>1, <1>2, <1>3, <1>4, <2>1, <2>3 DEF SearchOK
  <2> QED BY <2>2, <2>3
<1>7. BestFit' /\ InUseIsHeld' /\ HeldOnce'
  BY <1>1 DEF VarInv, BestFit, InUseIsHeld, HeldOnce
<1> QED BY <1>5, <1>6, <1>7 DEF VarInv

LEMMA AllocInv == ASSUME VarPoolAssumption, VarInv, VarAlloc PROVE VarInv'
<1>1. CASE AllocSystem
  <2>1. PICK n \in Sizes : n > Largest /\ Take(System, n)
    BY <1>1 DEF AllocSystem
  <2> QED BY <2>1, PoolFacts, TakeInv
<1>2. CASE AllocFirst
  <2>1. PICK n \in Sizes : n <= Smallest /\ Take(0, n)
    BY <1>2 DEF AllocFirst
  <2>2. 0 \in Pools /\ 0 # System /\ n <= unitSize[0] /\ \A j \in Pools : ~(j < 0)
    BY <2>1, PoolFacts DEF Smallest
  <2> QED BY <2>1, <2>2, TakeInv
<1>3. CASE AllocSearch
  <2>1. PICK n \in Sizes : n <= Largest /\ n > Smallest /\ SearchBegin("Alloc", {}, n)
    BY <1>3 DEF AllocSearch
  <2>2. n \in Nat /\ Smallest < n
    BY <2>1, PoolFacts DEF Smallest
  <2> QED BY <2>1, <2>2, SearchBeginInv
<1>4. CASE AllocFound
  <2>1. size \in Sizes /\ Take(u, size)
    BY <1>4 DEF AllocFound, VarInv, SearchOK
  <2>2. /\ u \in Pools /\ u # System /\ size <= unitSize[u]
        /\ \A j \in Pools : j < u => unitSize[j] < size
    BY <1>4, FoundBest, PoolFacts DEF AllocFound
  <2> QED BY <2>1, <2>2, TakeInv
<1> QED BY <1>1, <1>2, <1>3, <1>4 DEF VarAlloc

LEMMA FreeInv == ASSUME VarPoolAssumption, VarInv, VarFree PROVE VarInv'
<1>1. ASSUME NEW h \in held
      PROVE  /\ h.size \in Nat /\ h.pool \in Pools \cup {System}
             /\ h.pool = System => h.size > Largest
             /\ h.pool # System => /\ h.pool \in Pools /\ h.size <= unitSize[h.pool]
                                   /\ h.size <= Largest
                                   /\ \A j \in Pools : j < h.pool => unitSize[j] < h.size
  <2>1. h.size \in Nat /\ h.pool \in Pools \cup {System}
    BY PoolFacts DEF VarInv, VarTypeOK, Holding
  <2>2. /\ h.pool = System => h.size > Largest
        /\ h.pool # System => /\ h.pool \in Pools /\ h.size <= unitSize[h.pool]
                              /\ \A j \in Pools : j < h.pool => unitSize[j] < h.size
    BY <2>1 DEF VarInv, BestFit
  <2>3. h.pool # System => h.size <= Largest
    BY <2>1, <2>2, PoolFacts DEF Largest
  <2> QED BY <2>1, <2>2, <2>3
<1>2. Largest \in Nat /\ Smallest \in Nat /\ Smallest = unitSize[0]
  BY PoolFacts DEF Largest, Smallest
<1>3. CASE FreeSystem
  <2>1. PICK h \in held : h.size > Largest /\ GiveBack(System, h)
    BY <1>3 DEF FreeSystem, FreedBySystem
  <2>2. h.pool = System
    BY <1>1, <1>2, <2>1
  <2> QED BY <2>1, <2>2, GiveBackInv
<1>4. CASE FreeFirst
  <2>1. PICK h \in held : h.size <= Largest /\ h.size <= Smallest /\ GiveBack(0, h)
    BY <1>1, <1>2, <1>4 DEF FreeFirst, FreedBySystem, FreedByFirst
  <2>2. 0 \in Pools /\ \A j \in Pools : ~(j < 0)
    BY PoolFacts
  <2>3. h.pool # System
    BY <1>1, <1>2, <2>1
  <2>4. h.pool = 0
    BY <1>1, <1>2, <2>1, <2>2, <2>3, BestIsOne
  <2> QED BY <2>1, <2>4, GiveBackInv
<1>5. CASE FreeSearch
  <2>1. PICK h \in held : /\ h.size <= Largest /\ h.size > Smallest
                          /\ SearchBegin("Free", {h}, h.size)
    <3>1. PICK h \in held : /\ ~(h.size > Largest) /\ ~(h.size <= Smallest)
                            /\ SearchBegin("Free", {h}, h.size)
      BY <1>5 DEF FreeSearch, FreedBySystem, FreedByFirst
    <3>2. h.size <= Largest /\ h.size > Smallest
      BY <1>1, <1>2, <3>1
    <3> QED BY <3>1, <3>2
  <2>2. h.size \in Nat /\ Smallest < h.size
    BY <1>1, <1>2, <2>1
  <2> QED BY <2>1, <2>2, SearchBeginInv
<1>6. CASE FreeFound
  <2>1. PICK h \in arg : GiveBack(u, h)
    BY <1>6 DEF FreeFound
  <2>2. h \in held /\ size = h.size
    BY <1>6, <2>1 DEF FreeFound, VarInv, SearchOK
  <2>3. /\ u \in Pools /\ size \in Nat /\ size <= unitSize[u] /\ size <= Largest
        /\ \A j \in Pools : j < u => unitSize[j] < size
    BY <1>6, FoundBest DEF FreeFound
  <2>4. h.pool # System
    BY <1>1, <1>2, <2>2, <2>3
  <2>5. h.pool = u
    BY <1>1, <2>2, <2>3, <2>4, BestIsOne
  <2> QED BY <2>1, <2>2, <2>5, GiveBackInv
<1> QED BY <1>3, <1>4, <1>5, <1>6 DEF VarFree

\* The inductive invariant of the variable-size pool: the search of alloc stays
\* in bounds, and every unit in use is held by one caller.
THEOREM VarPoolInvariant == VarSpec => []VarInv
<1>1. VarInit => VarInv
  BY VarInitInv, VarPoolAssumption
<1>2. VarInv /\ [VarNext]_varVars => VarInv'
  <2>1. VarInv /\ UNCHANGED varVars => VarInv'
    BY DEF varVars, VarInv, VarTypeOK, BestFit, InUseIsHeld, SearchOK, HeldOnce
  <2> QED BY <2>1, AllocInv, FreeInv, NarrowInv, VarPoolAssumption DEF VarNext
<1> QED BY <1>1, <1>2, PTL DEF VarSpec

\* The variables keep their types: the search never leaves the table of pools.
THEOREM VarPoolTypeOK == VarSpec => []VarTypeOK
<1>1. VarInv => VarTypeOK
  BY DEF VarInv
<1> QED BY <1>1, VarPoolInvariant, PTL

\* A unit handed out has room for what was asked for, and no smaller pool's
\* unit has.
THEOREM VarPoolBestFit == VarSpec => []BestFit
<1>1. VarInv => BestFit
  BY DEF VarInv
<1> QED BY <1>1, VarPoolInvariant, PTL

\* Free gives every unit back to the pool that it came from.
THEOREM VarPoolInUseIsHeld == VarSpec => []InUseIsHeld
<1>1. VarInv => InUseIsHeld
  BY DEF VarInv
<1> QED BY <1>1, VarPoolInvariant, PTL
==============================================================================
