------------------------ MODULE EasyTcpSystem_proofs ------------------------
(***************************************************************************)
(* Proofs about the cell servers and their clients, for any number of      *)
(* cells, clients and send threads.  A client is in one cell's vectors,    *)
(* once, and only that cell's thread takes from its connection: so what    *)
(* select has seen is still there when the pass comes to the client, and   *)
(* the count of clients follows the vectors.                               *)
(***************************************************************************)
EXTENDS EasyTcpSystem, FiniteSetTheorems, FunctionTheorems, SequenceTheorems, TLAPS

\* The clients of a cell, by their places.
Listed(h) == 1 .. Len(list[h])
Buffered(h) == 1 .. Len(buff[h])
Parsing(h) == pc[h] \in {"parse", "reply"}

\* A client is in one place.
ListedOnce ==
    \A g, h \in Cells : \A j \in Listed(g), m \in Listed(h) :
        list[g][j] = list[h][m] => g = h /\ j = m
BufferedOnce ==
    \A g, h \in Cells : \A j \in Buffered(g), m \in Buffered(h) :
        buff[g][j] = buff[h][m] => g = h /\ j = m
ListedOrBuffered ==
    \A g, h \in Cells : \A j \in Listed(g), m \in Buffered(h) : list[g][j] # buff[h][m]
Placed == ListedOnce /\ BufferedOnce /\ ListedOrBuffered

\* The clients of the cells, and the one in the main thread's hand, are open,
\* and that one is in no cell yet.
HeldOpen ==
    /\ \A h \in Cells : \A j \in Listed(h) : serverEnd[list[h][j]] = "open"
    /\ \A h \in Cells : \A j \in Buffered(h) : serverEnd[buff[h][j]] = "open"
AddedOK ==
    apc = "add" =>
        /\ accepted \in Clients /\ serverEnd[accepted] = "open"
        /\ \A h \in Cells : \A j \in Listed(h) : list[h][j] # accepted
        /\ \A h \in Cells : \A j \in Buffered(h) : buff[h][j] # accepted

\* Each send thread has clients of its own, and those it has yet to connect are
\* new.
Mine(id) == begin(id) .. end(id)
TurnsOK ==
    \A id \in Threads :
        /\ turn[id] \in begin(id) .. end(id) + 1
        /\ tpc[id] = "sending" => turn[id] <= end(id)
NewOK ==
    \A id \in Threads : tpc[id] = "connect" =>
        \A c \in turn[id] .. end(id) : clientEnd[c] = "none" /\ serverEnd[c] = "none"

\* Where a cell's pass is, and what it may still find: the clients it has yet to
\* visit, of those select has named, can be read.
PassOK(h) ==
    /\ apc = "init" => pc[h] = "init"
    /\ pc[h] = "pass" => n[h] <= Len(list[h])
    /\ Parsing(h) => n[h] >= 1 /\ n[h] <= Len(list[h])
ToVisit(h) == IF pc[h] = "pass" THEN 1 .. n[h] ELSE IF Parsing(h) THEN 1 .. n[h] - 1 ELSE {}
ReadyOK(h) ==
    \A j \in ToVisit(h) : list[h][j] \in ready[h] => ServerReadable(list[h][j])

\* A client whose messages are not being cut has less than a message.
CutOK ==
    \A c \in Clients :
        lastPos[c] < MsgLen \/ \E h \in Cells : Parsing(h) /\ list[h][n[h]] = c

IInv ==
    /\ CountOK
    /\ Placed /\ HeldOpen /\ AddedOK /\ TurnsOK /\ NewOK
    /\ (\A h \in Cells : PassOK(h) /\ ReadyOK(h)) /\ CutOK

------------------------------------------------------------------------------
(* The constants, and the arithmetic of the send threads' shares.          *)

LEMMA Bounds ==
    /\ cCount \in Nat \ {0} /\ tCount \in Nat \ {0} /\ Clients = 1 .. cCount
    /\ Capacity \in Nat \ {0} /\ SendLen \in Nat \ {0} /\ MsgLen \in Nat \ {0}
    /\ RecvMax \in Nat \ {0} /\ MsgBufSize \in Nat /\ MsgLen - 1 + RecvMax <= MsgBufSize
BY ClientAssumption, SocketsAssumption, CellAssumption

LEMMA Share ==
    /\ cCount \div tCount \in Nat
    /\ tCount * (cCount \div tCount) <= cCount
BY Bounds

LEMMA Monotone ==
    ASSUME NEW a \in Nat, NEW b \in Nat, NEW q \in Nat, a <= b
    PROVE  a * q \in Nat /\ b * q \in Nat /\ a * q <= b * q
<1>1. PICK d \in Nat : b = a + d
  <2>1. b - a \in Nat /\ b = a + (b - a)
    OBVIOUS
  <2> QED BY <2>1
<1>2. (a + d) * q = a * q + d * q
  OBVIOUS
<1>3. a * q \in Nat /\ d * q \in Nat
  OBVIOUS
<1> QED BY <1>1, <1>2, <1>3

LEMMA Shares ==
    ASSUME NEW id \in Threads
    PROVE  /\ begin(id) \in Nat /\ end(id) \in Nat
           /\ 1 <= begin(id) /\ begin(id) <= end(id) + 1 /\ end(id) <= cCount
<1> DEFINE q == cCount \div tCount
<1>1. q \in Nat /\ tCount * q <= cCount
  BY Share
<1> HIDE DEF q
<1>2. id \in Nat /\ id - 1 \in Nat /\ id <= tCount /\ id - 1 <= id /\ tCount \in Nat
  BY Bounds DEF Threads
<1>3. (id - 1) * q \in Nat /\ id * q \in Nat /\ (id - 1) * q <= id * q
  BY <1>1, <1>2, Monotone
<1>4. id * q <= tCount * q /\ tCount * q \in Nat
  BY <1>1, <1>2, Monotone
<1>5. begin(id) = (id - 1) * q + 1 /\ end(id) = id * q
  BY DEF begin, end, q
<1> QED BY <1>1, <1>3, <1>4, <1>5, Bounds

LEMMA OwnShare ==
    ASSUME NEW id \in Threads, NEW jd \in Threads, id # jd
    PROVE  Mine(id) \cap Mine(jd) = {}
<1> DEFINE q == cCount \div tCount
<1>1. q \in Nat
  BY Share
<1>2. \A a \in Threads : begin(a) = (a - 1) * q + 1 /\ end(a) = a * q
  BY DEF begin, end
<1> HIDE DEF q
<1>3. ASSUME NEW a \in Threads, NEW b \in Threads, a < b
      PROVE  end(a) < begin(b)
  <2>1. a \in Nat /\ b - 1 \in Nat /\ a <= b - 1
    BY <1>3, Bounds DEF Threads
  <2>2. a * q \in Nat /\ (b - 1) * q \in Nat /\ a * q <= (b - 1) * q
    BY <2>1, <1>1, Monotone
  <2> QED BY <2>2, <1>2
<1>4. id < jd \/ jd < id
  BY Bounds DEF Threads
<1>5. end(id) < begin(jd) \/ end(jd) < begin(id)
  BY <1>3, <1>4
<1>6. \A a \in Threads : begin(a) \in Nat /\ end(a) \in Nat
  BY Shares
<1> QED BY <1>5, <1>6 DEF Mine

\* Min of two numbers.
LEMMA MinIs ==
    ASSUME NEW a \in Nat, NEW b \in Nat
    PROVE  Min({a, b}) = IF a <= b THEN a ELSE b
BY DEF Min

------------------------------------------------------------------------------
(* Sequences, and counting.                                                *)

LEMMA SeqIs ==
    ASSUME NEW S, NEW s \in Seq(S)
    PROVE  /\ Len(s) \in Nat /\ DOMAIN s = 1 .. Len(s)
           /\ \A j \in 1 .. Len(s) : j \in Nat /\ s[j] \in S
           /\ s = << >> <=> Len(s) = 0
BY ElementOfSeq, LenProperties, EmptySeq

LEMMA RemoveIs ==
    ASSUME NEW S, NEW s \in Seq(S), NEW j \in 1 .. Len(s)
    PROVE  /\ RemoveAt(s, j) \in Seq(S) /\ Len(RemoveAt(s, j)) = Len(s) - 1
           /\ \A m \in 1 .. Len(s) - 1 :
                RemoveAt(s, j)[m] = IF m < j THEN s[m] ELSE s[m + 1]
<1>1. Len(s) \in Nat /\ \A m \in 1 .. Len(s) : s[m] \in S
  BY ElementOfSeq, LenProperties
<1> DEFINE p == SubSeq(s, 1, j - 1)
           q == SubSeq(s, j + 1, Len(s))
<1>2. p \in Seq(S) /\ Len(p) = j - 1 /\ \A m \in 1 .. j - 1 : p[m] = s[m]
  BY <1>1
<1>3. q \in Seq(S) /\ Len(q) = Len(s) - j /\ \A m \in 1 .. Len(s) - j : q[m] = s[m + j]
  BY <1>1
<1> HIDE DEF p, q
<1>4. /\ p \o q \in Seq(S) /\ Len(p \o q) = Len(p) + Len(q)
      /\ \A m \in 1 .. Len(p) + Len(q) :
           (p \o q)[m] = IF m <= Len(p) THEN p[m] ELSE q[m - Len(p)]
  BY <1>2, <1>3, ConcatProperties
<1>5. ASSUME NEW m \in 1 .. Len(s) - 1
      PROVE  (p \o q)[m] = IF m < j THEN s[m] ELSE s[m + 1]
  <2>1. m \in 1 .. Len(p) + Len(q)
    BY <1>1, <1>2, <1>3
  <2>2. CASE m < j
    <3>1. m <= Len(p) /\ m \in 1 .. j - 1
      BY <1>1, <1>2, <2>2
    <3> QED BY <1>2, <1>4, <2>1, <2>2, <3>1
  <2>3. CASE ~(m < j)
    <3>1. ~(m <= Len(p)) /\ m - Len(p) \in 1 .. Len(s) - j
      BY <1>1, <1>2, <2>3
    <3>2. (m - Len(p)) + j = m + 1
      BY <1>1, <1>2
    <3>3. (p \o q)[m] = q[m - Len(p)]
      BY <1>4, <2>1, <3>1
    <3>4. q[m - Len(p)] = s[(m - Len(p)) + j]
      BY <1>3, <3>1
    <3> QED BY <2>3, <3>2, <3>3, <3>4
  <2> QED BY <2>2, <2>3
<1>6. Len(p) + Len(q) = Len(s) - 1
  BY <1>1, <1>2, <1>3
<1>7. RemoveAt(s, j) = p \o q
  BY DEF RemoveAt, p, q
<1> QED BY <1>4, <1>5, <1>6, <1>7

LEMMA AppendIs ==
    ASSUME NEW S, NEW s \in Seq(S), NEW x \in S
    PROVE  /\ Append(s, x) \in Seq(S) /\ Len(Append(s, x)) = Len(s) + 1
           /\ \A j \in 1 .. Len(s) : Append(s, x)[j] = s[j]
           /\ Append(s, x)[Len(s) + 1] = x
BY AppendProperties, LenProperties

\* The places of cells that have f[h] each.
SlotsOf(f) == UNION {{h} \X (1 .. f[h]) : h \in Cells}

LEMMA SlotsFinite ==
    ASSUME NEW f \in [Cells -> Nat]
    PROVE  IsFiniteSet(SlotsOf(f)) /\ Cardinality(SlotsOf(f)) \in Nat
<1> DEFINE Of(h) == {h} \X (1 .. f[h])
           All == {Of(h) : h \in Cells}
           F == [h \in Cells |-> Of(h)]
<1>1. IsFiniteSet(Cells)
  BY CellAssumption
<1>2. F \in Surjection(Cells, All)
  <2>1. F \in [Cells -> All]
    OBVIOUS
  <2>2. \A T \in All : \E h \in Cells : F[h] = T
    OBVIOUS
  <2> QED BY <2>1, <2>2, Fun_IsSurj
<1>3. IsFiniteSet(All)
  BY <1>1, <1>2, FS_Surjection, Zenon DEF ExistsSurjection
<1>4. \A T \in All : IsFiniteSet(T)
  <2>1. SUFFICES ASSUME NEW h \in Cells PROVE IsFiniteSet(Of(h))
    OBVIOUS
  <2>2. 1 \in Int /\ f[h] \in Int
    OBVIOUS
  <2>3. IsFiniteSet(1 .. f[h])
    BY <2>2, FS_Interval
  <2>4. IsFiniteSet({h})
    BY FS_Singleton
  <2> QED BY <2>3, <2>4, FS_Product
<1>5. IsFiniteSet(UNION All)
  <2> HIDE DEF All
  <2> QED BY <1>3, <1>4, FS_UNION
<1>6. IsFiniteSet(SlotsOf(f))
  BY <1>5 DEF SlotsOf
<1> QED BY <1>6, FS_CardinalityType

LEMMA SlotsMore ==
    ASSUME NEW f \in [Cells -> Nat], NEW h \in Cells
    PROVE  Cardinality(SlotsOf([f EXCEPT ![h] = @ + 1])) = Cardinality(SlotsOf(f)) + 1
<1> DEFINE g == [f EXCEPT ![h] = @ + 1]
<1>1. g \in [Cells -> Nat] /\ g[h] = f[h] + 1 /\ \A e \in Cells \ {h} : g[e] = f[e]
  OBVIOUS
<1>2. <<h, f[h] + 1>> \notin SlotsOf(f)
  BY DEF SlotsOf
<1>3. SlotsOf(g) = SlotsOf(f) \cup {<<h, f[h] + 1>>}
  <2> HIDE DEF g
  <2>1. ASSUME NEW e \in Cells
        PROVE  {e} \X (1 .. g[e]) = ({e} \X (1 .. f[e]))
                                    \cup (IF e = h THEN {<<h, f[h] + 1>>} ELSE {})
    <3>1. CASE e = h
      <4>1. 1 .. f[h] + 1 = (1 .. f[h]) \cup {f[h] + 1}
        OBVIOUS
      <4> QED BY <1>1, <3>1, <4>1
    <3>2. CASE e # h
      BY <1>1, <3>2
    <3> QED BY <3>1, <3>2
  <2> QED BY <2>1 DEF SlotsOf
<1>4. IsFiniteSet(SlotsOf(f))
  BY SlotsFinite
<1> QED BY <1>2, <1>3, <1>4, FS_AddElement

LEMMA SlotsFewer ==
    ASSUME NEW f \in [Cells -> Nat], NEW g \in [Cells -> Nat], \A h \in Cells : g[h] <= f[h]
    PROVE  Cardinality(SlotsOf(g)) <= Cardinality(SlotsOf(f))
<1>1. SlotsOf(g) \subseteq SlotsOf(f)
  <2>1. \A h \in Cells : 1 .. g[h] \subseteq 1 .. f[h]
    OBVIOUS
  <2> QED BY <2>1 DEF SlotsOf
<1> QED BY <1>1, SlotsFinite, FS_Subset

------------------------------------------------------------------------------
(* What the type invariant says, and what a step leaves as it was.         *)

LEMMA Vectors ==
    ASSUME TypeOK, NEW h \in Cells
    PROVE  /\ list[h] \in Seq(Clients) /\ buff[h] \in Seq(Clients)
           /\ Len(list[h]) \in Nat /\ Len(buff[h]) \in Nat
           /\ \A j \in Listed(h) : j \in Nat /\ list[h][j] \in Clients
           /\ \A j \in Buffered(h) : j \in Nat /\ buff[h][j] \in Clients
           /\ ToSet(list[h]) = {list[h][j] : j \in Listed(h)}
           /\ ToSet(list[h]) \subseteq Clients
<1>1. list[h] \in Seq(Clients) /\ buff[h] \in Seq(Clients)
  BY DEF TypeOK
<1>2. Len(list[h]) \in Nat /\ Len(buff[h]) \in Nat /\ DOMAIN list[h] = Listed(h)
  BY <1>1, SeqIs DEF Listed
<1>3. \A j \in Listed(h) : j \in Nat /\ list[h][j] \in Clients
  BY <1>1, SeqIs DEF Listed
<1>4. \A j \in Buffered(h) : j \in Nat /\ buff[h][j] \in Clients
  BY <1>1, SeqIs DEF Buffered
<1>5. ToSet(list[h]) = {list[h][j] : j \in Listed(h)}
  BY <1>2 DEF ToSet
<1>6. ToSet(list[h]) \subseteq Clients
  BY <1>3, <1>5
<1> QED BY <1>1, <1>2, <1>3, <1>4, <1>5, <1>6

\* The number of places of each cell.
Counts == [h \in Cells |-> Len(list[h]) + Len(buff[h])]

LEMMA PlacesAre ==
    ASSUME TypeOK
    PROVE  /\ Counts \in [Cells -> Nat] /\ Places = SlotsOf(Counts)
           /\ Cardinality(Places) \in Nat
<1>1. ASSUME NEW h \in Cells PROVE Len(list[h]) + Len(buff[h]) \in Nat
  <2>1. Len(list[h]) \in Nat /\ Len(buff[h]) \in Nat
    BY Vectors
  <2>2. \A a, b \in Nat : a + b \in Nat
    OBVIOUS
  <2> QED BY <2>1, <2>2, Zenon
<1>2. Counts \in [Cells -> Nat]
  BY <1>1 DEF Counts
<1>3. Places = SlotsOf(Counts)
  BY DEF Places, SlotsOf, Counts, getClientCount
<1> QED BY <1>2, <1>3, SlotsFinite

LEMMA CountsNext ==
    ASSUME TypeOK'
    PROVE  Counts' \in [Cells -> Nat]
<1>1. ASSUME NEW h \in Cells PROVE Len(list'[h]) + Len(buff'[h]) \in Nat
  <2>1. list'[h] \in Seq(Clients) /\ buff'[h] \in Seq(Clients)
    BY DEF TypeOK
  <2>2. Len(list'[h]) \in Nat /\ Len(buff'[h]) \in Nat
    BY <2>1, LenProperties
  <2>3. \A a, b \in Nat : a + b \in Nat
    OBVIOUS
  <2> QED BY <2>2, <2>3, Zenon
<1> QED BY <1>1 DEF Counts

LEMMA KeepCount ==
    ASSUME CountOK, TypeOK', clientCount' = clientCount, Counts' = Counts,
           apc' = "join" <=> apc = "join",
           \A h \in Cells : pc[h] = "end" => pc'[h] = "end"
    PROVE  CountOK'
<1>1. Places = SlotsOf(Counts)
  BY PlacesAre DEF CountOK
<1>2. Places' = SlotsOf(Counts')
  BY DEF Places, SlotsOf, Counts, getClientCount
<1>3. Places' = Places
  BY <1>1, <1>2
<1> QED BY <1>3 DEF CountOK

LEMMA KeepPlaced ==
    ASSUME Placed, list' = list, buff' = buff
    PROVE  Placed'
BY DEF Placed, ListedOnce, BufferedOnce, ListedOrBuffered, Listed, Buffered

LEMMA KeepHeld ==
    ASSUME TypeOK, HeldOpen, list' = list, buff' = buff,
           \A c \in Clients : serverEnd[c] = "open" => serverEnd'[c] = "open"
    PROVE  HeldOpen'
<1>1. ASSUME NEW h \in Cells, NEW j \in Listed(h) PROVE serverEnd'[list[h][j]] = "open"
  <2>1. list[h][j] \in Clients
    BY Vectors
  <2> QED BY <2>1 DEF HeldOpen
<1>2. ASSUME NEW h \in Cells, NEW j \in Buffered(h) PROVE serverEnd'[buff[h][j]] = "open"
  <2>1. buff[h][j] \in Clients
    BY Vectors
  <2> QED BY <2>1 DEF HeldOpen
<1> QED BY <1>1, <1>2 DEF HeldOpen, Listed, Buffered

LEMMA KeepAdded ==
    ASSUME AddedOK, list' = list, buff' = buff, apc' = apc, accepted' = accepted,
           \A c \in Clients : serverEnd[c] = "open" => serverEnd'[c] = "open"
    PROVE  AddedOK'
BY DEF AddedOK, Listed, Buffered

LEMMA KeepTurns ==
    ASSUME TurnsOK, NewOK, tpc' = tpc, turn' = turn,
           \A c \in Clients : clientEnd[c] = "none" => clientEnd'[c] = "none",
           \A c \in Clients : serverEnd[c] = "none" => serverEnd'[c] = "none"
    PROVE  TurnsOK' /\ NewOK'
<1>1. ASSUME NEW id \in Threads, NEW c \in turn[id] .. end(id)
      PROVE  c \in Clients
  BY Shares, Bounds DEF TurnsOK
<1>2. \A id \in Threads : begin(id)' = begin(id) /\ end(id)' = end(id)
  BY DEF begin, end
<1>3. TurnsOK'
  BY DEF TurnsOK, begin, end
<1>4. NewOK'
  BY <1>1 DEF NewOK, end
<1> QED BY <1>3, <1>4

\* The pass of a cell the step is not about.
LEMMA KeepPass ==
    ASSUME NEW h \in Cells, PassOK(h), ReadyOK(h), apc' = "init" => apc = "init",
           pc'[h] = pc[h], n'[h] = n[h], list'[h] = list[h], ready'[h] = ready[h],
           \A j \in ToVisit(h) : ServerReadable(list[h][j]) =>
               up'[list[h][j]] > 0 \/ clientEnd'[list[h][j]] = "closed"
    PROVE  PassOK(h)' /\ ReadyOK(h)'
<1>1. Parsing(h)' <=> Parsing(h)
  BY DEF Parsing
<1>2. PassOK(h)'
  BY <1>1 DEF PassOK
<1>3. ToVisit(h)' = ToVisit(h)
  BY <1>1 DEF ToVisit
<1>4. ReadyOK(h)'
  BY <1>3 DEF ReadyOK, ServerReadable
<1> QED BY <1>2, <1>4

\* A client's cut message, where the step is about one cell, or about none.
LEMMA KeepCut ==
    ASSUME TypeOK, CutOK, NEW K \in SUBSET Cells,
           \A h \in Cells \ K : pc'[h] = pc[h] /\ n'[h] = n[h] /\ list'[h] = list[h],
           \A c \in Clients :
               \/ lastPos'[c] < MsgLen
               \/ \E h \in K : Parsing(h)' /\ list'[h][n'[h]] = c
               \/ lastPos'[c] = lastPos[c] /\ \A h \in K : ~(Parsing(h) /\ list[h][n[h]] = c)
    PROVE  CutOK'
<1> SUFFICES ASSUME NEW c \in Clients, ~(lastPos'[c] < MsgLen)
             PROVE  \E h \in Cells : Parsing(h)' /\ list'[h][n'[h]] = c
  BY DEF CutOK
<1>1. CASE \E h \in K : Parsing(h)' /\ list'[h][n'[h]] = c
  BY <1>1
<1>2. CASE lastPos'[c] = lastPos[c] /\ \A h \in K : ~(Parsing(h) /\ list[h][n[h]] = c)
  <2>1. PICK h \in Cells : Parsing(h) /\ list[h][n[h]] = c
    BY <1>2 DEF CutOK
  <2>2. h \in Cells \ K
    BY <1>2, <2>1
  <2> QED BY <2>1, <2>2 DEF Parsing
<1> QED BY <1>1, <1>2

------------------------------------------------------------------------------
(* The initial states.                                                     *)

LEMMA NoPlaces ==
    ASSUME \A h \in Cells : Counts[h] = 0
    PROVE  Cardinality(Places) = 0
<1>1. \A h \in Cells : getClientCount(h) = 0
  BY DEF Counts, getClientCount
<1>2. 1 .. 0 = {}
  OBVIOUS
<1>3. Places = {}
  BY <1>1, <1>2 DEF Places
<1> QED BY <1>3, FS_EmptySet

LEMMA InitIInv == Init => IInv
<1> SUFFICES ASSUME Init PROVE IInv
  OBVIOUS
<1> USE DEF Init, ServerInit
<1>1. TypeOK
  <2>1. SocketsTypeOK
    <3>1. 0 \in 0 .. Capacity
      BY Bounds
    <3> QED BY <3>1, Zenon DEF SocketsInit, SocketsTypeOK
  <2>2. << >> \in Seq(Clients)
    BY EmptySeq
  <2>3. turn \in [Threads -> 1 .. cCount + 1]
    <3>1. \A id \in Threads : begin(id) \in 1 .. cCount + 1
      BY Shares, Bounds
    <3> QED BY <3>1 DEF ClientInit
  <2>4. /\ tpc \in [Threads -> {"connect", "send", "sending", "close", "end"}]
        /\ toSend \in [Threads -> 0 .. SendLen] /\ g_bRun \in BOOLEAN
    BY Bounds DEF ClientInit
  <2>5. lastPos \in [Clients -> 0 .. MsgBufSize] /\ left \in [Cells -> 0 .. MsgLen]
    BY Bounds
  <2> QED BY <2>1, <2>2, <2>3, <2>4, <2>5 DEF TypeOK, NoClient
<1>2. CountOK
  <2>1. \A h \in Cells : Counts[h] = 0
    BY EmptySeq DEF Counts
  <2>2. Cardinality(Places) = 0
    BY <2>1, NoPlaces
  <2> QED BY <1>1, <2>2 DEF CountOK
<1>3. Placed /\ HeldOpen
  <2>1. \A h \in Cells : Listed(h) = {} /\ Buffered(h) = {}
    BY EmptySeq DEF Listed, Buffered
  <2> QED BY <2>1 DEF Placed, ListedOnce, BufferedOnce, ListedOrBuffered, HeldOpen
<1>4. AddedOK
  BY DEF AddedOK
<1>5. TurnsOK
  <2>1. \A id \in Threads : begin(id) \in begin(id) .. end(id) + 1
    BY Shares
  <2> QED BY <2>1 DEF TurnsOK, ClientInit
<1>6. NewOK
  <2>1. ASSUME NEW id \in Threads, NEW c \in turn[id] .. end(id) PROVE c \in Clients
    BY <1>5, Shares, Bounds DEF TurnsOK
  <2> QED BY <2>1 DEF NewOK, SocketsInit
<1>7. \A h \in Cells : PassOK(h) /\ ReadyOK(h)
  BY DEF PassOK, ReadyOK, ToVisit, Parsing
<1>8. CutOK
  BY Bounds DEF CutOK
<1> QED BY <1>2, <1>3, <1>4, <1>5, <1>6, <1>7, <1>8 DEF IInv

------------------------------------------------------------------------------
(* The client program.                                                     *)

ClientTypeOK ==
    /\ tpc \in [Threads -> {"connect", "send", "sending", "close", "end"}]
    /\ turn \in [Threads -> 1 .. cCount + 1] /\ toSend \in [Threads -> 0 .. SendLen]
    /\ g_bRun \in BOOLEAN

\* A step of the client program, which takes nothing from what a cell may read
\* and closes only its own ends.
LEMMA ClientStep ==
    ASSUME IInv, UNCHANGED serverVars, SocketsTypeOK', ClientTypeOK', TurnsOK', NewOK',
           \A c \in Clients : serverEnd[c] = "open" => serverEnd'[c] = "open",
           \A c \in Clients : ServerReadable(c) => up'[c] > 0 \/ clientEnd'[c] = "closed"
    PROVE  IInv'
<1> USE DEF serverVars
<1>1. TypeOK
  BY DEF IInv, CountOK
<1>2. TypeOK'
  BY <1>1 DEF TypeOK, ClientTypeOK
<1>3. CountOK'
  <2>1. Counts' = Counts
    BY DEF Counts
  <2> QED BY <1>2, <2>1, KeepCount DEF IInv
<1>4. Placed'
  BY KeepPlaced DEF IInv
<1>5. HeldOpen'
  BY <1>1, KeepHeld DEF IInv
<1>6. AddedOK'
  BY KeepAdded DEF IInv
<1>7. ASSUME NEW h \in Cells PROVE (PassOK(h) /\ ReadyOK(h))'
  <2>1. \A j \in ToVisit(h) : list[h][j] \in Clients
    BY <1>1, Vectors DEF ToVisit, IInv, PassOK, Listed, TypeOK
  <2> QED BY <2>1, KeepPass DEF IInv
<1>8. CutOK'
  <2>1. CutOK
    BY DEF IInv
  <2>2. {} \in SUBSET Cells
    OBVIOUS
  <2>3. \A c \in Clients : lastPos'[c] = lastPos[c]
    OBVIOUS
  <2>4. \A h \in Cells : pc'[h] = pc[h] /\ n'[h] = n[h] /\ list'[h] = list[h]
    OBVIOUS
  <2> QED BY <1>1, <2>1, <2>2, <2>3, <2>4, KeepCut
<1> QED BY <1>3, <1>4, <1>5, <1>6, <1>7, <1>8 DEF IInv

LEMMA InTurn ==
    ASSUME IInv, NEW id \in Threads, turn[id] <= end(id)
    PROVE  /\ turn[id] \in Clients /\ turn[id] \in Nat
           /\ turn[id] + 1 \in begin(id) .. end(id) + 1 /\ turn[id] + 1 \in 1 .. cCount + 1
<1>1. turn[id] \in begin(id) .. end(id) + 1
  BY DEF IInv, TurnsOK
<1> QED BY <1>1, Shares, Bounds

LEMMA InShare ==
    ASSUME NEW id \in Threads, NEW b \in begin(id) .. end(id) + 1, NEW c \in b .. end(id)
    PROVE  c \in Mine(id) /\ c \in Clients /\ c \in Nat
<1>1. b \in Nat /\ c \in Nat /\ begin(id) <= c /\ c <= end(id) /\ 1 <= c /\ c <= cCount
  BY Shares, Bounds
<1> QED BY <1>1, Shares, Bounds DEF Mine

\* A step of one thread that connects no client and ends only connections of its
\* own clients.
LEMMA ThreadStep ==
    ASSUME IInv, NEW id \in Threads, UNCHANGED serverVars,
           UNCHANGED <<listening, serverEnd, g_bRun>>,
           NEW p \in {"send", "sending", "close", "end"},
           NEW t \in begin(id) .. end(id) + 1, p = "sending" => t <= end(id),
           NEW k \in 0 .. SendLen,
           tpc' = [tpc EXCEPT ![id] = p], turn' = [turn EXCEPT ![id] = t],
           toSend' = [toSend EXCEPT ![id] = k],
           up' \in [Clients -> 0 .. Capacity], down' \in [Clients -> 0 .. Capacity],
           clientEnd' \in [Clients -> {"none", "open", "closed"}],
           \A c \in Clients \ Mine(id) : clientEnd'[c] = clientEnd[c],
           \A c \in Clients : ServerReadable(c) => up'[c] > 0 \/ clientEnd'[c] = "closed"
    PROVE  IInv'
<1>1. TypeOK /\ TurnsOK /\ NewOK
  BY DEF IInv, CountOK
<1>2. SocketsTypeOK'
  BY <1>1 DEF TypeOK, SocketsTypeOK
<1>3. t \in 1 .. cCount + 1
  BY Shares, Bounds
<1>4. ClientTypeOK'
  <2>1. tpc' \in [Threads -> {"connect", "send", "sending", "close", "end"}]
    BY <1>1 DEF TypeOK
  <2>2. turn' \in [Threads -> 1 .. cCount + 1] /\ toSend' \in [Threads -> 0 .. SendLen]
    BY <1>1, <1>3 DEF TypeOK
  <2> QED BY <1>1, <2>1, <2>2 DEF TypeOK, ClientTypeOK
<1>5. /\ tpc'[id] = p /\ turn'[id] = t
      /\ \A j \in Threads \ {id} : tpc'[j] = tpc[j] /\ turn'[j] = turn[j]
  BY <1>1 DEF TypeOK
<1>6. TurnsOK'
  <2>1. ASSUME NEW j \in Threads
        PROVE  /\ turn'[j] \in begin(j) .. end(j) + 1
               /\ tpc'[j] = "sending" => turn'[j] <= end(j)
    BY <1>1, <1>5 DEF TurnsOK
  <2> QED BY <2>1 DEF TurnsOK, begin, end
<1>7. NewOK'
  <2>1. ASSUME NEW j \in Threads, tpc'[j] = "connect", NEW c \in turn'[j] .. end(j)
        PROVE  clientEnd'[c] = "none" /\ serverEnd'[c] = "none"
    <3>1. j # id /\ tpc[j] = "connect" /\ turn'[j] = turn[j]
      BY <1>5, <2>1
    <3>2. c \in Mine(j) /\ c \in Clients
      <4>1. turn[j] \in begin(j) .. end(j) + 1
        BY <1>1 DEF TurnsOK
      <4>2. c \in turn[j] .. end(j)
        BY <2>1, <3>1
      <4> QED BY <4>1, <4>2, InShare
    <3>3. c \notin Mine(id)
      BY <3>1, <3>2, OwnShare
    <3>4. clientEnd[c] = "none" /\ serverEnd[c] = "none"
      BY <1>1, <2>1, <3>1 DEF NewOK
    <3> QED BY <3>2, <3>3, <3>4
  <2> QED BY <2>1 DEF NewOK, end
<1> QED BY <1>2, <1>4, <1>6, <1>7, ClientStep

\* What an action of a thread begins with.
LEMMA ClientTypes ==
    ASSUME IInv, NEW id \in Threads
    PROVE  /\ SocketsTypeOK /\ ClientTypeOK /\ TurnsOK /\ NewOK
           /\ turn[id] \in begin(id) .. end(id) + 1 /\ toSend[id] \in 0 .. SendLen
           /\ turn = [turn EXCEPT ![id] = turn[id]]
           /\ tpc = [tpc EXCEPT ![id] = tpc[id]]
           /\ toSend = [toSend EXCEPT ![id] = toSend[id]]
           /\ tpc[id] = "sending" => turn[id] <= end(id)
           /\ begin(id) \in begin(id) .. end(id) + 1
           /\ \A c \in Clients : ServerReadable(c) => up[c] > 0 \/ clientEnd[c] = "closed"
<1>1. TypeOK /\ TurnsOK /\ NewOK
  BY DEF IInv, CountOK
<1>2. SocketsTypeOK /\ ClientTypeOK
  BY <1>1 DEF TypeOK, ClientTypeOK
<1>3. begin(id) \in begin(id) .. end(id) + 1
  BY Shares
<1>4. turn[id] \in begin(id) .. end(id) + 1 /\ tpc[id] = "sending" => turn[id] <= end(id)
  BY <1>1 DEF TurnsOK
<1>5. /\ toSend[id] \in 0 .. SendLen /\ turn = [turn EXCEPT ![id] = turn[id]]
      /\ tpc = [tpc EXCEPT ![id] = tpc[id]] /\ toSend = [toSend EXCEPT ![id] = toSend[id]]
  BY <1>2 DEF ClientTypeOK
<1> QED BY <1>1, <1>2, <1>3, <1>4, <1>5 DEF ServerReadable, TurnsOK

LEMMA cmdThreadIInv == ASSUME IInv, cmdThread, UNCHANGED serverVars PROVE IInv'
<1> USE DEF cmdThread, sockets
<1>1. TypeOK /\ TurnsOK /\ NewOK
  BY DEF IInv, CountOK
<1>2. SocketsTypeOK' /\ ClientTypeOK'
  BY <1>1 DEF TypeOK, SocketsTypeOK, ClientTypeOK
<1>3. TurnsOK' /\ NewOK'
  BY <1>1, KeepTurns
<1> QED BY <1>2, <1>3, ClientStep DEF ServerReadable

LEMMA ConnectIInv ==
    ASSUME IInv, NEW id \in Threads, Connect(id), UNCHANGED serverVars
    PROVE  IInv'
<1>1. /\ tpc[id] = "connect" /\ turn[id] <= end(id) /\ turn' = [turn EXCEPT ![id] = @ + 1]
      /\ UNCHANGED <<listening, up, down, tpc, toSend, g_bRun>>
  BY DEF Connect
<1>2. PICK c \in Clients : c = turn[id]
  BY <1>1, InTurn
<1>3. clientEnd[c] = "none" /\ serverEnd[c] = "none"
  <2>1. c \in turn[id] .. end(id)
    BY <1>1, <1>2, Shares, Bounds
  <2> QED BY <1>1, <2>1, ClientTypes DEF NewOK
<1>4. /\ clientEnd' \in {clientEnd, [clientEnd EXCEPT ![c] = "open"]}
      /\ serverEnd' \in {serverEnd, [serverEnd EXCEPT ![c] = "backlog"]}
  BY <1>2 DEF Connect
<1>5. SocketsTypeOK /\ ClientTypeOK /\ TurnsOK /\ NewOK
  BY ClientTypes
<1>6. SocketsTypeOK'
  <2>1. clientEnd' \in [Clients -> {"none", "open", "closed"}]
    BY <1>4, <1>5 DEF SocketsTypeOK
  <2>2. serverEnd' \in [Clients -> {"none", "backlog", "open", "closed"}]
    BY <1>4, <1>5 DEF SocketsTypeOK
  <2> QED BY <1>1, <1>5, <2>1, <2>2 DEF SocketsTypeOK
<1>7. ClientTypeOK'
  <2>1. turn' \in [Threads -> 1 .. cCount + 1]
    BY <1>1, <1>5, InTurn DEF ClientTypeOK
  <2> QED BY <1>1, <1>5, <2>1 DEF ClientTypeOK
<1>8. \A e \in Clients \ {c} : clientEnd'[e] = clientEnd[e] /\ serverEnd'[e] = serverEnd[e]
  BY <1>4, <1>5 DEF SocketsTypeOK
<1>9. turn'[id] = c + 1 /\ \A j \in Threads \ {id} : turn'[j] = turn[j]
  BY <1>1, <1>2, <1>5 DEF ClientTypeOK
<1>10. c \in begin(id) .. end(id) /\ c \in Nat
  BY <1>1, <1>2, ClientTypes, Shares, Bounds
<1>11. TurnsOK'
  <2>1. ASSUME NEW j \in Threads
        PROVE  /\ turn'[j] \in begin(j) .. end(j) + 1
               /\ tpc'[j] = "sending" => turn'[j] <= end(j)
    <3>1. CASE j = id
      BY <1>1, <1>9, <1>10, <3>1, Shares
    <3>2. CASE j # id
      BY <1>1, <1>5, <1>9, <3>2 DEF TurnsOK
    <3> QED BY <3>1, <3>2
  <2> QED BY <2>1 DEF TurnsOK, begin, end
<1>12. NewOK'
  <2>1. ASSUME NEW j \in Threads, tpc'[j] = "connect", NEW e \in turn'[j] .. end(j)
        PROVE  clientEnd'[e] = "none" /\ serverEnd'[e] = "none"
    <3>1. e \in turn[j] .. end(j) /\ e \in Mine(j) /\ e \in Clients /\ (j = id => e # c)
      <4>1. turn[j] \in begin(j) .. end(j) + 1
        BY <1>5 DEF TurnsOK
      <4>2. turn'[j] = turn[j] \/ (j = id /\ turn'[j] = turn[j] + 1 /\ turn[j] = c)
        BY <1>2, <1>9
      <4>3. e \in turn[j] .. end(j) /\ (j = id => e # c)
        <5>1. turn[j] \in Nat /\ end(j) \in Nat
          BY <4>1, Shares
        <5>2. CASE turn'[j] = turn[j] /\ j # id
          BY <2>1, <5>2
        <5>3. CASE j = id
          <6>1. turn'[j] = c + 1 /\ turn[j] = c /\ c \in Nat
            BY <1>2, <1>9, <1>10, <5>3
          <6>2. e \in c + 1 .. end(j)
            BY <2>1, <6>1
          <6> QED BY <5>1, <6>1, <6>2
        <5>4. j # id => turn'[j] = turn[j]
          BY <1>9
        <5> QED BY <5>2, <5>3, <5>4
      <4> QED BY <4>1, <4>3, InShare
    <3>2. e # c
      BY <1>10, <3>1, OwnShare DEF Mine
    <3>3. clientEnd[e] = "none" /\ serverEnd[e] = "none"
      BY <1>1, <1>5, <2>1, <3>1 DEF NewOK
    <3> QED BY <1>8, <3>1, <3>2, <3>3
  <2> QED BY <2>1 DEF NewOK, end
<1>13. \A e \in Clients : serverEnd[e] = "open" => serverEnd'[e] = "open"
  BY <1>3, <1>8
<1>14. \A e \in Clients : ServerReadable(e) => up'[e] > 0 \/ clientEnd'[e] = "closed"
  BY <1>1, <1>3, <1>8 DEF ServerReadable
<1> QED BY <1>6, <1>7, <1>11, <1>12, <1>13, <1>14, ClientStep

LEMMA NextPassIInv ==
    ASSUME IInv, NEW id \in Threads, NextPass(id), UNCHANGED serverVars
    PROVE  IInv'
<1> USE DEF NextPass, sockets
<1>1. PICK p \in {"send", "close"} : tpc' = [tpc EXCEPT ![id] = p]
  OBVIOUS
<1>2. SocketsTypeOK
  BY ClientTypes
<1>3. up' \in [Clients -> 0 .. Capacity] /\ down' \in [Clients -> 0 .. Capacity]
  BY <1>2 DEF SocketsTypeOK
<1>4. clientEnd' \in [Clients -> {"none", "open", "closed"}] /\ clientEnd' = clientEnd
  BY <1>2 DEF SocketsTypeOK
<1>5. turn' = [turn EXCEPT ![id] = begin(id)] /\ toSend' = [toSend EXCEPT ![id] = toSend[id]]
  BY ClientTypes
<1>6. \A c \in Clients : ServerReadable(c) => up'[c] > 0 \/ clientEnd'[c] = "closed"
  BY DEF ServerReadable
<1>7. UNCHANGED <<listening, serverEnd, g_bRun>>
  OBVIOUS
<1> HIDE DEF NextPass, sockets
<1> QED BY <1>1, <1>3, <1>4, <1>5, <1>6, <1>7, ClientTypes, ThreadStep

LEMMA NotRunningIInv ==
    ASSUME IInv, NEW id \in Threads, NotRunning(id), UNCHANGED serverVars
    PROVE  IInv'
<1> USE DEF NotRunning, NextClient, sockets
<1>1. /\ tpc' = [tpc EXCEPT ![id] = "send"] /\ turn' = [turn EXCEPT ![id] = turn[id] + 1]
      /\ turn[id] + 1 \in begin(id) .. end(id) + 1
  BY InTurn
<1>2. SocketsTypeOK
  BY ClientTypes
<1>3. up' \in [Clients -> 0 .. Capacity] /\ down' \in [Clients -> 0 .. Capacity]
  BY <1>2 DEF SocketsTypeOK
<1>4. clientEnd' \in [Clients -> {"none", "open", "closed"}] /\ clientEnd' = clientEnd
  BY <1>2 DEF SocketsTypeOK
<1>5. toSend' = [toSend EXCEPT ![id] = toSend[id]]
  BY ClientTypes
<1>6. \A c \in Clients : ServerReadable(c) => up'[c] > 0 \/ clientEnd'[c] = "closed"
  BY DEF ServerReadable
<1>7. UNCHANGED <<listening, serverEnd, g_bRun>>
  OBVIOUS
<1> HIDE DEF NotRunning, NextClient, sockets
<1> QED BY <1>1, <1>3, <1>4, <1>5, <1>6, <1>7, ClientTypes, ThreadStep

LEMMA BeginSendIInv ==
    ASSUME IInv, NEW id \in Threads, BeginSend(id), UNCHANGED serverVars
    PROVE  IInv'
<1> USE DEF BeginSend, sockets
<1>1. /\ tpc' = [tpc EXCEPT ![id] = "sending"] /\ turn' = [turn EXCEPT ![id] = turn[id]]
      /\ toSend' = [toSend EXCEPT ![id] = SendLen] /\ turn[id] <= end(id)
  BY ClientTypes
<1>2. SocketsTypeOK
  BY ClientTypes
<1>3. up' \in [Clients -> 0 .. Capacity] /\ down' \in [Clients -> 0 .. Capacity]
  BY <1>2 DEF SocketsTypeOK
<1>4. clientEnd' \in [Clients -> {"none", "open", "closed"}] /\ clientEnd' = clientEnd
  BY <1>2 DEF SocketsTypeOK
<1>5. SendLen \in 0 .. SendLen
  BY Bounds
<1>6. \A c \in Clients : ServerReadable(c) => up'[c] > 0 \/ clientEnd'[c] = "closed"
  BY DEF ServerReadable
<1>7. UNCHANGED <<listening, serverEnd, g_bRun>>
  OBVIOUS
<1> HIDE DEF BeginSend, sockets
<1> QED BY <1>1, <1>3, <1>4, <1>5, <1>6, <1>7, ClientTypes, ThreadStep

LEMMA SendSomeIInv ==
    ASSUME IInv, NEW id \in Threads, SendSome(id), UNCHANGED serverVars
    PROVE  IInv'
<1> DEFINE c == turn[id]
           k == Min({toSend[id], Capacity - up[c]})
<1>1. /\ tpc[id] = "sending" /\ toSend[id] > 0 /\ up[c] < Capacity
      /\ up' = [up EXCEPT ![c] = @ + k] /\ toSend' = [toSend EXCEPT ![id] = @ - k]
      /\ UNCHANGED <<listening, clientEnd, serverEnd, down, tpc, turn, g_bRun>>
  BY DEF SendSome
<1>2. SocketsTypeOK /\ toSend[id] \in 0 .. SendLen /\ turn[id] <= end(id)
  BY <1>1, ClientTypes
<1>3. c \in Clients
  BY <1>2, InTurn
<1>4. up[c] \in 0 .. Capacity
  BY <1>2, <1>3 DEF SocketsTypeOK
<1>5. k \in Nat /\ k <= toSend[id] /\ up[c] + k <= Capacity
  <2>1. toSend[id] \in Nat /\ Capacity - up[c] \in Nat
    BY <1>2, <1>4, Bounds
  <2> QED BY <1>4, <2>1, MinIs, Bounds
<1> HIDE DEF c, k
<1>6. up' \in [Clients -> 0 .. Capacity] /\ down' \in [Clients -> 0 .. Capacity]
  <2>1. up[c] + k \in 0 .. Capacity
    BY <1>4, <1>5, Bounds
  <2> QED BY <1>1, <1>2, <2>1 DEF SocketsTypeOK
<1>7. clientEnd' \in [Clients -> {"none", "open", "closed"}] /\ clientEnd' = clientEnd
  BY <1>1, <1>2 DEF SocketsTypeOK
<1>8. toSend' = [toSend EXCEPT ![id] = toSend[id] - k] /\ toSend[id] - k \in 0 .. SendLen
  BY <1>1, <1>2, <1>5, Bounds
<1>9. \A e \in Clients : ServerReadable(e) => up'[e] > 0 \/ clientEnd'[e] = "closed"
  <2>1. \A e \in Clients : up[e] \in Nat /\ up'[e] \in {up[e], up[e] + k}
    BY <1>1, <1>2, Bounds DEF SocketsTypeOK
  <2> QED BY <1>5, <1>7, <2>1 DEF ServerReadable
<1>10. tpc' = [tpc EXCEPT ![id] = "sending"] /\ turn' = [turn EXCEPT ![id] = turn[id]]
  BY <1>1, ClientTypes
<1>11. UNCHANGED <<listening, serverEnd, g_bRun>>
  BY <1>1
<1> QED BY <1>2, <1>6, <1>7, <1>8, <1>9, <1>10, <1>11, ClientTypes, ThreadStep

\* Ends of connections in the client program.
LEMMA ClosedEnds ==
    ASSUME IInv, NEW C, ClientCloses(C)
    PROVE  /\ clientEnd' \in [Clients -> {"none", "open", "closed"}]
           /\ down' \in [Clients -> 0 .. Capacity]
           /\ \A c \in Clients : clientEnd[c] = "closed" => clientEnd'[c] = "closed"
           /\ \A c \in Clients \ C : clientEnd'[c] = clientEnd[c]
<1>1. /\ clientEnd \in [Clients -> {"none", "open", "closed"}]
      /\ down \in [Clients -> 0 .. Capacity]
  BY DEF IInv, CountOK, TypeOK, SocketsTypeOK
<1>2. 0 \in 0 .. Capacity
  BY Bounds
<1> QED BY <1>1, <1>2 DEF ClientCloses

LEMMA ProcessExitsIInv == ASSUME IInv, ProcessExits, UNCHANGED serverVars PROVE IInv'
<1>1. /\ tpc' = [id \in Threads |-> "end"] /\ toSend' = [id \in Threads |-> 0]
      /\ ClientCloses(Clients) /\ UNCHANGED <<listening, serverEnd, up, turn, g_bRun>>
  BY DEF ProcessExits
<1>2. TypeOK /\ TurnsOK
  BY DEF IInv, CountOK
<1>3. SocketsTypeOK'
  BY <1>1, <1>2, ClosedEnds DEF TypeOK, SocketsTypeOK
<1>4. ClientTypeOK'
  <2>1. 0 \in 0 .. SendLen
    BY Bounds
  <2> QED BY <1>1, <1>2, <2>1 DEF TypeOK, ClientTypeOK
<1>5. TurnsOK' /\ NewOK'
  BY <1>1, <1>2 DEF TurnsOK, NewOK, begin, end
<1>6. \A c \in Clients : ServerReadable(c) => up'[c] > 0 \/ clientEnd'[c] = "closed"
  BY <1>1, ClosedEnds DEF ServerReadable
<1> QED BY <1>1, <1>3, <1>4, <1>5, <1>6, ClientStep

LEMMA SendDataFailsIInv ==
    ASSUME IInv, NEW id \in Threads, SendDataFails(id), UNCHANGED serverVars
    PROVE  IInv'
<1> SUFFICES ASSUME ~ProcessExits PROVE IInv'
  BY ProcessExitsIInv
<1>1. /\ tpc[id] = "sending" /\ ClientCloses({turn[id]}) /\ toSend' = [toSend EXCEPT ![id] = 0]
      /\ NextClient(id) /\ UNCHANGED <<listening, serverEnd, up, g_bRun>>
  BY DEF SendDataFails
<1>2. SocketsTypeOK /\ turn[id] <= end(id)
  BY <1>1, ClientTypes
<1>3. turn[id] \in Mine(id) /\ turn[id] + 1 \in begin(id) .. end(id) + 1
  BY <1>2, ClientTypes, InTurn, Shares DEF Mine
<1>4. /\ tpc' = [tpc EXCEPT ![id] = "send"] /\ turn' = [turn EXCEPT ![id] = turn[id] + 1]
  BY <1>1 DEF NextClient
<1>5. up' \in [Clients -> 0 .. Capacity]
  BY <1>1, <1>2 DEF SocketsTypeOK
<1>6. \A c \in Clients \ Mine(id) : clientEnd'[c] = clientEnd[c]
  BY <1>1, <1>3, ClosedEnds
<1>7. \A c \in Clients : ServerReadable(c) => up'[c] > 0 \/ clientEnd'[c] = "closed"
  BY <1>1, ClosedEnds DEF ServerReadable
<1>8. 0 \in 0 .. SendLen
  BY Bounds
<1>9. /\ clientEnd' \in [Clients -> {"none", "open", "closed"}]
      /\ down' \in [Clients -> 0 .. Capacity]
  BY <1>1, ClosedEnds
<1> QED BY <1>1, <1>3, <1>4, <1>5, <1>6, <1>7, <1>8, <1>9, ThreadStep

LEMMA OnRunIInv ==
    ASSUME IInv, NEW id \in Threads, OnRun(id), UNCHANGED serverVars
    PROVE  IInv'
<1> DEFINE c == turn[id]
<1>1. /\ tpc[id] = "sending" /\ NextClient(id)
      /\ UNCHANGED <<listening, serverEnd, up, toSend, g_bRun>>
      /\ \/ down' = [down EXCEPT ![c] = 0] /\ clientEnd' = clientEnd
         \/ down' = down /\ clientEnd' = clientEnd
         \/ ClientCloses({c})
  BY DEF OnRun
<1>2. SocketsTypeOK /\ c <= end(id)
  BY <1>1, ClientTypes
<1>3. c \in Mine(id) /\ c \in Clients /\ c + 1 \in begin(id) .. end(id) + 1
  BY <1>2, ClientTypes, InTurn, Shares DEF Mine
<1>4. /\ tpc' = [tpc EXCEPT ![id] = "send"] /\ turn' = [turn EXCEPT ![id] = turn[id] + 1]
  BY <1>1 DEF NextClient
<1>5. up' \in [Clients -> 0 .. Capacity]
  BY <1>1, <1>2 DEF SocketsTypeOK
<1> HIDE DEF c
<1>6. /\ down' \in [Clients -> 0 .. Capacity]
      /\ clientEnd' \in [Clients -> {"none", "open", "closed"}]
      /\ \A e \in Clients : clientEnd[e] = "closed" => clientEnd'[e] = "closed"
      /\ \A e \in Clients \ {c} : clientEnd'[e] = clientEnd[e]
  <2>1. CASE down' = [down EXCEPT ![c] = 0] /\ clientEnd' = clientEnd
    <3>1. 0 \in 0 .. Capacity
      BY Bounds
    <3> QED BY <1>2, <2>1, <3>1 DEF SocketsTypeOK
  <2>2. CASE down' = down /\ clientEnd' = clientEnd
    BY <1>2, <2>2 DEF SocketsTypeOK
  <2>3. CASE ClientCloses({c})
    BY <2>3, ClosedEnds
  <2> QED BY <1>1, <2>1, <2>2, <2>3 DEF c
<1>7. \A e \in Clients : ServerReadable(e) => up'[e] > 0 \/ clientEnd'[e] = "closed"
  BY <1>1, <1>6 DEF ServerReadable
<1>8. toSend' = [toSend EXCEPT ![id] = toSend[id]] /\ toSend[id] \in 0 .. SendLen
  BY <1>1, ClientTypes
<1>9. \A e \in Clients \ Mine(id) : clientEnd'[e] = clientEnd[e]
  BY <1>3, <1>6
<1>10. turn[id] + 1 \in begin(id) .. end(id) + 1
  BY <1>3 DEF c
<1> QED BY <1>1, <1>4, <1>5, <1>6, <1>7, <1>8, <1>9, <1>10, ThreadStep

LEMMA ThreadEndsIInv ==
    ASSUME IInv, NEW id \in Threads, ThreadEnds(id), UNCHANGED serverVars
    PROVE  IInv'
<1>1. /\ tpc' = [tpc EXCEPT ![id] = "end"] /\ ClientCloses(Mine(id))
      /\ UNCHANGED <<listening, serverEnd, up, turn, toSend, g_bRun>>
  BY DEF ThreadEnds, Mine
<1>2. SocketsTypeOK
  BY ClientTypes
<1>3. up' \in [Clients -> 0 .. Capacity]
  BY <1>1, <1>2 DEF SocketsTypeOK
<1>4. /\ clientEnd' \in [Clients -> {"none", "open", "closed"}]
      /\ down' \in [Clients -> 0 .. Capacity]
      /\ \A c \in Clients \ Mine(id) : clientEnd'[c] = clientEnd[c]
  BY <1>1, ClosedEnds
<1>5. \A c \in Clients : ServerReadable(c) => up'[c] > 0 \/ clientEnd'[c] = "closed"
  BY <1>1, ClosedEnds DEF ServerReadable
<1>6. toSend' = [toSend EXCEPT ![id] = toSend[id]] /\ turn' = [turn EXCEPT ![id] = turn[id]]
  BY <1>1, ClientTypes
<1>7. toSend[id] \in 0 .. SendLen /\ turn[id] \in begin(id) .. end(id) + 1
  BY ClientTypes
<1> QED BY <1>1, <1>3, <1>4, <1>5, <1>6, <1>7, ThreadStep

------------------------------------------------------------------------------
(* The main thread of the server.                                          *)

LEMMA VisitIn ==
    ASSUME IInv, NEW h \in Cells, NEW j \in ToVisit(h)
    PROVE  j \in Listed(h) /\ list[h][j] \in Clients /\ serverEnd[list[h][j]] = "open"
<1>1. TypeOK /\ PassOK(h) /\ HeldOpen
  BY DEF IInv, CountOK
<1>2. n[h] \in Nat /\ Len(list[h]) \in Nat
  BY <1>1, Vectors DEF TypeOK
<1>3. j \in Listed(h)
  BY <1>1, <1>2 DEF ToVisit, PassOK, Listed
<1> QED BY <1>1, <1>3, Vectors DEF HeldOpen

\* A step of the server leaves the client program's variables alone.
LEMMA ServerTurns ==
    ASSUME IInv, UNCHANGED clientVars, clientEnd' = clientEnd,
           \A c \in Clients : serverEnd[c] = "none" => serverEnd'[c] = "none"
    PROVE  TurnsOK' /\ NewOK'
<1>1. TurnsOK /\ NewOK /\ tpc' = tpc /\ turn' = turn
  BY DEF IInv, clientVars
<1> QED BY <1>1, KeepTurns

\* Ends of connections in the server.
LEMMA ClosedServerEnds ==
    ASSUME IInv, NEW C, ServerCloses(C)
    PROVE  /\ serverEnd' \in [Clients -> {"none", "backlog", "open", "closed"}]
           /\ up' \in [Clients -> 0 .. Capacity]
           /\ \A c \in Clients : serverEnd[c] = "none" => serverEnd'[c] = "none"
           /\ \A c \in Clients \ C : serverEnd'[c] = serverEnd[c] /\ up'[c] = up[c]
<1>1. /\ serverEnd \in [Clients -> {"none", "backlog", "open", "closed"}]
      /\ up \in [Clients -> 0 .. Capacity]
  BY DEF IInv, CountOK, TypeOK, SocketsTypeOK
<1>2. 0 \in 0 .. Capacity
  BY Bounds
<1> QED BY <1>1, <1>2 DEF ServerCloses

Late == IF apc = "join" THEN 1 ELSE 0

\* A step of the main thread that leaves the cells alone, and the ends of their
\* clients.
LEMMA MainStep ==
    ASSUME IInv, UNCHANGED clientVars,
           UNCHANGED <<clientEnd, down, pc, buff, list, ready, n, lastPos, left>>,
           apc' \in {"run", "add", "exit"}, accepted' \in Clients \cup {NoClient},
           clientCount' \in Int, clientCount' + Late' = clientCount + Late,
           listening' \in BOOLEAN,
           serverEnd' \in [Clients -> {"none", "backlog", "open", "closed"}],
           up' \in [Clients -> 0 .. Capacity],
           \A c \in Clients : serverEnd[c] = "none" => serverEnd'[c] = "none",
           \A c \in Clients : serverEnd[c] = "open" =>
               serverEnd'[c] = "open" /\ up'[c] = up[c],
           AddedOK'
    PROVE  IInv'
<1>1. TypeOK /\ CountOK /\ CutOK
  BY DEF IInv, CountOK
<1>2. SocketsTypeOK'
  BY <1>1 DEF TypeOK, SocketsTypeOK
<1>3. TypeOK'
  <2>1. apc' \in {"init", "run", "add", "join", "exit", "gone"}
    OBVIOUS
  <2> QED BY <1>1, <1>2, <2>1 DEF TypeOK, clientVars
<1>4. CountOK'
  <2>1. Places' = Places
    BY DEF Places, getClientCount
  <2> QED BY <1>1, <1>3, <2>1 DEF CountOK, Late
<1>5. Placed'
  BY KeepPlaced DEF IInv
<1>6. HeldOpen'
  BY <1>1, KeepHeld DEF IInv
<1>7. TurnsOK' /\ NewOK'
  BY ServerTurns
<1>8. ASSUME NEW h \in Cells PROVE (PassOK(h) /\ ReadyOK(h))'
  <2>1. \A j \in ToVisit(h) : ServerReadable(list[h][j]) =>
            up'[list[h][j]] > 0 \/ clientEnd'[list[h][j]] = "closed"
    BY VisitIn DEF ServerReadable
  <2> QED BY <2>1, KeepPass DEF IInv
<1>9. CutOK'
  BY <1>1 DEF CutOK, Parsing
<1> QED BY <1>4, <1>5, <1>6, <1>7, <1>8, <1>9 DEF IInv

LEMMA StartIInv == ASSUME IInv, Start, UNCHANGED clientVars PROVE IInv'
<1>1. /\ apc = "init" /\ apc' = "run" /\ listening' \in BOOLEAN
      /\ UNCHANGED <<clientEnd, serverEnd, up, down, accepted, clientCount, buff, list, ready,
                     n, lastPos, left>>
  BY DEF Start
<1>2. pc' \in [Cells -> {"loop", "end"}]
  BY DEF Start
<1>3. TypeOK /\ CutOK /\ \A h \in Cells : pc[h] = "init"
  BY <1>1 DEF IInv, CountOK, PassOK
<1>4. TypeOK'
  <2>1. SocketsTypeOK'
    BY <1>1, <1>3 DEF TypeOK, SocketsTypeOK
  <2>2. pc' \in [Cells -> {"init", "loop", "select", "pass", "parse", "reply", "end"}]
    BY <1>2
  <2> QED BY <1>1, <1>3, <2>1, <2>2 DEF TypeOK, clientVars
<1>5. CountOK'
  <2>1. Counts' = Counts /\ clientCount' = clientCount
    BY <1>1 DEF Counts
  <2>2. CountOK /\ apc' # "join" /\ apc # "join"
    BY <1>1 DEF IInv
  <2>3. \A h \in Cells : pc[h] = "end" => pc'[h] = "end"
    BY <1>3
  <2> QED BY <1>4, <2>1, <2>2, <2>3, KeepCount
<1>6. Placed' /\ HeldOpen'
  BY <1>1, <1>3, KeepPlaced, KeepHeld DEF IInv
<1>7. AddedOK'
  BY <1>1 DEF AddedOK
<1>8. TurnsOK' /\ NewOK'
  BY <1>1, ServerTurns
<1>9. ASSUME NEW h \in Cells PROVE (PassOK(h) /\ ReadyOK(h))'
  <2>1. pc'[h] \in {"loop", "end"}
    BY <1>2
  <2> QED BY <1>1, <2>1 DEF PassOK, ReadyOK, ToVisit, Parsing
<1>10. CutOK'
  BY <1>1, <1>3 DEF CutOK, Parsing
<1> QED BY <1>5, <1>6, <1>7, <1>8, <1>9, <1>10 DEF IInv

LEMMA AcceptIInv == ASSUME IInv, Accept, UNCHANGED clientVars PROVE IInv'
<1>1. /\ apc = "run"
      /\ UNCHANGED <<listening, clientEnd, down, clientCount, pc, buff, list, ready, n,
                     lastPos, left>>
  BY DEF Accept
<1>2. PICK c \in Backlog :
         \/ /\ serverEnd' = [serverEnd EXCEPT ![c] = "open"] /\ UNCHANGED up
            /\ apc' = "add" /\ accepted' = c
         \/ ServerCloses({c}) /\ UNCHANGED main
  BY DEF Accept
<1>3. c \in Clients /\ serverEnd[c] = "backlog"
  BY DEF Backlog
<1>4. TypeOK /\ HeldOpen
  BY DEF IInv, CountOK
<1>5. CASE serverEnd' = [serverEnd EXCEPT ![c] = "open"] /\ UNCHANGED up
           /\ apc' = "add" /\ accepted' = c
  <2>1. /\ serverEnd' \in [Clients -> {"none", "backlog", "open", "closed"}]
        /\ up' \in [Clients -> 0 .. Capacity]
        /\ \A e \in Clients : serverEnd[e] = "none" => serverEnd'[e] = "none"
        /\ \A e \in Clients : serverEnd[e] = "open" => serverEnd'[e] = "open" /\ up'[e] = up[e]
    BY <1>3, <1>4, <1>5 DEF TypeOK, SocketsTypeOK
  <2>2. AddedOK'
    <3>1. serverEnd'[c] = "open"
      BY <1>3, <1>4, <1>5 DEF TypeOK, SocketsTypeOK
    <3>2. \A h \in Cells : \A j \in Listed(h) : list[h][j] # c
      BY <1>3, <1>4 DEF HeldOpen
    <3>3. \A h \in Cells : \A j \in Buffered(h) : buff[h][j] # c
      BY <1>3, <1>4 DEF HeldOpen
    <3> QED BY <1>1, <1>3, <1>5, <3>1, <3>2, <3>3 DEF AddedOK, Listed, Buffered
  <2>3. /\ clientCount' \in Int /\ listening' \in BOOLEAN
        /\ clientCount' + Late' = clientCount + Late
    BY <1>1, <1>4, <1>5 DEF TypeOK, SocketsTypeOK, Late
  <2>4. accepted' \in Clients \cup {NoClient} /\ apc' \in {"run", "add", "exit"}
    BY <1>3, <1>5
  <2> QED BY <1>1, <2>1, <2>2, <2>3, <2>4, MainStep
<1>6. CASE ServerCloses({c}) /\ UNCHANGED main
  <2>1. /\ serverEnd' \in [Clients -> {"none", "backlog", "open", "closed"}]
        /\ up' \in [Clients -> 0 .. Capacity]
        /\ \A e \in Clients : serverEnd[e] = "none" => serverEnd'[e] = "none"
    BY <1>6, ClosedServerEnds
  <2>2. \A e \in Clients : serverEnd[e] = "open" => serverEnd'[e] = "open" /\ up'[e] = up[e]
    BY <1>3, <1>6, ClosedServerEnds
  <2>3. apc' = apc /\ accepted' = accepted
    BY <1>6 DEF main
  <2>4. AddedOK'
    BY <1>1, <2>3 DEF AddedOK
  <2>5. clientCount' \in Int /\ listening' \in BOOLEAN
    BY <1>1, <1>4 DEF TypeOK, SocketsTypeOK
  <2>6. clientCount' + Late' = clientCount + Late
    BY <1>1, <2>3 DEF Late
  <2>7. accepted' \in Clients \cup {NoClient} /\ apc' \in {"run", "add", "exit"}
    BY <1>1, <1>4, <2>3 DEF TypeOK
  <2> QED BY <1>1, <2>1, <2>2, <2>4, <2>5, <2>6, <2>7, MainStep
<1> QED BY <1>2, <1>5, <1>6

LEMMA OnNetJoinIInv == ASSUME IInv, OnNetJoin, UNCHANGED clientVars PROVE IInv'
<1>1. /\ apc = "join" /\ apc' = "run" /\ accepted' = NoClient /\ clientCount' = clientCount + 1
      /\ UNCHANGED <<listening, clientEnd, serverEnd, up, down>>
      /\ UNCHANGED <<pc, buff, list, ready, n, lastPos, left>>
  BY DEF OnNetJoin, sockets
<1>2. TypeOK
  BY DEF IInv, CountOK
<1>3. /\ listening' \in BOOLEAN /\ up' \in [Clients -> 0 .. Capacity]
      /\ serverEnd' \in [Clients -> {"none", "backlog", "open", "closed"}]
  BY <1>1, <1>2 DEF TypeOK, SocketsTypeOK
<1>4. clientCount' \in Int /\ clientCount' + Late' = clientCount + Late
  BY <1>1, <1>2 DEF TypeOK, Late
<1>5. AddedOK'
  BY <1>1 DEF AddedOK
<1> QED BY <1>1, <1>3, <1>4, <1>5, MainStep

LEMMA CloseIInv == ASSUME IInv, Close, UNCHANGED clientVars PROVE IInv'
<1>1. /\ apc = "run" /\ apc' = "exit" /\ listening' = FALSE /\ ServerCloses(Backlog)
      /\ UNCHANGED <<clientEnd, down, accepted, clientCount, pc, buff, list, ready, n, lastPos,
                     left>>
  BY DEF Close
<1>2. TypeOK
  BY DEF IInv, CountOK
<1>3. /\ serverEnd' \in [Clients -> {"none", "backlog", "open", "closed"}]
      /\ up' \in [Clients -> 0 .. Capacity]
      /\ \A c \in Clients : serverEnd[c] = "none" => serverEnd'[c] = "none"
  BY <1>1, ClosedServerEnds
<1>4. \A c \in Clients : serverEnd[c] = "open" => serverEnd'[c] = "open" /\ up'[c] = up[c]
  <2>1. \A c \in Clients : serverEnd[c] = "open" => c \notin Backlog
    BY DEF Backlog
  <2> QED BY <1>1, <2>1, ClosedServerEnds
<1>5. clientCount' \in Int /\ clientCount' + Late' = clientCount + Late
  BY <1>1, <1>2 DEF TypeOK, Late
<1>6. AddedOK'
  BY <1>1 DEF AddedOK
<1>7. accepted' \in Clients \cup {NoClient}
  BY <1>1, <1>2 DEF TypeOK
<1> QED BY <1>1, <1>3, <1>4, <1>5, <1>6, <1>7, MainStep

LEMMA addClientIInv == ASSUME IInv, addClientToCellServer, UNCHANGED clientVars PROVE IInv'
<1>1. /\ apc = "add" /\ apc' = "join"
      /\ UNCHANGED <<listening, clientEnd, serverEnd, up, down>>
      /\ UNCHANGED <<accepted, clientCount, pc, list, ready, n, lastPos, left>>
  BY DEF addClientToCellServer, sockets
<1>2. PICK h \in Cells : buff' = [buff EXCEPT ![h] = Append(@, accepted)]
  BY DEF addClientToCellServer
<1>3. TypeOK /\ CountOK /\ Placed /\ HeldOpen /\ AddedOK /\ CutOK
  BY DEF IInv, CountOK
<1>4. PICK c \in Clients : c = accepted
  BY <1>1, <1>3 DEF AddedOK
<1>5. PICK s \in Seq(Clients) : s = buff[h]
  BY <1>3 DEF TypeOK
<1>6. /\ Len(s) \in Nat /\ Append(s, c) \in Seq(Clients) /\ Len(Append(s, c)) = Len(s) + 1
      /\ \A j \in 1 .. Len(s) : Append(s, c)[j] = s[j]
      /\ Append(s, c)[Len(s) + 1] = c
  BY AppendIs, SeqIs
<1>7. buff'[h] = Append(s, c) /\ \A g \in Cells \ {h} : buff'[g] = buff[g]
  BY <1>2, <1>3, <1>4, <1>5 DEF TypeOK
<1>8. TypeOK'
  <2>1. SocketsTypeOK'
    BY <1>1, <1>3 DEF TypeOK, SocketsTypeOK
  <2>2. buff' \in [Cells -> Seq(Clients)]
    BY <1>2, <1>3, <1>4, <1>5, <1>6 DEF TypeOK
  <2> QED BY <1>1, <1>3, <2>1, <2>2 DEF TypeOK, clientVars
<1>9. CountOK'
  <2>1. Counts' = [Counts EXCEPT ![h] = @ + 1]
    <3>1. PICK a \in Nat, b \in Nat : a = Len(list[h]) /\ b = Len(buff[h])
      BY <1>3, Vectors
    <3>2. Len(list'[h]) + Len(buff'[h]) = (Len(list[h]) + Len(buff[h])) + 1
      <4>1. Len(list'[h]) = a /\ Len(buff'[h]) = b + 1
        BY <1>1, <1>5, <1>6, <1>7, <3>1
      <4>2. a + (b + 1) = (a + b) + 1
        OBVIOUS
      <4> QED BY <3>1, <4>1, <4>2, Zenon
    <3>3. \A g \in Cells \ {h} : Len(list'[g]) + Len(buff'[g]) = Len(list[g]) + Len(buff[g])
      BY <1>1, <1>7
    <3> QED BY <3>2, <3>3 DEF Counts
  <2>2. Counts \in [Cells -> Nat] /\ Places = SlotsOf(Counts) /\ Cardinality(Places) \in Nat
    BY <1>3, PlacesAre
  <2>3. Places' = SlotsOf(Counts')
    BY DEF Places, SlotsOf, Counts, getClientCount
  <2>4. Cardinality(Places') = Cardinality(Places) + 1
    BY <2>1, <2>2, <2>3, SlotsMore
  <2>5. clientCount \in Int /\ clientCount' = clientCount
    BY <1>1, <1>3 DEF TypeOK
  <2> QED BY <1>1, <1>3, <1>8, <2>2, <2>4, <2>5 DEF CountOK
<1>10. \A g \in Cells : \A j \in Buffered(g)' :
           \/ j \in Buffered(g) /\ buff'[g][j] = buff[g][j]
           \/ g = h /\ j = Len(s) + 1 /\ buff'[g][j] = c
  <2>1. ASSUME NEW g \in Cells, NEW j \in Buffered(g)'
        PROVE  \/ j \in Buffered(g) /\ buff'[g][j] = buff[g][j]
               \/ g = h /\ j = Len(s) + 1 /\ buff'[g][j] = c
    <3>1. CASE g = h
      <4>1. j \in 1 .. Len(s) + 1
        BY <1>6, <1>7, <2>1, <3>1 DEF Buffered
      <4>2. CASE j \in 1 .. Len(s)
        BY <1>5, <1>6, <1>7, <3>1, <4>2 DEF Buffered
      <4>3. CASE j = Len(s) + 1
        BY <1>6, <1>7, <3>1, <4>3
      <4> QED BY <1>6, <4>1, <4>2, <4>3
    <3>2. CASE g # h
      BY <1>7, <2>1, <3>2 DEF Buffered
    <3> QED BY <3>1, <3>2
  <2> QED BY <2>1
<1>11. \A g \in Cells : Listed(g)' = Listed(g)
  BY <1>1 DEF Listed
<1>12. /\ \A g \in Cells : \A j \in Buffered(g) : buff[g][j] # c
       /\ \A g \in Cells : \A j \in Listed(g) : list[g][j] # c
       /\ serverEnd[c] = "open"
  BY <1>1, <1>3, <1>4 DEF AddedOK
<1>13. Placed'
  <2>1. ListedOnce'
    BY <1>1, <1>3 DEF Placed, ListedOnce, Listed
  <2>2. BufferedOnce'
    <3>1. ASSUME NEW g \in Cells, NEW e \in Cells, NEW j \in Buffered(g)',
                 NEW m \in Buffered(e)', buff'[g][j] = buff'[e][m]
          PROVE  g = e /\ j = m
      <4>1. /\ \/ j \in Buffered(g) /\ buff'[g][j] = buff[g][j]
               \/ g = h /\ j = Len(s) + 1 /\ buff'[g][j] = c
            /\ \/ m \in Buffered(e) /\ buff'[e][m] = buff[e][m]
               \/ e = h /\ m = Len(s) + 1 /\ buff'[e][m] = c
        BY <1>10
      <4> QED BY <1>3, <1>12, <3>1, <4>1 DEF Placed, BufferedOnce
    <3> QED BY <3>1 DEF BufferedOnce
  <2>3. ListedOrBuffered'
    <3>1. ASSUME NEW g \in Cells, NEW e \in Cells, NEW j \in Listed(g), NEW m \in Buffered(e)'
          PROVE  list[g][j] # buff'[e][m]
      <4>1. \/ m \in Buffered(e) /\ buff'[e][m] = buff[e][m]
            \/ e = h /\ m = Len(s) + 1 /\ buff'[e][m] = c
        BY <1>10
      <4> QED BY <1>3, <1>12, <4>1 DEF Placed, ListedOrBuffered
    <3> QED BY <1>1, <1>11, <3>1 DEF ListedOrBuffered
  <2> QED BY <2>1, <2>2, <2>3 DEF Placed
<1>14. HeldOpen'
  <2>1. ASSUME NEW g \in Cells, NEW j \in Buffered(g)'
        PROVE  serverEnd'[buff'[g][j]] = "open"
    BY <1>1, <1>3, <1>10, <1>12, <2>1 DEF HeldOpen
  <2> QED BY <1>1, <1>3, <1>11, <2>1 DEF HeldOpen
<1>15. AddedOK'
  BY <1>1 DEF AddedOK
<1>16. TurnsOK' /\ NewOK'
  BY <1>1, ServerTurns
<1>17. ASSUME NEW g \in Cells PROVE (PassOK(g) /\ ReadyOK(g))'
  BY <1>1, KeepPass DEF IInv, ServerReadable
<1>18. CutOK'
  BY <1>1, <1>3 DEF CutOK, Parsing
<1> QED BY <1>9, <1>13, <1>14, <1>15, <1>16, <1>17, <1>18 DEF IInv

LEMMA ProcessEndsIInv == ASSUME IInv, ProcessEnds, UNCHANGED clientVars PROVE IInv'
<1>1. /\ apc' = "gone" /\ pc' = [h \in Cells |-> "end"] /\ listening' = FALSE
      /\ ServerCloses(Clients)
      /\ buff' = [h \in Cells |-> << >>] /\ list' = [h \in Cells |-> << >>]
      /\ ready' = [h \in Cells |-> {}] /\ n' = [h \in Cells |-> 0]
      /\ lastPos' = [c \in Clients |-> 0] /\ left' = [h \in Cells |-> 0]
      /\ accepted' = NoClient /\ clientCount' = 0
      /\ clientEnd' = clientEnd /\ down' = down
  BY DEF ProcessEnds
<1>2. TypeOK
  BY DEF IInv, CountOK
<1>3. TypeOK'
  <2>1. SocketsTypeOK'
    BY <1>1, <1>2, ClosedServerEnds DEF TypeOK, SocketsTypeOK
  <2>2. << >> \in Seq(Clients)
    BY EmptySeq
  <2>3. lastPos' \in [Clients -> 0 .. MsgBufSize] /\ left' \in [Cells -> 0 .. MsgLen]
    BY <1>1, Bounds
  <2>4. buff' \in [Cells -> Seq(Clients)] /\ list' \in [Cells -> Seq(Clients)]
    BY <1>1, <2>2
  <2>5. /\ pc' \in [Cells -> {"init", "loop", "select", "pass", "parse", "reply", "end"}]
        /\ ready' \in [Cells -> SUBSET Clients] /\ n' \in [Cells -> Nat] /\ clientCount' \in Int
    BY <1>1
  <2> QED BY <1>1, <1>2, <2>1, <2>3, <2>4, <2>5 DEF TypeOK, clientVars
<1>4. CountOK'
  <2>1. \A h \in Cells : getClientCount(h)' = 0
    BY <1>1, EmptySeq DEF getClientCount
  <2>2. Places' = {}
    <3>1. 1 .. 0 = {}
      OBVIOUS
    <3> QED BY <2>1, <3>1 DEF Places
  <2> QED BY <1>1, <1>3, <2>2, FS_EmptySet DEF CountOK
<1>5. \A h \in Cells : Listed(h)' = {} /\ Buffered(h)' = {}
  BY <1>1, EmptySeq DEF Listed, Buffered
<1>6. Placed' /\ HeldOpen'
  BY <1>5 DEF Placed, ListedOnce, BufferedOnce, ListedOrBuffered, HeldOpen
<1>7. AddedOK'
  BY <1>1 DEF AddedOK
<1>8. TurnsOK' /\ NewOK'
  BY <1>1, ClosedServerEnds, ServerTurns
<1>9. ASSUME NEW h \in Cells PROVE (PassOK(h) /\ ReadyOK(h))'
  BY <1>1 DEF PassOK, ReadyOK, ToVisit, Parsing
<1>10. CutOK'
  BY <1>1, Bounds DEF CutOK
<1> QED BY <1>4, <1>6, <1>7, <1>8, <1>9, <1>10 DEF IInv

------------------------------------------------------------------------------
(* The cells' threads.                                                     *)

PCs == {"init", "loop", "select", "pass", "parse", "reply", "end"}

\* A step of a cell's thread that leaves the vectors alone.
LEMMA CellStep ==
    ASSUME IInv, NEW h \in Cells, UNCHANGED clientVars,
           UNCHANGED <<listening, clientEnd, serverEnd, main, clientCount, buff, list>>,
           up' \in [Clients -> 0 .. Capacity], down' \in [Clients -> 0 .. Capacity],
           NEW p \in PCs, pc[h] # "end", pc' = [pc EXCEPT ![h] = p],
           ready' \in [Cells -> SUBSET Clients], n' \in [Cells -> Nat],
           \A g \in Cells \ {h} : ready'[g] = ready[g] /\ n'[g] = n[g],
           lastPos' \in [Clients -> 0 .. MsgBufSize], left' \in [Cells -> 0 .. MsgLen],
           \A g \in Cells \ {h} : \A j \in ToVisit(g) : up'[list[g][j]] = up[list[g][j]],
           PassOK(h)', ReadyOK(h)', CutOK'
    PROVE  IInv'
<1>1. TypeOK /\ CountOK
  BY DEF IInv, CountOK
<1>2. apc' = apc /\ accepted' = accepted
  BY DEF main
<1>3. TypeOK'
  <2>1. SocketsTypeOK'
    BY <1>1 DEF TypeOK, SocketsTypeOK
  <2>2. pc' \in [Cells -> PCs]
    BY <1>1 DEF TypeOK, PCs
  <2> QED BY <1>1, <1>2, <2>1, <2>2 DEF TypeOK, clientVars, PCs
<1>4. pc'[h] = p /\ \A g \in Cells \ {h} : pc'[g] = pc[g]
  BY <1>1 DEF TypeOK
<1>5. CountOK'
  <2>1. Counts' = Counts
    BY DEF Counts
  <2>2. \A g \in Cells : pc[g] = "end" => pc'[g] = "end"
    BY <1>4
  <2> QED BY <1>1, <1>2, <1>3, <2>1, <2>2, KeepCount
<1>6. Placed' /\ HeldOpen' /\ AddedOK'
  BY <1>1, <1>2, KeepPlaced, KeepHeld, KeepAdded DEF IInv
<1>7. TurnsOK' /\ NewOK'
  BY ServerTurns
<1>8. ASSUME NEW g \in Cells \ {h} PROVE (PassOK(g) /\ ReadyOK(g))'
  <2>1. \A j \in ToVisit(g) : ServerReadable(list[g][j]) =>
            up'[list[g][j]] > 0 \/ clientEnd'[list[g][j]] = "closed"
    BY DEF ServerReadable
  <2>2. /\ apc' = "init" => apc = "init"
        /\ pc'[g] = pc[g] /\ n'[g] = n[g] /\ list'[g] = list[g] /\ ready'[g] = ready[g]
    BY <1>2, <1>4
  <2> QED BY <2>1, <2>2, KeepPass DEF IInv
<1>9. \A g \in Cells : (PassOK(g) /\ ReadyOK(g))'
  BY <1>8
<1> QED BY <1>5, <1>6, <1>7, <1>9 DEF IInv

\* What an action of a cell's thread begins with.
LEMMA CellTypes ==
    ASSUME IInv, NEW h \in Cells
    PROVE  /\ TypeOK /\ SocketsTypeOK /\ Placed /\ CutOK
           /\ PassOK(h) /\ ReadyOK(h) /\ HeldOpen
           /\ n[h] \in Nat /\ Len(list[h]) \in Nat
           /\ up \in [Clients -> 0 .. Capacity] /\ down \in [Clients -> 0 .. Capacity]
           /\ pc \in [Cells -> PCs] /\ pc = [pc EXCEPT ![h] = pc[h]] /\ pc[h] \in PCs
           /\ ready \in [Cells -> SUBSET Clients] /\ n \in [Cells -> Nat]
           /\ lastPos \in [Clients -> 0 .. MsgBufSize] /\ left \in [Cells -> 0 .. MsgLen]
           /\ apc = "init" => pc[h] = "init"
<1>1. TypeOK /\ SocketsTypeOK
  BY DEF IInv, CountOK, TypeOK
<1>2. n[h] \in Nat /\ Len(list[h]) \in Nat
  BY <1>1, Vectors DEF TypeOK
<1>3. pc \in [Cells -> PCs] /\ pc = [pc EXCEPT ![h] = pc[h]] /\ pc[h] \in PCs
  BY <1>1 DEF TypeOK, PCs
<1>4. PassOK(h) /\ ReadyOK(h) /\ Placed /\ CutOK /\ HeldOpen
  BY DEF IInv
<1> QED BY <1>1, <1>2, <1>3, <1>4 DEF TypeOK, SocketsTypeOK, PassOK

\* The client whose turn it is.
LEMMA TurnIs ==
    ASSUME IInv, NEW h \in Cells, Passing(h) \/ Parsing(h)
    PROVE  /\ n[h] \in Listed(h) /\ n[h] >= 1 /\ Turn(h) \in Clients
           /\ \A g \in Cells : \A j \in Listed(g) : list[g][j] = Turn(h) => g = h /\ j = n[h]
<1>1. /\ TypeOK /\ PassOK(h) /\ Placed /\ n[h] \in Nat /\ Len(list[h]) \in Nat
  BY CellTypes
<1>2. n[h] \in Listed(h) /\ n[h] >= 1
  BY <1>1 DEF Passing, PassOK, Listed
<1> QED BY <1>1, <1>2, Vectors DEF Turn, Placed, ListedOnce

\* A client's cut message, where a cell's thread is not parsing, before or after.
LEMMA CutStays ==
    ASSUME IInv, NEW h \in Cells, ~Parsing(h), lastPos' = lastPos,
           \A g \in Cells \ {h} : pc'[g] = pc[g] /\ n'[g] = n[g] /\ list'[g] = list[g]
    PROVE  CutOK'
<1>1. TypeOK /\ CutOK /\ {h} \in SUBSET Cells
  BY CellTypes
<1>2. \A c \in Clients : lastPos'[c] = lastPos[c]
  OBVIOUS
<1>3. \A g \in {h} : ~Parsing(g)
  OBVIOUS
<1> QED BY <1>1, <1>2, <1>3, KeepCut

LEMMA SelectIInv ==
    ASSUME IInv, NEW h \in Cells, Select(h), UNCHANGED clientVars
    PROVE  IInv'
<1>1. /\ pc[h] = "select"
      /\ ready' = [ready EXCEPT ![h] = Readable(h)] /\ n' = [n EXCEPT ![h] = Len(list[h])]
      /\ pc' = [pc EXCEPT ![h] = "pass"]
      /\ UNCHANGED <<listening, clientEnd, serverEnd, main, clientCount, buff, list>>
      /\ UNCHANGED <<up, down, lastPos, left>>
  BY DEF Select, sockets
<1>2. Readable(h) \in SUBSET Clients
  <2>1. Readable(h) \subseteq ToSet(list[h])
    BY DEF Readable
  <2>2. ToSet(list[h]) \subseteq Clients
    BY CellTypes, Vectors
  <2> QED BY <2>1, <2>2
<1>3. /\ ready' \in [Cells -> SUBSET Clients] /\ n' \in [Cells -> Nat]
      /\ ready'[h] = Readable(h) /\ n'[h] = Len(list[h]) /\ pc'[h] = "pass"
      /\ \A g \in Cells \ {h} : ready'[g] = ready[g] /\ n'[g] = n[g] /\ pc'[g] = pc[g]
  BY <1>1, <1>2, CellTypes
<1>4. PassOK(h)'
  BY <1>1, <1>3, CellTypes DEF PassOK, Parsing, main
<1>5. ReadyOK(h)'
  BY <1>1, <1>3 DEF ReadyOK, ServerReadable, Readable
<1>6. CutOK'
  BY <1>1, <1>3, CutStays DEF Parsing
<1>7. up' = up /\ down' = down /\ lastPos' = lastPos /\ left' = left /\ "pass" \in PCs
  BY <1>1 DEF PCs
<1> QED BY <1>1, <1>3, <1>4, <1>5, <1>6, <1>7, CellTypes, CellStep

LEMMA PassEndsIInv ==
    ASSUME IInv, NEW h \in Cells, PassEnds(h), UNCHANGED clientVars
    PROVE  IInv'
<1>1. /\ pc[h] = "pass"
      /\ ready' = [ready EXCEPT ![h] = {}] /\ pc' = [pc EXCEPT ![h] = "loop"]
      /\ UNCHANGED <<listening, clientEnd, serverEnd, main, clientCount, buff, list>>
      /\ UNCHANGED <<up, down, n, lastPos, left>>
  BY DEF PassEnds, sockets
<1>2. /\ ready' \in [Cells -> SUBSET Clients] /\ pc'[h] = "loop"
      /\ \A g \in Cells \ {h} : ready'[g] = ready[g] /\ n'[g] = n[g] /\ pc'[g] = pc[g]
  BY <1>1, CellTypes
<1>3. PassOK(h)'
  BY <1>1, <1>2, CellTypes DEF PassOK, Parsing, main
<1>4. ReadyOK(h)'
  BY <1>2 DEF ReadyOK, ToVisit, Parsing
<1>5. CutOK'
  BY <1>1, <1>2, CutStays DEF Parsing
<1>6. /\ up' = up /\ down' = down /\ n' = n /\ lastPos' = lastPos /\ left' = left
      /\ "loop" \in PCs
  BY <1>1 DEF PCs
<1> QED BY <1>1, <1>2, <1>3, <1>4, <1>5, <1>6, CellTypes, CellStep

LEMMA NothingToRecvIInv ==
    ASSUME IInv, NEW h \in Cells, NothingToRecv(h), UNCHANGED clientVars
    PROVE  IInv'
<1>1. /\ pc[h] = "pass" /\ n[h] > 0 /\ n' = [n EXCEPT ![h] = n[h] - 1]
      /\ UNCHANGED <<listening, clientEnd, serverEnd, main, clientCount, buff, list>>
      /\ UNCHANGED <<up, down, pc, ready, lastPos, left>>
  BY DEF NothingToRecv, Passing, Next1, sockets
<1>2. /\ n' \in [Cells -> Nat] /\ n'[h] = n[h] - 1 /\ pc' = [pc EXCEPT ![h] = "pass"]
      /\ \A g \in Cells \ {h} : ready'[g] = ready[g] /\ n'[g] = n[g] /\ pc'[g] = pc[g]
  BY <1>1, CellTypes
<1>3. PassOK(h)'
  <2>1. PICK a \in Nat : a = n[h]
    BY CellTypes
  <2>2. PICK len \in Nat : len = Len(list[h])
    BY CellTypes
  <2>3. a <= len
    BY <1>1, <2>1, <2>2, CellTypes DEF PassOK
  <2>4. n'[h] <= Len(list'[h])
    BY <1>1, <1>2, <2>1, <2>2, <2>3
  <2>5. apc' = apc /\ pc'[h] = "pass" /\ apc # "init"
    BY <1>1, CellTypes DEF main
  <2> QED BY <2>4, <2>5 DEF PassOK, Parsing
<1>4. ReadyOK(h)'
  <2>1. ToVisit(h)' \subseteq ToVisit(h)
    <3>1. n[h] \in Nat
      BY CellTypes
    <3>2. 1 .. n[h] - 1 \subseteq 1 .. n[h]
      BY <3>1
    <3>3. pc'[h] = "pass" /\ n'[h] = n[h] - 1
      BY <1>1, <1>2
    <3> QED BY <1>1, <3>2, <3>3 DEF ToVisit
  <2> QED BY <1>1, <2>1, CellTypes DEF ReadyOK, ServerReadable
<1>5. CutOK'
  BY <1>1, <1>2, CutStays DEF Parsing
<1>6. /\ up' = up /\ down' = down /\ ready' = ready /\ lastPos' = lastPos /\ left' = left
      /\ "pass" \in PCs
  BY <1>1 DEF PCs
<1> QED BY <1>1, <1>2, <1>3, <1>4, <1>5, <1>6, CellTypes, CellStep

LEMMA RecvDataIInv ==
    ASSUME IInv, NEW h \in Cells, RecvData(h), UNCHANGED clientVars
    PROVE  IInv'
<1>1. PICK c \in Clients : c = Turn(h)
  BY TurnIs DEF RecvData
<1>2. /\ pc[h] = "pass" /\ up[c] > 0 /\ Passing(h) /\ pc' = [pc EXCEPT ![h] = "parse"]
      /\ UNCHANGED <<listening, clientEnd, serverEnd, main, clientCount, buff, list>>
      /\ UNCHANGED <<down, ready, n, left>>
  BY <1>1 DEF RecvData, Passing
<1>3. PICK k \in AtMost(up[c], RecvMax) :
         up' = [up EXCEPT ![c] = @ - k] /\ lastPos' = [lastPos EXCEPT ![c] = @ + k]
  BY <1>1 DEF RecvData
<1>4. /\ n[h] \in Listed(h) /\ n[h] >= 1 /\ c = list[h][n[h]]
      /\ \A g \in Cells : \A j \in Listed(g) : list[g][j] = c => g = h /\ j = n[h]
  BY <1>1, <1>2, TurnIs DEF Turn
<1>5. up[c] \in 0 .. Capacity /\ lastPos[c] \in 0 .. MsgBufSize
  BY CellTypes
<1>6. k \in Nat /\ k <= up[c] /\ k <= RecvMax
  BY <1>3, <1>5, Bounds DEF AtMost
<1>7. lastPos[c] < MsgLen
  <2>1. ASSUME NEW g \in Cells, Parsing(g), list[g][n[g]] = c
        PROVE  FALSE
    <3>1. n[g] \in Listed(g)
      BY <2>1, TurnIs
    <3>2. g = h
      BY <1>4, <2>1, <3>1
    <3> QED BY <1>2, <2>1, <3>2 DEF Parsing
  <2> QED BY <2>1, CellTypes DEF CutOK
<1>8. lastPos[c] + k \in 0 .. MsgBufSize
  BY <1>5, <1>6, <1>7, Bounds
<1>9. lastPos' \in [Clients -> 0 .. MsgBufSize] /\ up' \in [Clients -> 0 .. Capacity]
  <2>1. up[c] - k \in 0 .. Capacity
    BY <1>5, <1>6, Bounds
  <2> QED BY <1>3, <1>8, <2>1, CellTypes
<1>10. \A e \in Clients \ {c} : up'[e] = up[e] /\ lastPos'[e] = lastPos[e]
  BY <1>3, CellTypes
<1>11. pc'[h] = "parse" /\ \A g \in Cells \ {h} : pc'[g] = pc[g]
  BY <1>2, CellTypes
<1>12. \A g \in Cells \ {h} : \A j \in ToVisit(g) : up'[list[g][j]] = up[list[g][j]]
  BY <1>4, <1>10, VisitIn
<1>13. PassOK(h)'
  <2>1. n[h] <= Len(list[h])
    BY <1>2, CellTypes DEF PassOK
  <2>2. apc' # "init"
    BY <1>2, CellTypes DEF main
  <2> QED BY <1>2, <1>4, <1>11, <2>1, <2>2 DEF PassOK, Parsing
<1>14. ReadyOK(h)'
  <2>1. \A j \in ToVisit(h)' : j \in ToVisit(h) /\ j # n[h]
    <3>1. n[h] \in Nat
      BY CellTypes
    <3>2. \A j \in 1 .. n[h] - 1 : j \in 1 .. n[h] /\ j # n[h]
      BY <3>1
    <3> QED BY <1>2, <1>11, <3>2 DEF ToVisit, Parsing
  <2>2. ASSUME NEW j \in ToVisit(h)', list'[h][j] \in ready'[h]
        PROVE  up'[list'[h][j]] > 0 \/ clientEnd'[list'[h][j]] = "closed"
    <3>1. /\ j \in ToVisit(h) /\ j \in Listed(h) /\ j # n[h] /\ list[h][j] \in Clients
      BY <2>1, VisitIn
    <3>2. up'[list[h][j]] = up[list[h][j]]
      BY <1>4, <1>10, <3>1
    <3>3. ServerReadable(list[h][j])
      BY <1>2, <2>2, <3>1, CellTypes DEF ReadyOK
    <3> QED BY <1>2, <3>2, <3>3 DEF ServerReadable
  <2> QED BY <2>2 DEF ReadyOK, ServerReadable
<1>15. CutOK'
  <2>1. TypeOK /\ CutOK /\ {h} \in SUBSET Cells
    BY CellTypes
  <2>2. \A g \in Cells \ {h} : pc'[g] = pc[g] /\ n'[g] = n[g] /\ list'[g] = list[g]
    BY <1>2, <1>11
  <2>3. ASSUME NEW e \in Clients
        PROVE  \/ lastPos'[e] < MsgLen
               \/ \E g \in {h} : Parsing(g)' /\ list'[g][n'[g]] = e
               \/ /\ lastPos'[e] = lastPos[e]
                  /\ \A g \in {h} : ~(Parsing(g) /\ list[g][n[g]] = e)
    <3>1. CASE e = c
      BY <1>2, <1>4, <1>11, <3>1 DEF Parsing
    <3>2. CASE e # c
      BY <1>2, <1>10, <3>2 DEF Parsing
    <3> QED BY <3>1, <3>2
  <2> QED BY <2>1, <2>2, <2>3, KeepCut
<1>16. down' = down /\ ready' = ready /\ n' = n /\ left' = left /\ "parse" \in PCs
  BY <1>2 DEF PCs
<1>17. ready' \in [Cells -> SUBSET Clients] /\ n' \in [Cells -> Nat]
  BY <1>16, CellTypes
<1>18. left' \in [Cells -> 0 .. MsgLen] /\ down' \in [Clients -> 0 .. Capacity]
  BY <1>16, CellTypes
<1>19. UNCHANGED <<listening, clientEnd, serverEnd, main, clientCount, buff, list>>
  BY <1>2
<1> QED BY <1>2, <1>9, <1>12, <1>13, <1>14, <1>15, <1>16, <1>17, <1>18, <1>19, CellStep

\* A step that goes on with the messages of the client whose turn it is.
LEMMA ParseStep ==
    ASSUME IInv, NEW h \in Cells, Parsing(h), UNCHANGED clientVars,
           UNCHANGED <<listening, clientEnd, serverEnd, main, clientCount, buff, list>>,
           UNCHANGED <<up, ready, n>>,
           NEW p \in {"parse", "reply"}, pc' = [pc EXCEPT ![h] = p],
           down' \in [Clients -> 0 .. Capacity],
           lastPos' \in [Clients -> 0 .. MsgBufSize], left' \in [Cells -> 0 .. MsgLen],
           \A e \in Clients \ {Turn(h)} : lastPos'[e] = lastPos[e]
    PROVE  IInv'
<1>1. pc'[h] = p /\ \A g \in Cells \ {h} : pc'[g] = pc[g]
  BY CellTypes
<1>2. Parsing(h)' /\ pc[h] # "pass" /\ pc'[h] # "pass" /\ pc[h] # "end" /\ pc[h] # "init"
  BY <1>1 DEF Parsing
<1>3. PassOK(h)'
  <2>1. PassOK(h) /\ apc' # "init"
    BY <1>2, CellTypes DEF main
  <2> QED BY <1>2, <2>1 DEF PassOK
<1>4. ReadyOK(h)'
  <2>1. ToVisit(h)' = ToVisit(h)
    BY <1>2 DEF ToVisit
  <2>2. ASSUME NEW j \in ToVisit(h)', list'[h][j] \in ready'[h]
        PROVE  up'[list'[h][j]] > 0 \/ clientEnd'[list'[h][j]] = "closed"
    <3>1. ServerReadable(list[h][j])
      BY <2>1, <2>2, CellTypes DEF ReadyOK
    <3> QED BY <3>1 DEF ServerReadable
  <2> QED BY <2>2 DEF ReadyOK, ServerReadable
<1>5. CutOK'
  <2>1. TypeOK /\ CutOK /\ {h} \in SUBSET Cells
    BY CellTypes
  <2>2. \A g \in Cells \ {h} : pc'[g] = pc[g] /\ n'[g] = n[g] /\ list'[g] = list[g]
    BY <1>1
  <2>3. ASSUME NEW e \in Clients
        PROVE  \/ lastPos'[e] < MsgLen
               \/ \E g \in {h} : Parsing(g)' /\ list'[g][n'[g]] = e
               \/ /\ lastPos'[e] = lastPos[e]
                  /\ \A g \in {h} : ~(Parsing(g) /\ list[g][n[g]] = e)
    BY <1>2 DEF Turn
  <2> QED BY <2>1, <2>2, <2>3, KeepCut
<1>6. ready' \in [Cells -> SUBSET Clients] /\ n' \in [Cells -> Nat]
  BY CellTypes
<1>7. up' \in [Clients -> 0 .. Capacity] /\ p \in PCs
  BY CellTypes DEF PCs
<1> QED BY <1>2, <1>3, <1>4, <1>5, <1>6, <1>7, CellStep

LEMMA OnNetMsgIInv ==
    ASSUME IInv, NEW h \in Cells, OnNetMsg(h), UNCHANGED clientVars
    PROVE  IInv'
<1>1. /\ pc[h] = "parse" /\ lastPos[Turn(h)] >= MsgLen
      /\ lastPos' = [lastPos EXCEPT ![Turn(h)] = @ - MsgLen]
      /\ UNCHANGED <<listening, clientEnd, serverEnd, main, clientCount, buff, list>>
      /\ UNCHANGED <<up, down, ready, n>>
  BY DEF OnNetMsg, sockets
<1>2. PICK p \in {"parse", "reply"}, k \in {MsgLen, left[h]} :
         pc' = [pc EXCEPT ![h] = p] /\ left' = [left EXCEPT ![h] = k]
  BY <1>1 DEF OnNetMsg
<1>3. left' \in [Cells -> 0 .. MsgLen]
  <2>1. MsgLen \in 0 .. MsgLen /\ left[h] \in 0 .. MsgLen
    BY CellTypes, Bounds
  <2> QED BY <1>2, <2>1, CellTypes
<1>4. Parsing(h)
  BY <1>1 DEF Parsing
<1>5. Turn(h) \in Clients
  BY <1>4, TurnIs
<1>6. lastPos' \in [Clients -> 0 .. MsgBufSize]
  <2>1. lastPos[Turn(h)] \in 0 .. MsgBufSize
    BY <1>5, CellTypes
  <2>2. lastPos[Turn(h)] - MsgLen \in 0 .. MsgBufSize
    BY <1>1, <2>1, Bounds
  <2> QED BY <1>1, <2>2, CellTypes
<1>7. \A e \in Clients \ {Turn(h)} : lastPos'[e] = lastPos[e]
  BY <1>1, CellTypes
<1>8. down' \in [Clients -> 0 .. Capacity]
  BY <1>1, CellTypes
<1> QED BY <1>1, <1>2, <1>3, <1>4, <1>6, <1>7, <1>8, ParseStep

LEMMA NoMoreMsgIInv ==
    ASSUME IInv, NEW h \in Cells, NoMoreMsg(h), UNCHANGED clientVars
    PROVE  IInv'
<1>1. /\ pc[h] = "parse" /\ lastPos[Turn(h)] < MsgLen
      /\ pc' = [pc EXCEPT ![h] = "pass"] /\ n' = [n EXCEPT ![h] = n[h] - 1]
      /\ UNCHANGED <<listening, clientEnd, serverEnd, main, clientCount, buff, list>>
      /\ UNCHANGED <<up, down, ready, lastPos, left>>
  BY DEF NoMoreMsg, Next1, sockets
<1>2. Parsing(h) /\ n[h] \in Nat /\ n[h] >= 1
  BY <1>1, CellTypes, TurnIs DEF Parsing
<1>3. /\ n' \in [Cells -> Nat] /\ n'[h] = n[h] - 1 /\ pc'[h] = "pass"
      /\ \A g \in Cells \ {h} : n'[g] = n[g] /\ pc'[g] = pc[g]
  BY <1>1, <1>2, CellTypes
<1>4. PassOK(h)'
  <2>1. PICK a \in Nat, len \in Nat : a = n[h] /\ len = Len(list[h])
    BY CellTypes
  <2>2. a <= len
    BY <1>2, <2>1, CellTypes DEF PassOK
  <2>3. n'[h] <= Len(list'[h])
    BY <1>1, <1>3, <2>1, <2>2
  <2>4. apc' # "init"
    BY <1>1, CellTypes DEF main
  <2> QED BY <1>3, <2>3, <2>4 DEF PassOK, Parsing
<1>5. ReadyOK(h)'
  <2>1. ToVisit(h)' = ToVisit(h)
    BY <1>1, <1>2, <1>3 DEF ToVisit
  <2>2. ASSUME NEW j \in ToVisit(h)', list'[h][j] \in ready'[h]
        PROVE  up'[list'[h][j]] > 0 \/ clientEnd'[list'[h][j]] = "closed"
    <3>1. ServerReadable(list[h][j])
      BY <1>1, <2>1, <2>2, CellTypes DEF ReadyOK
    <3> QED BY <1>1, <3>1 DEF ServerReadable
  <2> QED BY <2>2 DEF ReadyOK, ServerReadable
<1>6. CutOK'
  <2>1. TypeOK /\ CutOK /\ {h} \in SUBSET Cells
    BY CellTypes
  <2>2. \A g \in Cells \ {h} : pc'[g] = pc[g] /\ n'[g] = n[g] /\ list'[g] = list[g]
    BY <1>1, <1>3
  <2>3. ASSUME NEW e \in Clients
        PROVE  \/ lastPos'[e] < MsgLen
               \/ /\ lastPos'[e] = lastPos[e]
                  /\ \A g \in {h} : ~(Parsing(g) /\ list[g][n[g]] = e)
    BY <1>1 DEF Turn
  <2> QED BY <2>1, <2>2, <2>3, KeepCut
<1>7. /\ up' = up /\ down' = down /\ ready' = ready /\ lastPos' = lastPos /\ left' = left
      /\ "pass" \in PCs
  BY <1>1 DEF PCs
<1> QED BY <1>1, <1>3, <1>4, <1>5, <1>6, <1>7, CellTypes, CellStep

LEMMA SendDataIInv ==
    ASSUME IInv, NEW h \in Cells, SendData(h), UNCHANGED clientVars
    PROVE  IInv'
<1> DEFINE c == Turn(h)
           k == Min({left[h], Capacity - down[c]})
<1>1. /\ pc[h] = "reply" /\ down[c] < Capacity
      /\ down' = [down EXCEPT ![c] = @ + k] /\ left' = [left EXCEPT ![h] = @ - k]
      /\ UNCHANGED <<listening, clientEnd, serverEnd, main, clientCount, buff, list>>
      /\ UNCHANGED <<up, ready, n, lastPos>>
  BY DEF SendData
<1>2. PICK p \in {"parse", "reply"} : pc' = [pc EXCEPT ![h] = p]
  BY DEF SendData
<1>3. Parsing(h) /\ c \in Clients
  BY <1>1, TurnIs DEF Parsing
<1>4. down[c] \in 0 .. Capacity /\ left[h] \in 0 .. MsgLen
  BY <1>3, CellTypes
<1>5. k \in Nat /\ k <= left[h] /\ down[c] + k <= Capacity
  <2>1. left[h] \in Nat /\ Capacity - down[c] \in Nat
    BY <1>4, Bounds
  <2> QED BY <1>4, <2>1, MinIs, Bounds
<1> HIDE DEF k
<1>6. down' \in [Clients -> 0 .. Capacity] /\ left' \in [Cells -> 0 .. MsgLen]
  <2>1. down[c] + k \in 0 .. Capacity /\ left[h] - k \in 0 .. MsgLen
    BY <1>4, <1>5, Bounds
  <2> QED BY <1>1, <2>1, CellTypes
<1>7. lastPos' \in [Clients -> 0 .. MsgBufSize] /\ lastPos' = lastPos
  BY <1>1, CellTypes
<1> QED BY <1>1, <1>2, <1>3, <1>6, <1>7, ParseStep

LEMMA SendFailsIInv ==
    ASSUME IInv, NEW h \in Cells, SendFails(h), UNCHANGED clientVars
    PROVE  IInv'
<1> SUFFICES ASSUME ~ProcessEnds PROVE IInv'
  BY ProcessEndsIInv
<1>1. /\ pc[h] = "reply"
      /\ pc' = [pc EXCEPT ![h] = "parse"] /\ left' = [left EXCEPT ![h] = 0]
      /\ UNCHANGED <<listening, clientEnd, serverEnd, main, clientCount, buff, list>>
      /\ UNCHANGED <<up, down, ready, n, lastPos>>
  BY DEF SendFails, sockets
<1>2. Parsing(h)
  BY <1>1 DEF Parsing
<1>3. left' \in [Cells -> 0 .. MsgLen]
  <2>1. 0 \in 0 .. MsgLen
    BY Bounds
  <2> QED BY <1>1, <2>1, CellTypes
<1>4. lastPos' \in [Clients -> 0 .. MsgBufSize] /\ down' \in [Clients -> 0 .. Capacity]
  BY <1>1, CellTypes
<1> QED BY <1>1, <1>2, <1>3, <1>4, ParseStep

LEMMA TakeBufferedIInv ==
    ASSUME IInv, NEW h \in Cells, TakeBuffered(h), UNCHANGED clientVars
    PROVE  IInv'
<1>1. /\ pc[h] = "loop" /\ pc' = [pc EXCEPT ![h] = "select"]
      /\ list' = [list EXCEPT ![h] = @ \o buff[h]] /\ buff' = [buff EXCEPT ![h] = << >>]
      /\ UNCHANGED <<listening, clientEnd, serverEnd, up, down, main, clientCount>>
      /\ UNCHANGED <<ready, n, lastPos, left>>
  BY DEF TakeBuffered, sockets
<1>2. TypeOK /\ CountOK /\ Placed /\ HeldOpen /\ AddedOK /\ apc' = apc /\ accepted' = accepted
  BY <1>1 DEF IInv, CountOK, main
<1>3. PICK s \in Seq(Clients), t \in Seq(Clients) : s = list[h] /\ t = buff[h]
  BY <1>2 DEF TypeOK
<1>4. PICK a \in Nat, b \in Nat : a = Len(s) /\ b = Len(t)
  BY LenProperties
<1>5. /\ s \o t \in Seq(Clients) /\ Len(s \o t) = a + b
      /\ \A j \in 1 .. a + b : (s \o t)[j] = IF j <= a THEN s[j] ELSE t[j - a]
  BY <1>4, ConcatProperties
<1>6. /\ list'[h] = s \o t /\ buff'[h] = << >> /\ pc'[h] = "select"
      /\ \A g \in Cells \ {h} : list'[g] = list[g] /\ buff'[g] = buff[g] /\ pc'[g] = pc[g]
  BY <1>1, <1>2, <1>3 DEF TypeOK
<1>7. TypeOK'
  <2>1. SocketsTypeOK'
    BY <1>1, <1>2 DEF TypeOK, SocketsTypeOK
  <2>2. list' \in [Cells -> Seq(Clients)]
    BY <1>1, <1>2, <1>3, <1>5 DEF TypeOK
  <2>3. buff' \in [Cells -> Seq(Clients)]
    <3>1. << >> \in Seq(Clients)
      BY EmptySeq
    <3> QED BY <1>1, <1>2, <3>1 DEF TypeOK
  <2>4. pc' \in [Cells -> {"init", "loop", "select", "pass", "parse", "reply", "end"}]
    BY <1>1, <1>2 DEF TypeOK
  <2> QED BY <1>1, <1>2, <2>1, <2>2, <2>3, <2>4 DEF TypeOK, clientVars
<1>8. CountOK'
  <2>1. Len(list'[h]) + Len(buff'[h]) = Len(list[h]) + Len(buff[h])
    <3>1. Len(list'[h]) = a + b /\ Len(buff'[h]) = 0 /\ Len(list[h]) = a /\ Len(buff[h]) = b
      BY <1>3, <1>4, <1>5, <1>6, EmptySeq
    <3>2. (a + b) + 0 = a + b
      OBVIOUS
    <3> QED BY <3>1, <3>2, Zenon
  <2>2. Counts' = Counts
    BY <1>6, <2>1 DEF Counts
  <2>3. \A g \in Cells : pc[g] = "end" => pc'[g] = "end"
    BY <1>1, <1>6
  <2> QED BY <1>1, <1>2, <1>7, <2>2, <2>3, KeepCount
<1>9. ASSUME NEW g \in Cells, NEW j \in Listed(g)'
      PROVE  \/ j \in Listed(g) /\ list'[g][j] = list[g][j]
             \/ g = h /\ j - a \in Buffered(h) /\ j \in Nat /\ list'[g][j] = buff[h][j - a]
  <2>1. CASE g = h
    <3>1. j \in 1 .. a + b /\ j \in Nat
      BY <1>5, <1>6, <1>9, <2>1 DEF Listed
    <3>2. CASE j <= a
      <4>1. j \in 1 .. a /\ list'[h][j] = s[j]
        BY <1>5, <1>6, <3>1, <3>2
      <4> QED BY <1>3, <1>4, <2>1, <4>1 DEF Listed
    <3>3. CASE ~(j <= a)
      <4>1. j - a \in 1 .. b /\ list'[h][j] = t[j - a]
        BY <1>5, <1>6, <3>1, <3>3
      <4> QED BY <1>3, <1>4, <2>1, <3>1, <4>1 DEF Buffered
    <3> QED BY <3>2, <3>3
  <2>2. CASE g # h
    BY <1>6, <1>9, <2>2 DEF Listed
  <2> QED BY <2>1, <2>2
<1>10. \A g \in Cells : \A j \in Buffered(g)' :
           g # h /\ j \in Buffered(g) /\ buff'[g][j] = buff[g][j]
  <2>1. Buffered(h)' = {}
    BY <1>6, EmptySeq DEF Buffered
  <2> QED BY <1>6, <2>1 DEF Buffered
<1>11. Placed'
  <2>1. ListedOnce'
    <3>1. ASSUME NEW g \in Cells, NEW e \in Cells, NEW j \in Listed(g)', NEW m \in Listed(e)',
                 list'[g][j] = list'[e][m]
          PROVE  g = e /\ j = m
      <4>1. CASE j \in Listed(g) /\ list'[g][j] = list[g][j]
        <5>1. CASE m \in Listed(e) /\ list'[e][m] = list[e][m]
          <6>1. list[g][j] = list[e][m] /\ j \in Listed(g) /\ m \in Listed(e)
            BY <3>1, <4>1, <5>1
          <6>2. ListedOnce
            BY <1>2 DEF Placed
          <6> QED BY <6>1, <6>2, Zenon DEF ListedOnce
        <5>2. CASE m - a \in Buffered(h) /\ list'[e][m] = buff[h][m - a]
          <6>1. list[g][j] # buff[h][m - a]
            BY <1>2, <4>1, <5>2 DEF Placed, ListedOrBuffered
          <6> QED BY <3>1, <4>1, <5>2, <6>1
        <5> QED BY <1>9, <5>1, <5>2
      <4>2. CASE g = h /\ j - a \in Buffered(h) /\ j \in Nat /\ list'[g][j] = buff[h][j - a]
        <5>1. CASE m \in Listed(e) /\ list'[e][m] = list[e][m]
          <6>1. list[e][m] # buff[h][j - a]
            BY <1>2, <4>2, <5>1 DEF Placed, ListedOrBuffered
          <6> QED BY <3>1, <4>2, <5>1, <6>1
        <5>2. CASE e = h /\ m - a \in Buffered(h) /\ m \in Nat /\ list'[e][m] = buff[h][m - a]
          <6>1. j - a = m - a
            BY <1>2, <3>1, <4>2, <5>2 DEF Placed, BufferedOnce
          <6>2. j = m
            BY <4>2, <5>2, <6>1
          <6> QED BY <4>2, <5>2, <6>2
        <5> QED BY <1>9, <5>1, <5>2
      <4> QED BY <1>9, <4>1, <4>2
    <3> QED BY <3>1 DEF ListedOnce
  <2>2. BufferedOnce'
    BY <1>2, <1>10 DEF Placed, BufferedOnce
  <2>3. ListedOrBuffered'
    <3>1. ASSUME NEW g \in Cells, NEW e \in Cells, NEW j \in Listed(g)', NEW m \in Buffered(e)'
          PROVE  list'[g][j] # buff'[e][m]
      <4>1. e # h /\ m \in Buffered(e) /\ buff'[e][m] = buff[e][m]
        BY <1>10
      <4>2. CASE j \in Listed(g) /\ list'[g][j] = list[g][j]
        BY <1>2, <4>1, <4>2 DEF Placed, ListedOrBuffered
      <4>3. CASE j - a \in Buffered(h) /\ list'[g][j] = buff[h][j - a]
        BY <1>2, <4>1, <4>3 DEF Placed, BufferedOnce
      <4> QED BY <1>9, <4>2, <4>3
    <3> QED BY <3>1 DEF ListedOrBuffered
  <2> QED BY <2>1, <2>2, <2>3 DEF Placed
<1>12. HeldOpen'
  <2>1. ASSUME NEW g \in Cells, NEW j \in Listed(g)' PROVE serverEnd'[list'[g][j]] = "open"
    <3>1. CASE j \in Listed(g) /\ list'[g][j] = list[g][j]
      BY <1>1, <1>2, <3>1 DEF HeldOpen
    <3>2. CASE j - a \in Buffered(h) /\ list'[g][j] = buff[h][j - a]
      BY <1>1, <1>2, <3>2 DEF HeldOpen
    <3> QED BY <1>9, <3>1, <3>2
  <2>2. ASSUME NEW g \in Cells, NEW j \in Buffered(g)' PROVE serverEnd'[buff'[g][j]] = "open"
    BY <1>1, <1>2, <1>10 DEF HeldOpen
  <2> QED BY <2>1, <2>2 DEF HeldOpen
<1>13. AddedOK'
  <2> SUFFICES ASSUME apc = "add"
               PROVE  /\ accepted \in Clients /\ serverEnd[accepted] = "open"
                      /\ \A g \in Cells : \A j \in Listed(g)' : list'[g][j] # accepted
                      /\ \A g \in Cells : \A j \in Buffered(g)' : buff'[g][j] # accepted
    BY <1>1, <1>2 DEF AddedOK
  <2>1. ASSUME NEW g \in Cells, NEW j \in Listed(g)' PROVE list'[g][j] # accepted
    BY <1>2, <1>9 DEF AddedOK
  <2> QED BY <1>2, <1>10, <2>1 DEF AddedOK
<1>14. TurnsOK' /\ NewOK'
  BY <1>1, ServerTurns
<1>15. ASSUME NEW g \in Cells PROVE (PassOK(g) /\ ReadyOK(g))'
  <2>1. CASE g = h
    <3>1. apc' # "init"
      BY <1>1, <1>2, CellTypes
    <3> QED BY <1>6, <2>1, <3>1 DEF PassOK, ReadyOK, ToVisit, Parsing
  <2>2. CASE g # h
    <3>1. /\ apc' = "init" => apc = "init"
          /\ pc'[g] = pc[g] /\ n'[g] = n[g] /\ list'[g] = list[g] /\ ready'[g] = ready[g]
      BY <1>1, <1>2, <1>6, <2>2
    <3>2. \A j \in ToVisit(g) : ServerReadable(list[g][j]) =>
              up'[list[g][j]] > 0 \/ clientEnd'[list[g][j]] = "closed"
      BY <1>1 DEF ServerReadable
    <3> QED BY <3>1, <3>2, KeepPass DEF IInv
  <2> QED BY <2>1, <2>2
<1>16. CutOK'
  BY <1>1, <1>6, CutStays DEF Parsing
<1> QED BY <1>8, <1>11, <1>12, <1>13, <1>14, <1>15, <1>16 DEF IInv

\* The client's object is deleted, and those behind it move up: the ones the pass
\* has yet to visit are before it.
LEMMA OnNetLeaveIInv ==
    ASSUME IInv, NEW h \in Cells, OnNetLeave(h), UNCHANGED clientVars
    PROVE  IInv'
<1>1. PICK c \in Clients : c = Turn(h)
  BY TurnIs DEF OnNetLeave
<1>2. /\ pc[h] = "pass" /\ n[h] > 0 /\ Passing(h) /\ clientCount' = clientCount - 1
      /\ list' = [list EXCEPT ![h] = RemoveAt(list[h], n[h])] /\ n' = [n EXCEPT ![h] = n[h] - 1]
      /\ lastPos' = [lastPos EXCEPT ![c] = 0]
      /\ UNCHANGED <<listening, clientEnd, serverEnd, up, down, main, pc, buff, ready, left>>
  BY <1>1 DEF OnNetLeave, Passing, Next1, sockets
<1>3. /\ TypeOK /\ CountOK /\ Placed /\ HeldOpen /\ AddedOK /\ CutOK
      /\ apc' = apc /\ accepted' = accepted /\ apc # "init"
  BY <1>2, CellTypes DEF IInv, CountOK, main
<1>4. PICK s \in Seq(Clients), a \in Nat, q \in Nat : s = list[h] /\ a = Len(s) /\ q = n[h]
  BY <1>3, CellTypes DEF TypeOK
<1>5. q \in 1 .. a /\ 1 <= q /\ q <= a
  BY <1>2, <1>4, TurnIs DEF Listed
<1>6. /\ RemoveAt(s, q) \in Seq(Clients) /\ Len(RemoveAt(s, q)) = a - 1
      /\ \A j \in 1 .. a - 1 : RemoveAt(s, q)[j] = IF j < q THEN s[j] ELSE s[j + 1]
  BY <1>4, <1>5, RemoveIs
<1>7. /\ list'[h] = RemoveAt(s, q) /\ n'[h] = q - 1
      /\ \A g \in Cells \ {h} : list'[g] = list[g] /\ n'[g] = n[g]
  BY <1>2, <1>3, <1>4 DEF TypeOK
<1>8. TypeOK'
  <2>1. SocketsTypeOK'
    BY <1>2, <1>3 DEF TypeOK, SocketsTypeOK
  <2>2. list' \in [Cells -> Seq(Clients)]
    BY <1>2, <1>3, <1>4, <1>6 DEF TypeOK
  <2>3. n' \in [Cells -> Nat]
    BY <1>2, <1>3, <1>4, <1>5 DEF TypeOK
  <2>4. lastPos' \in [Clients -> 0 .. MsgBufSize]
    BY <1>2, <1>3, Bounds DEF TypeOK
  <2>5. clientCount' \in Int
    BY <1>2, <1>3 DEF TypeOK
  <2> QED BY <1>2, <1>3, <2>1, <2>2, <2>3, <2>4, <2>5 DEF TypeOK, clientVars
<1>9. CountOK'
  <2>1. Counts = [Counts' EXCEPT ![h] = @ + 1]
    <3>1. PICK b \in Nat : b = Len(buff[h])
      BY <1>3, Vectors
    <3>2. Len(list'[h]) = a - 1 /\ Len(buff'[h]) = b /\ Len(list[h]) = a
      BY <1>2, <1>4, <1>6, <1>7, <3>1
    <3>3. ((a - 1) + b) + 1 = a + b
      OBVIOUS
    <3>4. Len(list[h]) + Len(buff[h]) = (Len(list'[h]) + Len(buff'[h])) + 1
      BY <3>1, <3>2, <3>3, Zenon
    <3>5. \A g \in Cells \ {h} : Len(list'[g]) + Len(buff'[g]) = Len(list[g]) + Len(buff[g])
      BY <1>2, <1>7
    <3> QED BY <3>4, <3>5 DEF Counts
  <2>2. Counts' \in [Cells -> Nat]
    BY <1>8, CountsNext
  <2>3. Places = SlotsOf(Counts) /\ Places' = SlotsOf(Counts')
    BY DEF Places, SlotsOf, Counts, getClientCount
  <2>4. Cardinality(Places) = Cardinality(Places') + 1 /\ Cardinality(Places') \in Nat
    BY <2>1, <2>2, <2>3, SlotsMore, SlotsFinite
  <2>5. clientCount \in Int /\ clientCount' = clientCount - 1 /\ pc' = pc
    BY <1>2, <1>3 DEF TypeOK
  <2> QED BY <1>3, <1>8, <2>4, <2>5 DEF CountOK
<1>10. ASSUME NEW g \in Cells, NEW j \in Listed(g)'
       PROVE  \E m \in Listed(g) : /\ list'[g][j] = list[g][m]
                                   /\ g # h => m = j
                                   /\ g = h => m = IF j < q THEN j ELSE j + 1
  <2>1. CASE g = h
    <3>1. j \in 1 .. a - 1 /\ j \in Nat
      BY <1>4, <1>6, <1>7, <1>10, <2>1 DEF Listed
    <3>2. PICK m \in 1 .. a : m = IF j < q THEN j ELSE j + 1
      BY <1>5, <3>1
    <3>3. list'[h][j] = s[m] /\ m \in Listed(h)
      BY <1>4, <1>6, <1>7, <3>1, <3>2 DEF Listed
    <3> QED BY <1>4, <2>1, <3>2, <3>3
  <2>2. CASE g # h
    <3>1. j \in Listed(g) /\ list'[g][j] = list[g][j]
      BY <1>7, <1>10, <2>2 DEF Listed
    <3> QED BY <2>2, <3>1
  <2> QED BY <2>1, <2>2
<1>11. \A g \in Cells : Buffered(g)' = Buffered(g)
  BY <1>2 DEF Buffered
<1>12. Placed'
  <2>1. ListedOnce'
    <3>1. ASSUME NEW g \in Cells, NEW e \in Cells, NEW j \in Listed(g)', NEW m \in Listed(e)',
                 list'[g][j] = list'[e][m]
          PROVE  g = e /\ j = m
      <4>1. PICK x \in Listed(g) : /\ list'[g][j] = list[g][x]
                                   /\ g # h => x = j
                                   /\ g = h => x = IF j < q THEN j ELSE j + 1
        BY <1>10
      <4>2. PICK y \in Listed(e) : /\ list'[e][m] = list[e][y]
                                   /\ e # h => y = m
                                   /\ e = h => y = IF m < q THEN m ELSE m + 1
        BY <1>10
      <4>3. list[g][x] = list[e][y]
        BY <3>1, <4>1, <4>2, Zenon
      <4>4. g = e /\ x = y
        BY <1>3, <4>3, Zenon DEF Placed, ListedOnce
      <4>5. CASE g = h
        <5>1. j \in Nat /\ m \in Nat
          BY <1>4, <1>6, <1>7, <3>1, <4>4, <4>5 DEF Listed
        <5>2. x = IF j < q THEN j ELSE j + 1
          BY <4>1, <4>5
        <5>3. x = IF m < q THEN m ELSE m + 1
          BY <4>2, <4>4, <4>5
        <5>4. j = m
          BY <1>4, <5>1, <5>2, <5>3
        <5> QED BY <4>4, <5>4
      <4>6. CASE g # h
        <5>1. x = j /\ y = m
          BY <4>1, <4>2, <4>4, <4>6, Zenon
        <5> QED BY <4>4, <5>1
      <4> QED BY <4>5, <4>6
    <3> QED BY <3>1 DEF ListedOnce
  <2>2. BufferedOnce'
    BY <1>2, <1>3 DEF Placed, BufferedOnce, Buffered
  <2>3. ListedOrBuffered'
    <3>1. ASSUME NEW g \in Cells, NEW e \in Cells, NEW j \in Listed(g)', NEW m \in Buffered(e)
          PROVE  list'[g][j] # buff'[e][m]
      <4>1. PICK x \in Listed(g) : list'[g][j] = list[g][x]
        BY <1>10
      <4>2. list[g][x] # buff[e][m]
        BY <1>3 DEF Placed, ListedOrBuffered
      <4> QED BY <1>2, <4>1, <4>2
    <3> QED BY <1>11, <3>1 DEF ListedOrBuffered
  <2> QED BY <2>1, <2>2, <2>3 DEF Placed
<1>13. HeldOpen'
  <2>1. ASSUME NEW g \in Cells, NEW j \in Listed(g)' PROVE serverEnd'[list'[g][j]] = "open"
    <3>1. PICK x \in Listed(g) : list'[g][j] = list[g][x]
      BY <1>10
    <3> QED BY <1>2, <1>3, <3>1 DEF HeldOpen
  <2>2. \A g \in Cells : \A j \in Buffered(g)' : serverEnd'[buff'[g][j]] = "open"
    BY <1>2, <1>3, <1>11 DEF HeldOpen
  <2> QED BY <2>1, <2>2 DEF HeldOpen
<1>14. AddedOK'
  <2> SUFFICES ASSUME apc = "add"
               PROVE  /\ accepted \in Clients /\ serverEnd[accepted] = "open"
                      /\ \A g \in Cells : \A j \in Listed(g)' : list'[g][j] # accepted
                      /\ \A g \in Cells : \A j \in Buffered(g)' : buff'[g][j] # accepted
    BY <1>2, <1>3 DEF AddedOK
  <2>1. ASSUME NEW g \in Cells, NEW j \in Listed(g)' PROVE list'[g][j] # accepted
    <3>1. PICK x \in Listed(g) : list'[g][j] = list[g][x]
      BY <1>10
    <3> QED BY <1>3, <3>1 DEF AddedOK
  <2>2. \A g \in Cells : \A j \in Buffered(g)' : buff'[g][j] # accepted
    BY <1>2, <1>3, <1>11 DEF AddedOK
  <2> QED BY <1>3, <2>1, <2>2 DEF AddedOK
<1>15. TurnsOK' /\ NewOK'
  BY <1>2, ServerTurns
<1>16. ASSUME NEW g \in Cells PROVE (PassOK(g) /\ ReadyOK(g))'
  <2>1. CASE g = h
    <3>1. PassOK(h)'
      <4>1. n'[h] <= Len(list'[h])
        BY <1>4, <1>5, <1>6, <1>7
      <4> QED BY <1>2, <1>3, <4>1 DEF PassOK, Parsing
    <3>2. ASSUME NEW j \in ToVisit(h)', list'[h][j] \in ready'[h]
          PROVE  up'[list'[h][j]] > 0 \/ clientEnd'[list'[h][j]] = "closed"
      <4>1. j \in 1 .. q - 1
        BY <1>2, <1>7, <3>2 DEF ToVisit
      <4>2. j \in 1 .. a - 1 /\ j < q /\ j \in 1 .. q
        BY <1>4, <1>5, <4>1
      <4>3. list'[h][j] = list[h][j] /\ j \in ToVisit(h)
        BY <1>2, <1>4, <1>6, <1>7, <4>2 DEF ToVisit
      <4>4. ServerReadable(list[h][j])
        BY <1>2, <3>2, <4>3, CellTypes DEF ReadyOK
      <4> QED BY <1>2, <4>3, <4>4 DEF ServerReadable
    <3> QED BY <2>1, <3>1, <3>2 DEF ReadyOK, ServerReadable
  <2>2. CASE g # h
    <3>1. /\ apc' = "init" => apc = "init"
          /\ pc'[g] = pc[g] /\ n'[g] = n[g] /\ list'[g] = list[g] /\ ready'[g] = ready[g]
      BY <1>2, <1>3, <1>7, <2>2
    <3>2. \A j \in ToVisit(g) : ServerReadable(list[g][j]) =>
              up'[list[g][j]] > 0 \/ clientEnd'[list[g][j]] = "closed"
      BY <1>2 DEF ServerReadable
    <3> QED BY <3>1, <3>2, KeepPass DEF IInv
  <2> QED BY <2>1, <2>2
<1>17. CutOK'
  <2>1. {h} \in SUBSET Cells
    OBVIOUS
  <2>2. \A g \in Cells \ {h} : pc'[g] = pc[g] /\ n'[g] = n[g] /\ list'[g] = list[g]
    BY <1>2, <1>7
  <2>3. ASSUME NEW e \in Clients
        PROVE  \/ lastPos'[e] < MsgLen
               \/ /\ lastPos'[e] = lastPos[e]
                  /\ \A g \in {h} : ~(Parsing(g) /\ list[g][n[g]] = e)
    <3>1. lastPos'[e] = 0 \/ lastPos'[e] = lastPos[e]
      BY <1>2, CellTypes
    <3> QED BY <1>2, <3>1, Bounds DEF Parsing
  <2> QED BY <1>3, <2>1, <2>2, <2>3, KeepCut
<1> QED BY <1>9, <1>12, <1>13, <1>14, <1>15, <1>16, <1>17 DEF IInv

\* The cell's clients are closed, and stay counted; those of other cells are not
\* among them.
LEMMA SelectFailsIInv ==
    ASSUME IInv, NEW h \in Cells, SelectFails(h), UNCHANGED clientVars
    PROVE  IInv'
<1> DEFINE C == ToSet(list[h]) \cup Backlog
<1>1. /\ pc[h] = "select" /\ pc' = [pc EXCEPT ![h] = "end"]
      /\ list' = [list EXCEPT ![h] = << >>] /\ listening' = FALSE /\ ServerCloses(C)
      /\ UNCHANGED <<clientEnd, down, main, clientCount, buff, ready, n, lastPos, left>>
  BY DEF SelectFails
<1>2. /\ TypeOK /\ CountOK /\ Placed /\ HeldOpen /\ AddedOK /\ apc' = apc
      /\ accepted' = accepted /\ apc # "init"
  BY <1>1, CellTypes DEF IInv, CountOK, main
<1>3. /\ list'[h] = << >> /\ pc'[h] = "end"
      /\ \A g \in Cells \ {h} : list'[g] = list[g] /\ pc'[g] = pc[g]
  BY <1>1, <1>2 DEF TypeOK
<1>4. \A c \in Clients : c \in C => serverEnd[c] = "backlog" \/ \E m \in Listed(h) : c = list[h][m]
  BY <1>2, Vectors DEF Backlog
<1> HIDE DEF C
<1>5. Listed(h)' = {} /\ \A g \in Cells \ {h} : Listed(g)' = Listed(g)
  BY <1>3, EmptySeq DEF Listed
<1>6. \A g \in Cells : Buffered(g)' = Buffered(g)
  BY <1>1 DEF Buffered
<1>7. \A c \in Clients \ C : serverEnd'[c] = serverEnd[c] /\ up'[c] = up[c]
  BY <1>1, ClosedServerEnds
<1>8. \A g \in Cells \ {h} : \A j \in Listed(g) :
          list[g][j] \in Clients /\ list[g][j] \notin C /\ serverEnd[list[g][j]] = "open"
  <2>1. ASSUME NEW g \in Cells \ {h}, NEW j \in Listed(g)
        PROVE  list[g][j] \in Clients /\ list[g][j] \notin C /\ serverEnd[list[g][j]] = "open"
    <3>1. serverEnd[list[g][j]] = "open" /\ list[g][j] \in Clients
      BY <1>2, Vectors DEF HeldOpen
    <3>2. \A m \in Listed(h) : list[g][j] # list[h][m]
      BY <1>2 DEF Placed, ListedOnce
    <3> QED BY <1>4, <3>1, <3>2
  <2> QED BY <2>1
<1>9. \A g \in Cells : \A j \in Buffered(g) :
          buff[g][j] \in Clients /\ buff[g][j] \notin C /\ serverEnd[buff[g][j]] = "open"
  <2>1. ASSUME NEW g \in Cells, NEW j \in Buffered(g)
        PROVE  buff[g][j] \in Clients /\ buff[g][j] \notin C /\ serverEnd[buff[g][j]] = "open"
    <3>1. serverEnd[buff[g][j]] = "open" /\ buff[g][j] \in Clients
      BY <1>2, Vectors DEF HeldOpen
    <3>2. \A m \in Listed(h) : buff[g][j] # list[h][m]
      BY <1>2 DEF Placed, ListedOrBuffered
    <3> QED BY <1>4, <3>1, <3>2
  <2> QED BY <2>1
<1>10. TypeOK'
  <2>1. SocketsTypeOK'
    BY <1>1, <1>2, ClosedServerEnds DEF TypeOK, SocketsTypeOK
  <2>2. list' \in [Cells -> Seq(Clients)]
    <3>1. << >> \in Seq(Clients)
      BY EmptySeq
    <3> QED BY <1>1, <1>2, <3>1 DEF TypeOK
  <2>3. pc' \in [Cells -> {"init", "loop", "select", "pass", "parse", "reply", "end"}]
    BY <1>1, <1>2 DEF TypeOK
  <2> QED BY <1>1, <1>2, <2>1, <2>2, <2>3 DEF TypeOK, clientVars
<1>11. CountOK'
  <2>1. ASSUME NEW g \in Cells PROVE Counts'[g] <= Counts[g]
    <3>1. PICK a \in Nat, b \in Nat : a = Len(list[g]) /\ b = Len(buff[g])
      BY <1>2, Vectors
    <3>2. Len(list'[g]) \in {0, a} /\ Len(buff'[g]) = b
      BY <1>1, <1>3, <3>1, EmptySeq
    <3>3. PICK d \in {0, a} : d = Len(list'[g])
      BY <3>2
    <3>4. Counts'[g] = d + b /\ Counts[g] = a + b
      BY <3>1, <3>2, <3>3, Zenon DEF Counts
    <3> QED BY <3>4
  <2>2. Counts \in [Cells -> Nat] /\ Counts' \in [Cells -> Nat]
    BY <1>2, <1>10, PlacesAre, CountsNext
  <2>3. Places = SlotsOf(Counts) /\ Places' = SlotsOf(Counts')
    BY DEF Places, SlotsOf, Counts, getClientCount
  <2>4. /\ Cardinality(Places') <= Cardinality(Places)
        /\ Cardinality(Places') \in Nat /\ Cardinality(Places) \in Nat
    BY <2>1, <2>2, <2>3, SlotsFewer, SlotsFinite
  <2>5. clientCount \in Int /\ clientCount' = clientCount
    BY <1>1, <1>2 DEF TypeOK
  <2> QED BY <1>2, <1>3, <1>10, <2>4, <2>5 DEF CountOK
<1>12. Placed'
  <2>1. ListedOnce'
    BY <1>2, <1>3, <1>5 DEF Placed, ListedOnce
  <2>2. BufferedOnce'
    BY <1>1, <1>2, <1>6 DEF Placed, BufferedOnce
  <2>3. ListedOrBuffered'
    BY <1>1, <1>2, <1>3, <1>5, <1>6 DEF Placed, ListedOrBuffered
  <2> QED BY <2>1, <2>2, <2>3 DEF Placed
<1>13. HeldOpen'
  <2>1. ASSUME NEW g \in Cells, NEW j \in Listed(g)' PROVE serverEnd'[list'[g][j]] = "open"
    BY <1>3, <1>5, <1>7, <1>8
  <2>2. ASSUME NEW g \in Cells, NEW j \in Buffered(g)' PROVE serverEnd'[buff'[g][j]] = "open"
    BY <1>1, <1>6, <1>7, <1>9
  <2> QED BY <2>1, <2>2 DEF HeldOpen
<1>14. AddedOK'
  <2> SUFFICES ASSUME apc = "add"
               PROVE  /\ accepted \in Clients /\ serverEnd'[accepted] = "open"
                      /\ \A g \in Cells : \A j \in Listed(g)' : list'[g][j] # accepted
                      /\ \A g \in Cells : \A j \in Buffered(g)' : buff'[g][j] # accepted
    BY <1>2 DEF AddedOK
  <2>1. /\ accepted \in Clients /\ serverEnd[accepted] = "open"
        /\ \A g \in Cells : \A j \in Listed(g) : list[g][j] # accepted
        /\ \A g \in Cells : \A j \in Buffered(g) : buff[g][j] # accepted
    BY <1>2 DEF AddedOK
  <2>2. serverEnd'[accepted] = "open"
    BY <1>4, <1>7, <2>1
  <2>3. \A g \in Cells : \A j \in Listed(g)' : list'[g][j] # accepted
    BY <1>3, <1>5, <2>1
  <2> QED BY <1>1, <1>6, <2>1, <2>2, <2>3
<1>15. TurnsOK' /\ NewOK'
  BY <1>1, ClosedServerEnds, ServerTurns
<1>16. ASSUME NEW g \in Cells PROVE (PassOK(g) /\ ReadyOK(g))'
  <2>1. CASE g = h
    BY <1>2, <1>3, <2>1 DEF PassOK, ReadyOK, ToVisit, Parsing
  <2>2. CASE g # h
    <3>1. /\ apc' = "init" => apc = "init"
          /\ pc'[g] = pc[g] /\ n'[g] = n[g] /\ list'[g] = list[g] /\ ready'[g] = ready[g]
      BY <1>1, <1>2, <1>3, <2>2
    <3>2. ASSUME NEW j \in ToVisit(g), ServerReadable(list[g][j])
          PROVE  up'[list[g][j]] > 0 \/ clientEnd'[list[g][j]] = "closed"
      <4>1. j \in Listed(g)
        BY VisitIn
      <4>2. up'[list[g][j]] = up[list[g][j]]
        BY <1>7, <1>8, <2>2, <4>1
      <4> QED BY <1>1, <3>2, <4>2 DEF ServerReadable
    <3> QED BY <3>1, <3>2, KeepPass DEF IInv
  <2> QED BY <2>1, <2>2
<1>17. CutOK'
  BY <1>1, <1>3, CutStays DEF Parsing
<1> QED BY <1>11, <1>12, <1>13, <1>14, <1>15, <1>16, <1>17 DEF IInv

------------------------------------------------------------------------------
(* All steps.                                                              *)

LEMMA StutterIInv == ASSUME IInv, UNCHANGED vars PROVE IInv'
<1> USE DEF vars, sockets, serverVars, clientVars
<1>1. SocketsTypeOK' /\ ClientTypeOK'
  BY DEF IInv, CountOK, TypeOK, SocketsTypeOK, ClientTypeOK
<1>2. TurnsOK' /\ NewOK'
  BY DEF IInv, TurnsOK, NewOK, begin, end
<1> QED BY <1>1, <1>2, ClientStep DEF ServerReadable

LEMMA NextIInv == ASSUME IInv, Next PROVE IInv'
<1>1. CASE Server
  BY <1>1, StartIInv, AcceptIInv, addClientIInv, OnNetJoinIInv DEF Server, MainThread
<1>2. CASE Ends
  BY <1>2, CloseIInv, ProcessEndsIInv, SelectFailsIInv, cmdThreadIInv, ProcessExitsIInv
     DEF Ends, ServerEnds, MainEnds, MainReturns
<1>3. ASSUME NEW h \in Cells, Cell(h) PROVE IInv'
  BY <1>3, TakeBufferedIInv, SelectIInv, PassEndsIInv, NothingToRecvIInv, RecvDataIInv,
     OnNetLeaveIInv, OnNetMsgIInv, NoMoreMsgIInv, SendDataIInv, SendFailsIInv
     DEF Cell, OnRunCell
<1>4. ASSUME NEW id \in Threads, Sender(id) PROVE IInv'
  BY <1>4, ConnectIInv, NextPassIInv, NotRunningIInv, BeginSendIInv, SendSomeIInv,
     SendDataFailsIInv, OnRunIInv, ThreadEndsIInv
     DEF Sender, sendThread
<1> QED BY <1>1, <1>2, <1>3, <1>4 DEF Next

------------------------------------------------------------------------------
(* The theorems.                                                           *)

\* In every state a client is in one cell's vectors at most, where select has seen
\* it can be read until its turn, and every send thread has its own clients.
THEOREM CellsInvariant == Spec => []IInv
<1>1. IInv /\ [Next]_vars => IInv'
  BY NextIInv, StutterIInv
<1> QED BY InitIInv, <1>1, PTL DEF Spec

\* The count of clients (_clientCount) is that of the clients the cells hold, up to
\* the one being counted in, whatever the order of joining and leaving; clients of
\* a cell whose select failed are the only ones that stay counted.
THEOREM ClientsAreCounted == Spec => []CountOK
<1>1. IInv => CountOK
  BY DEF IInv
<1> QED BY CellsInvariant, <1>1, PTL

\* The descending pass of OnRun, which erases clients as it goes, stays within the
\* list, receives only from clients that have something to be received, and has
\* room for a whole recv behind what is left of a cut message.
THEOREM PassReceivesSafely == Spec => []RecvIsSafe
<1>1. ASSUME IInv PROVE RecvIsSafe
  <2> SUFFICES ASSUME NEW h \in Cells, Passing(h)
               PROVE  /\ n[h] <= Len(list[h])
                      /\ Turn(h) \in ready[h] => ServerReadable(Turn(h))
                      /\ lastPos[Turn(h)] + RecvMax <= MsgBufSize
    BY DEF RecvIsSafe
  <2>1. /\ n[h] >= 1 /\ Turn(h) \in Clients
        /\ \A g \in Cells : \A j \in Listed(g) : list[g][j] = Turn(h) => g = h /\ j = n[h]
    BY <1>1, TurnIs
  <2>2. n[h] <= Len(list[h])
    BY <1>1, CellTypes DEF PassOK, Passing
  <2>3. ServerReadable(Turn(h)) \/ Turn(h) \notin ready[h]
    <3>1. n[h] \in ToVisit(h)
      BY <1>1, <2>1, CellTypes DEF ToVisit, Passing
    <3> QED BY <1>1, <3>1, CellTypes DEF ReadyOK, Turn
  <2>4. lastPos[Turn(h)] < MsgLen
    <3>1. ASSUME NEW g \in Cells, Parsing(g), list[g][n[g]] = Turn(h) PROVE FALSE
      <4>1. n[g] \in Listed(g)
        BY <1>1, <3>1, TurnIs
      <4>2. g = h
        BY <2>1, <3>1, <4>1
      <4> QED BY <3>1, <4>2 DEF Parsing, Passing
    <3> QED BY <1>1, <2>1, <3>1, CellTypes DEF CutOK
  <2>5. lastPos[Turn(h)] + RecvMax <= MsgBufSize
    <3>1. lastPos[Turn(h)] \in 0 .. MsgBufSize
      BY <1>1, <2>1, CellTypes
    <3> QED BY <2>4, <3>1, Bounds
  <2> QED BY <2>2, <2>3, <2>5
<1> QED BY CellsInvariant, <1>1, PTL

==============================================================================
