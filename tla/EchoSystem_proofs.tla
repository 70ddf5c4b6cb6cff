-------------------------- MODULE EchoSystem_proofs --------------------------
(***************************************************************************)
(* Proofs about the programs Server01 and Client02 together, for any       *)
(* number of clients and descriptors and any sizes of buffers: the         *)
(* server's list and set are right, and blocking calls do not block.       *)
(***************************************************************************)
EXTENDS EchoSystem, FiniteSetTheorems, TLAPS

Elems(s) == {s[j] : j \in DOMAIN s}
Distinct(s) == \A j, k \in DOMAIN s : j # k => s[j] # s[k]

Assumptions == SocketsAssumption /\ ServerAssumption /\ ClientAssumption

LEMMA AssumptionsHold == Assumptions
BY SocketsAssumption, ServerAssumption, ClientAssumption DEF Assumptions

------------------------------------------------------------------------------
(* Least and greatest elements.                                            *)

\* A nonempty finite set of numbers has a least and a greatest element.
LEMMA MinMax ==
    ASSUME NEW S, IsFiniteSet(S), S \subseteq Nat, S # {}
    PROVE  Min(S) \in S /\ Max(S) \in S
<1>1. \E x \in S : \A y \in S : x =< y
  <2> DEFINE Below(x) == {y \in S : y < x}
             F == {Below(x) : x \in S}
  <2>1. F \subseteq FiniteSubsetsOf(S) /\ F # {}
    <3>1. ASSUME NEW x \in S PROVE Below(x) \in FiniteSubsetsOf(S)
      <4>1. Below(x) \in SUBSET S
        OBVIOUS
      <4>2. IsFiniteSet(Below(x))
        BY <4>1, FS_Subset
      <4> QED BY <4>1, <4>2 DEF FiniteSubsetsOf
    <3> QED BY <3>1
  <2>2. PICK B \in F : \A C \in F : ~ (<<C, B>> \in StrictSubsetOrdering(S))
    BY <2>1, FS_StrictSubsetOrderingWellFounded, WFMin
  <2>3. PICK x \in S : B = Below(x)
    BY <2>2
  <2>4. ASSUME NEW y \in S, y < x PROVE FALSE
    <3>1. Below(y) \in F
      OBVIOUS
    <3>2. Below(y) \subseteq B
      <4>1. ASSUME NEW z \in S, z < y PROVE z < x
        BY <2>4, <4>1
      <4> QED BY <2>3, <4>1
    <3>3. y \in B /\ y \notin Below(y)
      BY <2>3, <2>4
    <3>4. <<Below(y), B>> \in StrictSubsetOrdering(S)
      BY <3>2, <3>3, <2>3 DEF StrictSubsetOrdering
    <3> QED BY <3>1, <3>4, <2>2
  <2> QED BY <2>4
<1>2. \E x \in S : \A y \in S : x >= y
  <2> DEFINE Above(x) == {y \in S : y > x}
             F == {Above(x) : x \in S}
  <2>1. F \subseteq FiniteSubsetsOf(S) /\ F # {}
    <3>1. ASSUME NEW x \in S PROVE Above(x) \in FiniteSubsetsOf(S)
      <4>1. Above(x) \in SUBSET S
        OBVIOUS
      <4>2. IsFiniteSet(Above(x))
        BY <4>1, FS_Subset
      <4> QED BY <4>1, <4>2 DEF FiniteSubsetsOf
    <3> QED BY <3>1
  <2>2. PICK B \in F : \A C \in F : ~ (<<C, B>> \in StrictSubsetOrdering(S))
    BY <2>1, FS_StrictSubsetOrderingWellFounded, WFMin
  <2>3. PICK x \in S : B = Above(x)
    BY <2>2
  <2>4. ASSUME NEW y \in S, y > x PROVE FALSE
    <3>1. Above(y) \in F
      OBVIOUS
    <3>2. Above(y) \subseteq B
      <4>1. ASSUME NEW z \in S, z > y PROVE z > x
        BY <2>4, <4>1
      <4> QED BY <2>3, <4>1
    <3>3. y \in B /\ y \notin Above(y)
      BY <2>3, <2>4
    <3>4. <<Above(y), B>> \in StrictSubsetOrdering(S)
      BY <3>2, <3>3, <2>3 DEF StrictSubsetOrdering
    <3> QED BY <3>1, <3>4, <2>2
  <2> QED BY <2>4
<1> QED BY <1>1, <1>2 DEF Min, Max

------------------------------------------------------------------------------
(* The list of clients.                                                    *)

\* What erasing one leaves.
LEMMA RemoveFacts ==
    ASSUME NEW S, NEW s \in Seq(S), NEW p \in 1 .. Len(s)
    PROVE  /\ RemoveAt(s, p) \in Seq(S) /\ Len(RemoveAt(s, p)) = Len(s) - 1
           /\ \A j \in 1 .. Len(s) - 1 :
                 RemoveAt(s, p)[j] = IF j < p THEN s[j] ELSE s[j + 1]
<1> DEFINE a == SubSeq(s, 1, p - 1)
           b == SubSeq(s, p + 1, Len(s))
<1>1. /\ a \in Seq(S) /\ Len(a) = p - 1
      /\ \A j \in 1 .. p - 1 : a[j] = s[j]
  OBVIOUS
<1>2. /\ b \in Seq(S) /\ Len(b) = Len(s) - p
      /\ \A j \in 1 .. Len(s) - p : b[j] = s[p + j]
  OBVIOUS
<1>3. RemoveAt(s, p) = a \o b
  BY DEF RemoveAt
<1> HIDE DEF a, b
<1>4. a \o b \in Seq(S) /\ Len(a \o b) = Len(s) - 1
  <2>0. a \in Seq(S) /\ b \in Seq(S)
    BY <1>1, <1>2
  <2>1. a \o b \in Seq(S)
    BY <2>0
  <2>2. Len(a \o b) = Len(a) + Len(b)
    BY <2>0
  <2> QED BY <1>1, <1>2, <2>1, <2>2
<1>5. ASSUME NEW j \in 1 .. Len(s) - 1
      PROVE  (a \o b)[j] = IF j < p THEN s[j] ELSE s[j + 1]
  <2>1. CASE j < p
    BY <1>1, <1>2, <2>1
  <2>2. CASE ~ (j < p)
    <3>1. (a \o b)[j] = b[j - (p - 1)]
      BY <1>1, <1>2, <2>2
    <3>2. j - (p - 1) \in 1 .. Len(s) - p /\ p + (j - (p - 1)) = j + 1
      BY <2>2
    <3>3. b[j - (p - 1)] = s[p + (j - (p - 1))]
      BY <1>2, <3>2
    <3> QED BY <2>2, <3>1, <3>2, <3>3
  <2> QED BY <2>1, <2>2
<1> QED BY <1>3, <1>4, <1>5

LEMMA RemoveElems ==
    ASSUME NEW S, NEW s \in Seq(S), NEW p \in 1 .. Len(s), Distinct(s)
    PROVE  /\ Distinct(RemoveAt(s, p))
           /\ Elems(RemoveAt(s, p)) = Elems(s) \ {s[p]}
<1> DEFINE r == RemoveAt(s, p)
<1>1. /\ r \in Seq(S) /\ Len(r) = Len(s) - 1
      /\ \A j \in 1 .. Len(s) - 1 : r[j] = IF j < p THEN s[j] ELSE s[j + 1]
  BY RemoveFacts
<1>2. DOMAIN s = 1 .. Len(s) /\ DOMAIN r = 1 .. Len(s) - 1
  BY <1>1
<1> HIDE DEF r
<1>3. ASSUME NEW j \in 1 .. Len(s) - 1, NEW k \in 1 .. Len(s) - 1, j # k
      PROVE  r[j] # r[k]
  <2> DEFINE old(n) == IF n < p THEN n ELSE n + 1
  <2>1. old(j) \in DOMAIN s /\ old(k) \in DOMAIN s /\ old(j) # old(k)
    BY <1>2, <1>3
  <2>2. r[j] = s[old(j)] /\ r[k] = s[old(k)]
    BY <1>1
  <2> QED BY <2>1, <2>2 DEF Distinct
<1>4. ASSUME NEW j \in DOMAIN r PROVE r[j] \in Elems(s) \ {s[p]}
  BY <1>1, <1>2, <1>4 DEF Elems, Distinct
<1>5. ASSUME NEW j \in DOMAIN s, j # p PROVE s[j] \in Elems(r)
  <2>1. CASE j < p
    BY <1>1, <1>2, <1>5, <2>1 DEF Elems
  <2>2. CASE j > p
    <3>1. j - 1 \in DOMAIN r /\ r[j - 1] = s[j]
      BY <1>1, <1>2, <1>5, <2>2
    <3> QED BY <3>1 DEF Elems
  <2> QED BY <1>2, <1>5, <2>1, <2>2
<1>6. Distinct(r)
  BY <1>2, <1>3 DEF Distinct
<1>7. Elems(r) = Elems(s) \ {s[p]}
  BY <1>2, <1>4, <1>5 DEF Elems
<1> QED BY <1>6, <1>7 DEF r

LEMMA AppendElems ==
    ASSUME NEW S, NEW s \in Seq(S), NEW e \in S
    PROVE  /\ Append(s, e) \in Seq(S) /\ Elems(Append(s, e)) = Elems(s) \cup {e}
           /\ Distinct(s) /\ e \notin Elems(s) => Distinct(Append(s, e))
<1>1. /\ Append(s, e) \in Seq(S) /\ Len(Append(s, e)) = Len(s) + 1
      /\ \A j \in 1 .. Len(s) : Append(s, e)[j] = s[j]
      /\ Append(s, e)[Len(s) + 1] = e
  OBVIOUS
<1>2. DOMAIN Append(s, e) = 1 .. Len(s) + 1 /\ DOMAIN s = 1 .. Len(s)
  BY <1>1
<1> QED BY <1>1, <1>2 DEF Elems, Distinct
------------------------------------------------------------------------------
(* The inductive invariant.                                                *)

\* The server's clients are the connections it has accepted and not closed.
ConnInv ==
    /\ Listed = {c \in Clients : serverEnd[c] = "open"}
    /\ Distinct(clients)
    /\ \A c \in Clients : sock[c] = INVALID_SOCKET <=> c \notin Listed
    /\ \A c, d \in Listed : c # d => sock[c] # sock[d]
    /\ ~listening => Listed \cup Backlog = {}
    /\ spc \in {"bind", "listen", "closed"} => ~listening

\* Position k of the list is still to be looked at in this pass.
Pending(k) == (spc \in {"accept", "serve"} /\ k >= pos) \/ (spc = "send" /\ k > pos)

\* What the server keeps of its set, and what select has left of it.
SetInv ==
    /\ spc # "closed" /\ ~change => backup = {ServerSock} \cup Socks
    /\ ~change /\ maxSock = INVALID_SOCKET => clients = << >>
    /\ spc = "accept" =>
          /\ ~change /\ fdRead \subseteq Socks
          /\ Backlog = {} => maxSock = INVALID_SOCKET
    /\ \A k \in DOMAIN clients :
          Pending(k) /\ sock[clients[k]] \in fdRead => ServerReadable(clients[k])

\* A send in progress is that of a client in the list, and part of its queue.
PosInv ==
    /\ spc = "send" => pos <= Len(clients)
    /\ left > 0 => spc = "send" /\ left <= queue[Turn]

\* Connections begin one after the other, and a pass fails at most once a client.
ClientInv ==
    /\ cpc = "connect" => \A c \in i .. ClientNum : serverEnd[c] = "none"
    /\ cpc \in {"pass", "send"} => failedNum <= i - 1
    /\ cpc = "send" => i <= ClientNum

IInv == SocketsTypeOK /\ ServerTypeOK /\ ClientTypeOK /\ ConnInv /\ SetInv /\ PosInv /\ ClientInv

LEMMA InitIInv == Init => IInv
<1> SUFFICES ASSUME Init PROVE IInv
  OBVIOUS
<1>5. SocketsTypeOK
  <2>1. 0 \in 0 .. Capacity
    BY AssumptionsHold DEF Assumptions, SocketsAssumption
  <2> QED BY <2>1 DEF Init, SocketsInit, SocketsTypeOK
<1> USE AssumptionsHold DEF Assumptions, SocketsAssumption, ServerAssumption, ClientAssumption,
    Init, SocketsInit, ServerInit, ClientInit
<1>1. ServerTypeOK
  <2>1. /\ clients \in Seq(Clients) /\ sock \in [Clients -> Descriptors \cup {INVALID_SOCKET}]
        /\ retain \in [Clients -> 0 .. MsgLen - 1] /\ queue \in [Clients -> Nat]
    OBVIOUS
  <2> QED BY <2>1 DEF ServerTypeOK
<1>0. ClientTypeOK
  BY DEF ClientTypeOK
<1>2. Listed = {} /\ Backlog = {} /\ DOMAIN clients = {}
  BY DEF Listed, Backlog
<1>3. ConnInv
  BY <1>2 DEF ConnInv, Distinct
<1>4. SetInv /\ PosInv /\ ClientInv
  BY <1>2 DEF SetInv, PosInv, ClientInv
<1> QED BY <1>0, <1>1, <1>3, <1>4, <1>5 DEF IInv

------------------------------------------------------------------------------
(* What does not concern a part of the invariant leaves it true.           *)

LEMMA ConnFrame ==
    ASSUME ConnInv, UNCHANGED <<listening, serverEnd, clients, sock>>,
           spc' \in {"bind", "listen", "closed"} => ~listening
    PROVE  ConnInv'
BY DEF ConnInv, Listed, Backlog, Distinct

LEMMA ClientFrame ==
    ASSUME IInv, UNCHANGED clientVars,
           \A c \in Clients : serverEnd[c] = "none" => serverEnd'[c] = "none"
    PROVE  ClientTypeOK' /\ ClientInv'
<1>1. ClientTypeOK'
  BY DEF IInv, ClientTypeOK, clientVars
<1>2. ClientInv'
  <2>1. i \in Nat \ {0} /\ Clients = 1 .. ClientNum /\ ClientNum \in Nat
    BY AssumptionsHold DEF IInv, ClientTypeOK, Assumptions, ClientAssumption
  <2>2. ASSUME cpc = "connect", NEW c \in i .. ClientNum PROVE serverEnd'[c] = "none"
    <3>1. c \in Clients /\ serverEnd[c] = "none"
      BY <2>1, <2>2 DEF IInv, ClientInv
    <3> QED BY <3>1
  <2> QED BY <2>2 DEF IInv, ClientInv, clientVars
<1> QED BY <1>1, <1>2

\* The steps of the client program: what the server can receive stays.
LEMMA ServerFrame ==
    ASSUME IInv, UNCHANGED serverVars, UNCHANGED <<listening, serverEnd>>,
           \A c \in Listed : ServerReadable(c) => ServerReadable(c)'
    PROVE  ServerTypeOK' /\ ConnInv' /\ SetInv' /\ PosInv'
<1>0. ServerTypeOK'
  BY DEF IInv, ServerTypeOK, serverVars
<1>1. ConnInv'
  BY ConnFrame DEF IInv, ConnInv, serverVars
<1>2. PosInv'
  BY DEF IInv, PosInv, serverVars, Turn
<1>3. Backlog' = Backlog /\ Listed' = Listed /\ Socks' = Socks
  BY DEF Backlog, Listed, Socks, serverVars
<1>4. ASSUME NEW k \in DOMAIN clients PROVE clients[k] \in Listed
  BY DEF Listed
<1>5. SetInv'
  BY <1>3, <1>4 DEF IInv, SetInv, serverVars, Pending
<1> QED BY <1>0, <1>1, <1>2, <1>5

------------------------------------------------------------------------------
(* The server's steps.                                                     *)

LEMMA StartFailsIInv == IInv /\ StartFails /\ UNCHANGED clientVars => IInv'
<1> SUFFICES ASSUME IInv, StartFails, UNCHANGED clientVars PROVE IInv'
  OBVIOUS
<1>1. SocketsTypeOK' /\ ServerTypeOK'
  BY DEF IInv, ServerTypeOK, SocketsTypeOK, StartFails, sockets, objects, loop
<1>2. ConnInv'
  BY ConnFrame DEF IInv, ConnInv, StartFails, sockets, objects
<1>3. SetInv' /\ PosInv'
  BY DEF IInv, SetInv, PosInv, StartFails, sockets, objects, loop, Pending, Turn
<1>4. ClientTypeOK' /\ ClientInv'
  BY ClientFrame DEF StartFails, sockets
<1> QED BY <1>1, <1>2, <1>3, <1>4 DEF IInv

LEMMA BindIInv == IInv /\ Bind /\ UNCHANGED clientVars => IInv'
<1> SUFFICES ASSUME IInv, Bind, UNCHANGED clientVars PROVE IInv'
  OBVIOUS
<1>1. SocketsTypeOK' /\ ServerTypeOK'
  BY DEF IInv, ServerTypeOK, SocketsTypeOK, Bind, sockets, objects, loop
<1>2. ConnInv'
  BY ConnFrame DEF IInv, ConnInv, Bind, sockets, objects
<1>3. Backlog' = Backlog /\ Listed' = Listed /\ Socks' = Socks
  BY DEF Backlog, Listed, Socks, Bind, sockets, objects
<1>4. SetInv' /\ PosInv'
  BY <1>3 DEF IInv, SetInv, PosInv, Bind, sockets, objects, loop, Pending, Turn
<1>5. ClientTypeOK' /\ ClientInv'
  BY ClientFrame DEF Bind, sockets
<1> QED BY <1>1, <1>2, <1>4, <1>5 DEF IInv

LEMMA ListenIInv == IInv /\ Listen /\ UNCHANGED clientVars => IInv'
<1> SUFFICES ASSUME IInv, Listen, UNCHANGED clientVars PROVE IInv'
  OBVIOUS
<1>1. SocketsTypeOK' /\ ServerTypeOK'
  BY DEF IInv, ServerTypeOK, SocketsTypeOK, Listen, objects, loop
<1>2. Backlog' = Backlog /\ Listed' = Listed /\ Socks' = Socks
  BY DEF Backlog, Listed, Socks, Listen, objects
<1>3. ConnInv'
  BY <1>2 DEF IInv, ConnInv, Listen, objects, Distinct
<1>4. SetInv' /\ PosInv'
  BY <1>2 DEF IInv, SetInv, PosInv, Listen, objects, loop, Pending, Turn
<1>5. ClientTypeOK' /\ ClientInv'
  BY ClientFrame DEF Listen
<1> QED BY <1>1, <1>3, <1>4, <1>5 DEF IInv

LEMMA ServerEndsIInv == IInv /\ ServerEnds /\ UNCHANGED clientVars => IInv'
<1> SUFFICES ASSUME IInv, ServerEnds, UNCHANGED clientVars PROVE IInv'
  OBVIOUS
<1> USE AssumptionsHold DEF Assumptions, SocketsAssumption, ServerAssumption
<1>1. /\ serverEnd' \in [Clients -> {"none", "closed"}]
      /\ up' \in [Clients -> 0 .. Capacity]
      /\ \A c \in Clients : serverEnd[c] = "none" => serverEnd'[c] = "none"
  BY DEF IInv, SocketsTypeOK, ServerEnds, ServerCloses
<1>2. SocketsTypeOK' /\ ServerTypeOK'
  <2>1. SocketsTypeOK'
    BY <1>1 DEF IInv, SocketsTypeOK, ServerEnds
  <2>2. /\ clients' \in Seq(Clients) /\ sock' \in [Clients -> Descriptors \cup {INVALID_SOCKET}]
        /\ retain' \in [Clients -> 0 .. MsgLen - 1] /\ queue' \in [Clients -> Nat]
    BY DEF ServerEnds
  <2>3. ServerTypeOK'
    BY <2>2 DEF IInv, ServerTypeOK, ServerEnds, loop
  <2> QED BY <2>1, <2>3
<1>3. Backlog' = {} /\ Listed' = {} /\ Socks' = {} /\ DOMAIN clients' = {}
  BY <1>1 DEF Backlog, Listed, Socks, ServerEnds
<1>4. ConnInv'
  BY <1>1, <1>3 DEF ConnInv, ServerEnds, Distinct
<1>5. SetInv' /\ PosInv'
  BY <1>3 DEF IInv, SetInv, PosInv, ServerEnds, loop, Pending
<1>6. ClientTypeOK' /\ ClientInv'
  BY <1>1, ClientFrame
<1> QED BY <1>2, <1>4, <1>5, <1>6 DEF IInv

LEMMA CloseIInv == IInv /\ Close /\ UNCHANGED clientVars => IInv'
BY ServerEndsIInv DEF Close

\* The descriptors of the clients, of which there is one for each.
LEMMA SocksFacts ==
    ASSUME IInv
    PROVE  /\ clients \in Seq(Clients) /\ DOMAIN clients = 1 .. Len(clients)
           /\ \A k \in DOMAIN clients : clients[k] \in Listed /\ sock[clients[k]] \in Socks
           /\ Listed \subseteq Clients /\ Socks \subseteq Descriptors
           /\ IsFiniteSet(Listed) /\ IsFiniteSet(Socks)
           /\ Cardinality(Socks) <= Cardinality(Listed)
<1>1. clients \in Seq(Clients) /\ DOMAIN clients = 1 .. Len(clients)
  BY DEF IInv, ServerTypeOK
<1>2. ASSUME NEW k \in DOMAIN clients
      PROVE  clients[k] \in Listed /\ sock[clients[k]] \in Socks
  BY DEF Listed, Socks
<1>3. Listed \subseteq Clients
  BY <1>1 DEF Listed
<1>4. Socks \subseteq Descriptors
  BY <1>3 DEF IInv, ServerTypeOK, ConnInv, Socks
<1>5. IsFiniteSet(Listed)
  BY <1>3, FS_Subset, AssumptionsHold DEF Assumptions, ServerAssumption
<1>6. IsFiniteSet(Socks) /\ Cardinality(Socks) <= Cardinality(Listed)
  <2> DEFINE f == [c \in Listed |-> sock[c]]
  <2>1. f \in Surjection(Listed, Socks)
    BY DEF Surjection, Socks
  <2> QED BY <2>1, <1>5, FS_Surjection
<1> QED BY <1>1, <1>2, <1>3, <1>4, <1>5, <1>6

\* accept finds a descriptor, since there is one for every client.
LEMMA FreeDescriptor ==
    ASSUME IInv, NEW c \in Backlog
    PROVE  Min(Descriptors \ Socks) \in Descriptors \ Socks
<1> USE AssumptionsHold DEF Assumptions, ServerAssumption
<1>1. c \in Clients /\ c \notin Listed
  BY DEF Backlog, IInv, ConnInv
<1>2. Cardinality(Listed) < Cardinality(Clients)
  <2>1. Cardinality(Listed) <= Cardinality(Clients) /\ Cardinality(Listed) # Cardinality(Clients)
    BY <1>1, SocksFacts, FS_Subset
  <2>2. Cardinality(Listed) \in Nat /\ Cardinality(Clients) \in Nat
    BY SocksFacts, FS_CardinalityType
  <2> QED BY <2>1, <2>2
<1>3. Descriptors \ Socks # {}
  <2> SUFFICES ASSUME Descriptors \ Socks = {} PROVE FALSE
    OBVIOUS
  <2>1. Descriptors = Socks
    BY SocksFacts
  <2>2. /\ Cardinality(Listed) \in Nat /\ Cardinality(Clients) \in Nat
        /\ Cardinality(Socks) \in Nat /\ Cardinality(Socks) <= Cardinality(Listed)
    BY SocksFacts, FS_CardinalityType
  <2> QED BY <1>2, <2>1, <2>2
<1>4. IsFiniteSet(Descriptors \ Socks) /\ Descriptors \ Socks \subseteq Nat
  BY FS_Subset
<1> QED BY <1>3, <1>4, MinMax

\* What Rebuild leaves in _fdReadBackup and _maxSock.
LEMMA RebuildFacts ==
    ASSUME IInv, spc = "run", Rebuild
    PROVE  /\ backup' = {ServerSock} \cup Socks
           /\ maxSock' \in Descriptors \cup {INVALID_SOCKET}
           /\ maxSock' = INVALID_SOCKET => clients = << >>
<1>1. backup' = {ServerSock} \cup Socks
  BY DEF Rebuild, IInv, SetInv
<1>2. CASE change /\ clients # << >>
  <2>1. Socks # {} /\ Socks \subseteq Nat /\ Socks \subseteq Descriptors
    <3>1. 1 \in DOMAIN clients
      BY <1>2, SocksFacts
    <3> QED BY <3>1, SocksFacts, AssumptionsHold DEF Assumptions, ServerAssumption
  <2>2. Max(Socks) \in Socks
    BY <2>1, SocksFacts, MinMax
  <2>3. maxSock' = Max(Socks)
    BY <1>2 DEF Rebuild, NewMaxSock
  <2>4. \A d \in Descriptors : d # INVALID_SOCKET
    BY AssumptionsHold DEF Assumptions, ServerAssumption, INVALID_SOCKET
  <2> QED BY <1>1, <2>1, <2>2, <2>3, <2>4
<1>3. CASE clients = << >>
  BY <1>1, <1>3 DEF Rebuild, NewMaxSock, IInv, ServerTypeOK
<1>4. CASE ~change
  BY <1>1, <1>4 DEF Rebuild, IInv, ServerTypeOK, SetInv
<1> QED BY <1>2, <1>3, <1>4

LEMMA SelectIInv == IInv /\ Select /\ UNCHANGED clientVars => IInv'
<1> SUFFICES ASSUME IInv, Select, UNCHANGED clientVars PROVE IInv'
  OBVIOUS
<1>0. ASSUME NEW m \in Descriptors PROVE m + 1 # 0
  BY AssumptionsHold DEF Assumptions, ServerAssumption
<1> DEFINE set == Selected(maxSock' + 1, backup')
<1>1. /\ backup' = {ServerSock} \cup Socks
      /\ maxSock' \in Descriptors \cup {INVALID_SOCKET}
      /\ maxSock' = INVALID_SOCKET => clients = << >>
      /\ change' = FALSE
  BY RebuildFacts DEF Select, Rebuild
<1>2. /\ fdRead' = set \ {ServerSock}
      /\ spc' = IF ServerSock \in set THEN "accept" ELSE "serve"
      /\ UNCHANGED <<sockets, objects, pos, left>> /\ spc = "run"
  BY DEF Select
<1>3. /\ set \subseteq {ServerSock} \cup Socks
      /\ \/ maxSock' = INVALID_SOCKET
         \/ \A d \in set : Ready(d)
  <2>1. CASE maxSock' = INVALID_SOCKET
    BY <1>1, <2>1 DEF Selected, INVALID_SOCKET
  <2>2. CASE maxSock' \in Descriptors
    <3>1. maxSock' + 1 # 0
      BY <1>0, <2>2
    <3> QED BY <1>1, <3>1 DEF Selected
  <2> QED BY <1>1, <2>1, <2>2
<1>4. ASSUME NEW c \in Listed PROVE sock[c] \in Descriptors /\ sock[c] # ServerSock
  <2>1. sock[c] \in Socks
    BY <1>4 DEF Socks
  <2> QED BY <2>1, SocksFacts, AssumptionsHold DEF Assumptions, ServerAssumption
<1> HIDE DEF set
<1>5. Backlog' = Backlog /\ Listed' = Listed /\ Socks' = Socks
  BY <1>2 DEF Backlog, Listed, Socks, sockets, objects
<1>6. SocketsTypeOK' /\ ServerTypeOK'
  <2>1. backup' \subseteq Descriptors \cup {ServerSock} /\ fdRead' \subseteq Descriptors
    BY <1>1, <1>2, <1>3, SocksFacts
  <2> QED BY <1>1, <1>2, <2>1 DEF IInv, SocketsTypeOK, ServerTypeOK, sockets, objects
<1>7. ConnInv'
  BY <1>2, ConnFrame DEF IInv, sockets, objects
<1>8. SetInv'
  <2>1. backup' = {ServerSock} \cup Socks'
    BY <1>1, <1>5
  <2>2. maxSock' = INVALID_SOCKET => clients' = << >>
    BY <1>1, <1>2 DEF objects
  <2>3. ASSUME spc' = "accept" PROVE fdRead' \subseteq Socks' /\ (Backlog' = {} => maxSock' = INVALID_SOCKET)
    <3>1. ServerSock \in set
      BY <1>2, <2>3
    <3>2. Ready(ServerSock) => Backlog # {}
      BY <1>4 DEF Ready
    <3> QED BY <1>2, <1>3, <1>5, <3>1, <3>2
  <2>4. ASSUME NEW k \in DOMAIN clients', sock'[clients'[k]] \in fdRead'
        PROVE  ServerReadable(clients[k])'
    <3>1. clients' = clients /\ sock' = sock /\ up' = up /\ clientEnd' = clientEnd
      BY <1>2 DEF sockets, objects
    <3>2. clients[k] \in Listed /\ sock[clients[k]] # ServerSock /\ clients # << >>
      BY <1>4, <2>4, <3>1, SocksFacts
    <3>3. Ready(sock[clients[k]])
      BY <1>1, <1>2, <1>3, <2>4, <3>1, <3>2
    <3>4. PICK c \in Listed : sock[c] = sock[clients[k]] /\ ServerReadable(c)
      BY <3>2, <3>3 DEF Ready
    <3>5. c = clients[k]
      BY <3>2, <3>4 DEF IInv, ConnInv
    <3> QED BY <3>1, <3>4, <3>5 DEF ServerReadable
  <2> QED BY <1>1, <2>1, <2>2, <2>3, <2>4 DEF SetInv
<1>9. PosInv'
  BY <1>2 DEF IInv, PosInv, objects, Turn
<1>10. ClientTypeOK' /\ ClientInv'
  BY <1>2, ClientFrame DEF sockets
<1> QED BY <1>6, <1>7, <1>8, <1>9, <1>10 DEF IInv

\* The new client is the last of the list, and select has not seen its descriptor.
LEMMA AcceptIInv == IInv /\ Accept /\ UNCHANGED clientVars => IInv'
<1> SUFFICES ASSUME IInv, Accept, UNCHANGED clientVars PROVE IInv'
  OBVIOUS
<1>1. PICK c \in Backlog :
         /\ serverEnd' = [serverEnd EXCEPT ![c] = "open"]
         /\ clients' = Append(clients, c)
         /\ sock' = [sock EXCEPT ![c] = Min(Descriptors \ Socks)]
  BY DEF Accept
<1> DEFINE d == Min(Descriptors \ Socks)
<1>2. /\ d \in Descriptors /\ d \notin Socks /\ d # INVALID_SOCKET
      /\ c \in Clients /\ c \notin Listed
  <2>1. \A e \in Descriptors : e # INVALID_SOCKET
    BY AssumptionsHold DEF Assumptions, ServerAssumption, INVALID_SOCKET
  <2> QED BY <2>1, FreeDescriptor DEF Backlog, IInv, ConnInv
<1>3. /\ spc = "accept" /\ spc' = "serve" /\ change' = TRUE
      /\ UNCHANGED <<listening, clientEnd, up, down, maxSock, backup, fdRead, pos, retain, queue,
                     left>>
  BY DEF Accept
<1> HIDE DEF d
<1>4. sock' = [sock EXCEPT ![c] = d]
  BY <1>1 DEF d
<1>5. /\ clients' \in Seq(Clients) /\ Listed' = Listed \cup {c} /\ Distinct(clients')
      /\ Len(clients') = Len(clients) + 1 /\ clients'[Len(clients) + 1] = c
      /\ \A k \in DOMAIN clients : clients'[k] = clients[k]
  <2>1. Listed = Elems(clients) /\ Listed' = Elems(clients')
    BY DEF Listed, Elems
  <2>2. clients \in Seq(Clients) /\ Distinct(clients)
    BY DEF IInv, ServerTypeOK, ConnInv
  <2>3. /\ Len(clients') = Len(clients) + 1 /\ clients'[Len(clients) + 1] = c
        /\ \A k \in DOMAIN clients : clients'[k] = clients[k]
    BY <1>1, <1>2, <2>2
  <2> QED BY <1>1, <1>2, <2>1, <2>2, <2>3, AppendElems
<1>6. /\ serverEnd' \in [Clients -> {"none", "backlog", "open", "closed"}]
      /\ sock' \in [Clients -> Descriptors \cup {INVALID_SOCKET}]
      /\ serverEnd'[c] = "open" /\ sock'[c] = d
      /\ \A e \in Clients : e # c => serverEnd'[e] = serverEnd[e] /\ sock'[e] = sock[e]
  BY <1>1, <1>2, <1>4 DEF IInv, SocketsTypeOK, ServerTypeOK
<1>7. SocketsTypeOK' /\ ServerTypeOK'
  BY <1>3, <1>5, <1>6 DEF IInv, SocketsTypeOK, ServerTypeOK
<1>8. ConnInv'
  <2>1. Listed' = {e \in Clients : serverEnd'[e] = "open"}
    BY <1>2, <1>5, <1>6 DEF IInv, ConnInv
  <2>2. \A e \in Clients : sock'[e] = INVALID_SOCKET <=> e \notin Listed'
    BY <1>2, <1>5, <1>6 DEF IInv, ConnInv
  <2>3. ASSUME NEW e \in Listed', NEW f \in Listed', e # f PROVE sock'[e] # sock'[f]
    <3>1. \A g \in Listed : g # c /\ g \in Clients /\ sock[g] \in Socks
      BY <1>2, SocksFacts DEF Socks
    <3> QED BY <1>2, <1>5, <1>6, <2>3, <3>1 DEF IInv, ConnInv
  <2>4. listening' /\ spc' \notin {"bind", "listen", "closed"}
    BY <1>2, <1>3 DEF IInv, ConnInv
  <2> QED BY <1>5, <2>1, <2>2, <2>3, <2>4 DEF ConnInv
<1>9. SetInv'
  <2>1. ASSUME NEW k \in DOMAIN clients', Pending(k)', sock'[clients'[k]] \in fdRead'
        PROVE  ServerReadable(clients[k]) /\ k \in DOMAIN clients
    <3>1. CASE k = Len(clients) + 1
      <4>1. sock'[clients'[k]] = d /\ fdRead' \subseteq Socks
        BY <1>3, <1>5, <1>6, <3>1 DEF IInv, SetInv
      <4> QED BY <1>2, <2>1, <4>1
    <3>2. CASE k \in DOMAIN clients
      <4>1. clients[k] \in Listed /\ clients'[k] = clients[k] /\ clients[k] # c
        BY <1>2, <1>5, <3>2, SocksFacts
      <4>2. sock[clients[k]] \in fdRead /\ Pending(k)
        BY <1>3, <1>6, <2>1, <4>1, SocksFacts DEF Pending
      <4> QED BY <3>2, <4>2 DEF IInv, SetInv
    <3> QED BY <1>5, <2>1, <3>1, <3>2, SocksFacts
  <2>2. ASSUME NEW k \in DOMAIN clients', Pending(k)', sock'[clients'[k]] \in fdRead'
        PROVE  ServerReadable(clients'[k])
    <3>1. clients'[k] = clients[k]
      BY <1>5, <2>1, <2>2
    <3> QED BY <1>3, <2>1, <2>2, <3>1 DEF ServerReadable
  <2>3. ASSUME NEW e, ServerReadable(e) PROVE up'[e] > 0 \/ clientEnd'[e] = "closed"
    BY <1>3, <2>3 DEF ServerReadable
  <2> QED BY <1>3, <2>2, <2>3 DEF SetInv, ServerReadable
<1>10. PosInv'
  BY <1>3 DEF IInv, PosInv
<1>11. ClientTypeOK' /\ ClientInv'
  BY <1>2, <1>6, ClientFrame DEF Backlog
<1> QED BY <1>7, <1>8, <1>9, <1>10, <1>11 DEF IInv

LEMMA AcceptFailsIInv == IInv /\ AcceptFails /\ UNCHANGED clientVars => IInv'
<1> SUFFICES ASSUME IInv, AcceptFails, UNCHANGED clientVars PROVE IInv'
  OBVIOUS
<1>1. PICK c \in Backlog : ServerCloses({c})
  BY DEF AcceptFails
<1>2. /\ spc = "accept" /\ spc' = "serve"
      /\ UNCHANGED <<listening, clientEnd, down, objects, loop, pos, left>>
  BY DEF AcceptFails
<1>3. c \in Clients /\ serverEnd[c] = "backlog" /\ c \notin Listed
  BY DEF Backlog, IInv, ConnInv
<1>4. /\ serverEnd' = [e \in Clients |-> IF e = c THEN "closed" ELSE serverEnd[e]]
      /\ up' = [e \in Clients |-> IF e = c THEN 0 ELSE up[e]]
  BY <1>1, <1>3 DEF ServerCloses
<1>5. Listed' = Listed /\ Socks' = Socks
  BY <1>2 DEF Listed, Socks, objects
<1>6. SocketsTypeOK' /\ ServerTypeOK'
  <2>1. 0 \in 0 .. Capacity
    BY AssumptionsHold DEF Assumptions, SocketsAssumption
  <2> QED BY <1>2, <1>4, <2>1 DEF IInv, SocketsTypeOK, ServerTypeOK, objects, loop
<1>7. ConnInv'
  <2>1. Listed' = {e \in Clients : serverEnd'[e] = "open"}
    BY <1>3, <1>4, <1>5 DEF IInv, ConnInv
  <2>2. listening
    BY <1>3 DEF IInv, ConnInv, Backlog
  <2> QED BY <1>2, <1>5, <2>1, <2>2 DEF IInv, ConnInv, objects, Distinct
<1>8. SetInv'
  <2>1. ASSUME NEW k \in DOMAIN clients, ServerReadable(clients[k]) PROVE ServerReadable(clients[k])'
    <3>1. clients[k] # c /\ clients[k] \in Clients
      BY <1>3, SocksFacts
    <3> QED BY <1>2, <1>4, <2>1, <3>1 DEF ServerReadable, objects
  <2> QED BY <1>2, <1>5, <2>1 DEF IInv, SetInv, Pending, objects, loop
<1>9. PosInv'
  BY <1>2 DEF IInv, PosInv, objects, Turn
<1>10. ClientTypeOK' /\ ClientInv'
  BY <1>3, <1>4, ClientFrame
<1> QED BY <1>6, <1>7, <1>8, <1>9, <1>10 DEF IInv

\* The client at the iterator is closed and erased; the next take its place.
LEMMA DeleteIInv ==
    ASSUME IInv, spc \in {"serve", "send"}, pos <= Len(clients), Delete, UNCHANGED clientVars
    PROVE  IInv'
<1>1. /\ clients \in Seq(Clients) /\ pos \in 1 .. Len(clients) /\ pos \in DOMAIN clients
      /\ Turn \in Listed /\ Turn \in Clients /\ Distinct(clients)
  <2>1. pos \in 1 .. Len(clients)
    BY SocksFacts DEF IInv, ServerTypeOK
  <2> QED BY <2>1, SocksFacts DEF Turn, IInv, ConnInv
<1>2. /\ spc' = "serve" /\ change' = TRUE /\ left' = 0
      /\ UNCHANGED <<listening, clientEnd, down, maxSock, backup, fdRead, pos>>
  BY DEF Delete
<1>3. /\ serverEnd' = [c \in Clients |-> IF c = Turn THEN "closed" ELSE serverEnd[c]]
      /\ up' = [c \in Clients |-> IF c = Turn THEN 0 ELSE up[c]]
      /\ sock' = [c \in Clients |-> IF c = Turn THEN INVALID_SOCKET ELSE sock[c]]
      /\ retain' = [retain EXCEPT ![Turn] = 0] /\ queue' = [queue EXCEPT ![Turn] = 0]
  <2>1. serverEnd[Turn] = "open"
    BY <1>1 DEF IInv, ConnInv
  <2>2. sock \in [Clients -> Descriptors \cup {INVALID_SOCKET}]
    BY DEF IInv, ServerTypeOK
  <2> QED BY <1>1, <2>1, <2>2 DEF Delete, ServerCloses
<1>4. /\ clients' \in Seq(Clients) /\ Len(clients') = Len(clients) - 1
      /\ DOMAIN clients' = 1 .. Len(clients) - 1
      /\ \A j \in 1 .. Len(clients) - 1 :
            clients'[j] = IF j < pos THEN clients[j] ELSE clients[j + 1]
  <2> DEFINE r == RemoveAt(clients, pos)
  <2>1. clients' = r
    BY DEF Delete
  <2>2. /\ r \in Seq(Clients) /\ Len(r) = Len(clients) - 1
        /\ \A j \in 1 .. Len(clients) - 1 :
              r[j] = IF j < pos THEN clients[j] ELSE clients[j + 1]
    BY <1>1, RemoveFacts
  <2> HIDE DEF r
  <2>3. DOMAIN r = 1 .. Len(clients) - 1
    BY <2>2
  <2> QED BY <2>1, <2>2, <2>3
<1>5. Distinct(clients') /\ Listed' = Listed \ {Turn}
  <2>1. clients' = RemoveAt(clients, pos)
    BY DEF Delete
  <2>2. Listed = Elems(clients) /\ Listed' = Elems(clients')
    BY DEF Listed, Elems
  <2> QED BY <1>1, <2>1, <2>2, RemoveElems DEF Turn
<1>6. SocketsTypeOK' /\ ServerTypeOK'
  <2>1. 0 \in 0 .. Capacity /\ 0 \in 0 .. MsgLen - 1 /\ 0 \in 0 .. SendMax
    BY AssumptionsHold DEF Assumptions, SocketsAssumption, ServerAssumption
  <2>2. SocketsTypeOK'
    BY <1>2, <1>3, <2>1 DEF IInv, SocketsTypeOK
  <2>3. /\ sock' \in [Clients -> Descriptors \cup {INVALID_SOCKET}]
        /\ retain' \in [Clients -> 0 .. MsgLen - 1] /\ queue' \in [Clients -> Nat]
    BY <1>3, <2>1 DEF IInv, ServerTypeOK
  <2> QED BY <1>2, <1>4, <2>1, <2>2, <2>3 DEF IInv, ServerTypeOK
<1>7. ConnInv'
  <2>1. Listed' = {c \in Clients : serverEnd'[c] = "open"}
    BY <1>1, <1>3, <1>5 DEF IInv, ConnInv
  <2>2. \A c \in Clients : sock'[c] = INVALID_SOCKET <=> c \notin Listed'
    BY <1>1, <1>3, <1>5 DEF IInv, ConnInv
  <2>3. \A c, e \in Listed' : c # e => sock'[c] # sock'[e]
    BY <1>3, <1>5, SocksFacts DEF IInv, ConnInv
  <2>4. ~listening' => Listed' \cup Backlog' = {}
    BY <1>1, <1>2 DEF IInv, ConnInv
  <2> QED BY <1>2, <1>5, <2>1, <2>2, <2>3, <2>4 DEF ConnInv
<1>8. SetInv'
  <2>1. ASSUME NEW k \in DOMAIN clients', k >= pos, sock'[clients'[k]] \in fdRead'
        PROVE  up'[clients'[k]] > 0 \/ clientEnd'[clients'[k]] = "closed"
    <3>1. /\ k + 1 \in DOMAIN clients /\ clients'[k] = clients[k + 1] /\ k + 1 > pos
          /\ pos \in Nat /\ k + 1 >= pos
      BY <1>1, <1>4, <2>1, SocksFacts
    <3>2. clients[k + 1] \in Clients /\ clients[k + 1] # Turn
      BY <1>1, <3>1, SocksFacts DEF Distinct, Turn
    <3>3. sock[clients[k + 1]] \in fdRead
      BY <1>2, <1>3, <2>1, <3>1, <3>2
    <3>4. Pending(k + 1)
      BY <3>1 DEF Pending
    <3>5. ServerReadable(clients[k + 1])
      BY <3>1, <3>3, <3>4 DEF IInv, SetInv
    <3> QED BY <1>2, <1>3, <3>1, <3>2, <3>5 DEF ServerReadable
  <2> QED BY <1>2, <2>1 DEF SetInv, Pending, ServerReadable
<1>9. PosInv'
  BY <1>2 DEF PosInv
<1>10. ClientTypeOK' /\ ClientInv'
  BY <1>1, <1>3, ClientFrame DEF IInv, ConnInv
<1> QED BY <1>6, <1>7, <1>8, <1>9, <1>10 DEF IInv

\* The quotient and the remainder stay in bounds.
LEMMA DivMod ==
    ASSUME NEW a \in Nat, NEW b \in Nat \ {0}
    PROVE  a % b \in 0 .. b - 1 /\ a \div b \in Nat /\ a % b <= a
<1>1. a % b \in 0 .. b - 1 /\ a \div b \in Int /\ a = b * (a \div b) + (a % b)
  BY Z3
<1>2. a \div b >= 0
  BY Z3
<1>3. b * (a \div b) >= 0
  BY <1>1, <1>2, Z3
<1> QED BY <1>1, <1>2, <1>3

LEMMA ProcessorRecvIInv == IInv /\ ProcessorRecv /\ UNCHANGED clientVars => IInv'
<1> SUFFICES ASSUME IInv, ProcessorRecv, UNCHANGED clientVars PROVE IInv'
  OBVIOUS
<1>1. /\ pos \in DOMAIN clients /\ Turn \in Clients /\ pos <= Len(clients)
      /\ \A k \in DOMAIN clients : k # pos => clients[k] # Turn /\ clients[k] \in Clients
  <2>1. pos \in DOMAIN clients
    BY SocksFacts DEF IInv, ServerTypeOK, ProcessorRecv, Serving
  <2> QED BY <2>1, SocksFacts DEF Turn, IInv, ConnInv, Distinct, ProcessorRecv, Serving
<1>2. PICK n \in AtMost(up[Turn], RecvMax) :
         /\ up' = [up EXCEPT ![Turn] = @ - n]
         /\ retain' = [retain EXCEPT ![Turn] = (@ + n) % MsgLen]
         /\ \E to \in {{Turn}, Listed} : OnMsgHandle(to, (retain[Turn] + n) \div MsgLen)
  BY DEF ProcessorRecv
<1>3. /\ spc = "serve" /\ spc' = "send"
      /\ UNCHANGED <<listening, clientEnd, serverEnd, down, clients, sock, loop, pos, left>>
  BY DEF ProcessorRecv, Serving
<1>4. n \in Nat /\ n <= up[Turn]
  BY <1>1, <1>2, AssumptionsHold
     DEF IInv, SocketsTypeOK, AtMost, Assumptions, ServerAssumption, SocketsAssumption
<1>5. up' \in [Clients -> 0 .. Capacity]
  <2>1. up[Turn] - n \in 0 .. Capacity
    BY <1>1, <1>4, AssumptionsHold DEF IInv, SocketsTypeOK, Assumptions, SocketsAssumption
  <2> QED BY <1>1, <1>2, <2>1 DEF IInv, SocketsTypeOK
<1>6. /\ (retain[Turn] + n) % MsgLen \in 0 .. MsgLen - 1
      /\ (retain[Turn] + n) \div MsgLen \in Nat
      /\ MsgLen \in Nat \ {0}
  <2>1. MsgLen \in Nat \ {0}
    BY AssumptionsHold DEF Assumptions, ServerAssumption
  <2>2. retain[Turn] + n \in Nat
    BY <1>1, <1>4, <2>1 DEF IInv, ServerTypeOK
  <2> QED BY <2>1, <2>2, DivMod
<1>7. retain' \in [Clients -> 0 .. MsgLen - 1]
  BY <1>1, <1>2, <1>6 DEF IInv, ServerTypeOK
<1>8. queue' \in [Clients -> Nat]
  <2> DEFINE msgs == (retain[Turn] + n) \div MsgLen
  <2>1. PICK to : OnMsgHandle(to, msgs)
    BY <1>2
  <2> HIDE DEF msgs
  <2>2. msgs \in Nat
    BY <1>6 DEF msgs
  <2>3. msgs * MsgLen \in Nat
    BY <1>6, <2>2
  <2> QED BY <2>1, <2>3 DEF OnMsgHandle, IInv, ServerTypeOK
<1>9. SocketsTypeOK' /\ ServerTypeOK'
  BY <1>3, <1>5, <1>7, <1>8 DEF IInv, SocketsTypeOK, ServerTypeOK, loop
<1>10. ConnInv'
  BY <1>3, ConnFrame DEF IInv
<1>11. Backlog' = Backlog /\ Listed' = Listed /\ Socks' = Socks
  BY <1>3 DEF Backlog, Listed, Socks
<1>12. SetInv'
  <2>1. ASSUME NEW k \in DOMAIN clients', Pending(k)', sock'[clients'[k]] \in fdRead'
        PROVE  up'[clients'[k]] > 0 \/ clientEnd'[clients'[k]] = "closed"
    <3>1. k \in DOMAIN clients /\ k > pos /\ clients'[k] = clients[k]
      BY <1>3, <2>1 DEF Pending
    <3>2. k # pos /\ Pending(k)
      BY <1>1, <1>3, <3>1, SocksFacts DEF Pending, IInv, ServerTypeOK
    <3>3. ServerReadable(clients[k])
      BY <1>3, <2>1, <3>1, <3>2 DEF IInv, SetInv, loop
    <3> QED BY <1>1, <1>2, <1>3, <3>1, <3>2, <3>3 DEF ServerReadable, IInv, SocketsTypeOK
  <2> QED BY <1>3, <1>11, <2>1 DEF IInv, SetInv, loop, ServerReadable
<1>13. PosInv'
  BY <1>1, <1>3 DEF IInv, PosInv
<1>14. ClientTypeOK' /\ ClientInv'
  BY <1>3, ClientFrame
<1> QED BY <1>9, <1>10, <1>12, <1>13, <1>14 DEF IInv

LEMMA NothingToRecvIInv == IInv /\ NothingToRecv /\ UNCHANGED clientVars => IInv'
<1> SUFFICES ASSUME IInv, NothingToRecv, UNCHANGED clientVars PROVE IInv'
  OBVIOUS
<1>1. /\ spc = "serve" /\ pos <= Len(clients) /\ spc' = "send"
      /\ UNCHANGED <<sockets, objects, loop, pos, left>>
  BY DEF NothingToRecv, Serving
<1>2. SocketsTypeOK' /\ ServerTypeOK'
  BY <1>1 DEF IInv, ServerTypeOK, SocketsTypeOK, sockets, objects, loop
<1>3. ConnInv'
  BY <1>1, ConnFrame DEF IInv, sockets, objects
<1>4. Backlog' = Backlog /\ Listed' = Listed /\ Socks' = Socks
  BY <1>1 DEF Backlog, Listed, Socks, sockets, objects
<1>5. ASSUME NEW k \in DOMAIN clients, k > pos PROVE k >= pos
  BY <1>5, SocksFacts DEF IInv, ServerTypeOK
<1>6. SetInv'
  BY <1>1, <1>4, <1>5 DEF IInv, SetInv, sockets, objects, loop, Pending, ServerReadable
<1>7. PosInv'
  BY <1>1 DEF IInv, PosInv, objects
<1>8. ClientTypeOK' /\ ClientInv'
  BY <1>1, ClientFrame DEF sockets
<1> QED BY <1>2, <1>3, <1>6, <1>7, <1>8 DEF IInv

\* What is sent at once is at most the buffer, and part of the queue.
LEMMA SendBeginIInv == IInv /\ SendBegin /\ UNCHANGED clientVars => IInv'
<1> SUFFICES ASSUME IInv, SendBegin, UNCHANGED clientVars PROVE IInv'
  OBVIOUS
<1>1. /\ spc = "send" /\ queue[Turn] > 0 /\ left' = Min({queue[Turn], SendMax})
      /\ UNCHANGED <<sockets, spc, objects, loop, pos>>
  BY DEF SendBegin
<1>2. Turn \in Clients
  <2>1. pos \in DOMAIN clients
    BY <1>1, SocksFacts DEF IInv, PosInv, ServerTypeOK
  <2> QED BY <2>1, SocksFacts DEF Turn
<1>3. left' \in 0 .. SendMax /\ left' <= queue[Turn]
  <2>1. queue[Turn] \in Nat /\ SendMax \in Nat
    BY <1>2, AssumptionsHold DEF IInv, ServerTypeOK, Assumptions, ServerAssumption
  <2>2. left' \in {queue[Turn], SendMax} /\ \A n \in {queue[Turn], SendMax} : left' <= n
    BY <1>1, <2>1 DEF Min
  <2> QED BY <2>1, <2>2
<1>4. SocketsTypeOK' /\ ServerTypeOK'
  BY <1>1, <1>3 DEF IInv, ServerTypeOK, SocketsTypeOK, sockets, objects, loop
<1>5. ConnInv'
  BY <1>1, ConnFrame DEF IInv, ConnInv, sockets, objects
<1>6. Backlog' = Backlog /\ Listed' = Listed /\ Socks' = Socks
  BY <1>1 DEF Backlog, Listed, Socks, sockets, objects
<1>7. SetInv'
  BY <1>1, <1>6 DEF IInv, SetInv, sockets, objects, loop, Pending, ServerReadable
<1>8. PosInv'
  BY <1>1, <1>3 DEF IInv, PosInv, objects, Turn
<1>9. ClientTypeOK' /\ ClientInv'
  BY <1>1, ClientFrame DEF sockets
<1> QED BY <1>4, <1>5, <1>7, <1>8, <1>9 DEF IInv

LEMMA SendUnitIInv == IInv /\ SendUnit /\ UNCHANGED clientVars => IInv'
<1> SUFFICES ASSUME IInv, SendUnit, UNCHANGED clientVars PROVE IInv'
  OBVIOUS
<1>1. /\ spc = "send" /\ left > 0 /\ down[Turn] < Capacity
      /\ down' = [down EXCEPT ![Turn] = @ + 1]
      /\ queue' = [queue EXCEPT ![Turn] = @ - 1] /\ left' = left - 1
      /\ UNCHANGED <<listening, clientEnd, serverEnd, up, spc, clients, sock, retain, loop, pos>>
  BY DEF SendUnit
<1>2. Turn \in Clients
  <2>1. pos \in DOMAIN clients
    BY <1>1, SocksFacts DEF IInv, PosInv, ServerTypeOK
  <2> QED BY <2>1, SocksFacts DEF Turn
<1>3. /\ queue' \in [Clients -> Nat] /\ left' \in 0 .. SendMax /\ left' <= queue'[Turn]
      /\ down' \in [Clients -> 0 .. Capacity]
  <2>1. /\ queue[Turn] \in Nat /\ left \in 0 .. SendMax /\ left <= queue[Turn]
        /\ SendMax \in Nat /\ Capacity \in Nat /\ down[Turn] \in 0 .. Capacity
    BY <1>1, <1>2, AssumptionsHold
       DEF IInv, ServerTypeOK, SocketsTypeOK, PosInv, Assumptions, ServerAssumption,
           SocketsAssumption
  <2>2. queue[Turn] - 1 \in Nat /\ left - 1 \in 0 .. SendMax /\ left - 1 <= queue[Turn] - 1
    BY <1>1, <2>1
  <2>3. down[Turn] + 1 \in 0 .. Capacity
    BY <1>1, <2>1
  <2> QED BY <1>1, <1>2, <2>2, <2>3 DEF IInv, ServerTypeOK, SocketsTypeOK
<1>4. SocketsTypeOK' /\ ServerTypeOK'
  BY <1>1, <1>3 DEF IInv, ServerTypeOK, SocketsTypeOK, loop
<1>5. ConnInv'
  BY <1>1, ConnFrame DEF IInv, ConnInv
<1>6. Backlog' = Backlog /\ Listed' = Listed /\ Socks' = Socks
  BY <1>1 DEF Backlog, Listed, Socks
<1>7. SetInv'
  BY <1>1, <1>6 DEF IInv, SetInv, loop, Pending, ServerReadable
<1>8. PosInv'
  BY <1>1, <1>3 DEF IInv, PosInv, Turn
<1>9. ClientTypeOK' /\ ClientInv'
  BY <1>1, ClientFrame
<1> QED BY <1>4, <1>5, <1>7, <1>8, <1>9 DEF IInv

LEMMA SendEndIInv == IInv /\ SendEnd /\ UNCHANGED clientVars => IInv'
<1> SUFFICES ASSUME IInv, SendEnd, UNCHANGED clientVars PROVE IInv'
  OBVIOUS
<1>1. /\ spc = "send" /\ left = 0 /\ spc' = "serve" /\ pos' = pos + 1
      /\ UNCHANGED <<sockets, objects, loop, left>>
  BY DEF SendEnd
<1>2. SocketsTypeOK' /\ ServerTypeOK'
  BY <1>1 DEF IInv, ServerTypeOK, SocketsTypeOK, sockets, objects, loop
<1>3. ConnInv'
  BY <1>1, ConnFrame DEF IInv, sockets, objects
<1>4. Backlog' = Backlog /\ Listed' = Listed /\ Socks' = Socks
  BY <1>1 DEF Backlog, Listed, Socks, sockets, objects
<1>5. ASSUME NEW k \in DOMAIN clients, k >= pos + 1 PROVE k > pos
  BY <1>5, SocksFacts DEF IInv, ServerTypeOK
<1>6. SetInv'
  BY <1>1, <1>4, <1>5 DEF IInv, SetInv, sockets, objects, loop, Pending, ServerReadable
<1>7. PosInv'
  BY <1>1 DEF IInv, PosInv
<1>8. ClientTypeOK' /\ ClientInv'
  BY <1>1, ClientFrame DEF sockets
<1> QED BY <1>2, <1>3, <1>6, <1>7, <1>8 DEF IInv

LEMMA PassEndIInv == IInv /\ PassEnd /\ UNCHANGED clientVars => IInv'
<1> SUFFICES ASSUME IInv, PassEnd, UNCHANGED clientVars PROVE IInv'
  OBVIOUS
<1>1. /\ spc = "serve" /\ spc' = "run" /\ pos' = 1 /\ fdRead' = {}
      /\ UNCHANGED <<sockets, objects, change, maxSock, backup, left>>
  BY DEF PassEnd
<1>2. SocketsTypeOK' /\ ServerTypeOK'
  BY <1>1 DEF IInv, ServerTypeOK, SocketsTypeOK, sockets, objects
<1>3. ConnInv'
  BY <1>1, ConnFrame DEF IInv, sockets, objects
<1>4. Backlog' = Backlog /\ Listed' = Listed /\ Socks' = Socks
  BY <1>1 DEF Backlog, Listed, Socks, sockets, objects
<1>6. SetInv'
  BY <1>1, <1>4 DEF IInv, SetInv, sockets, objects, Pending
<1>7. PosInv'
  BY <1>1 DEF IInv, PosInv
<1>8. ClientTypeOK' /\ ClientInv'
  BY <1>1, ClientFrame DEF sockets
<1> QED BY <1>2, <1>3, <1>6, <1>7, <1>8 DEF IInv

LEMMA ServerNextIInv == IInv /\ Server => IInv'
<1> SUFFICES ASSUME IInv, ServerNext, UNCHANGED clientVars PROVE IInv'
  BY DEF Server
<1>1. ASSUME RecvFails PROVE IInv'
  BY <1>1, DeleteIInv DEF RecvFails, Serving
<1>2. ASSUME SendFails PROVE IInv'
  <2>1. spc = "send" /\ pos <= Len(clients)
    BY <1>2 DEF SendFails, IInv, PosInv
  <2> QED BY <1>2, <2>1, DeleteIInv, ServerEndsIInv DEF SendFails
<1>3. ASSUME Accumulated PROVE IInv'
  <2>1. spc = "send" /\ pos <= Len(clients)
    BY <1>3 DEF Accumulated, IInv, PosInv
  <2> QED BY <1>3, <2>1, DeleteIInv DEF Accumulated
<1> QED BY <1>1, <1>2, <1>3, StartFailsIInv, BindIInv, ListenIInv, CloseIInv, SelectIInv,
           AcceptIInv, AcceptFailsIInv, ProcessorRecvIInv, NothingToRecvIInv, SendBeginIInv,
           SendUnitIInv, SendEndIInv, PassEndIInv DEF ServerNext, OnRun

------------------------------------------------------------------------------
(* The clients' steps.                                                     *)

LEMMA inputThreadIInv == IInv /\ inputThread /\ UNCHANGED serverVars => IInv'
<1> SUFFICES ASSUME IInv, inputThread, UNCHANGED serverVars PROVE IInv'
  OBVIOUS
<1>1. runing' = FALSE /\ UNCHANGED <<sockets, cpc, i, arr, failedNum, dataLen>>
  BY DEF inputThread
<1>2. SocketsTypeOK' /\ ClientTypeOK' /\ ClientInv'
  BY <1>1 DEF IInv, SocketsTypeOK, ClientTypeOK, ClientInv, sockets
<1>3. \A c \in Listed : ServerReadable(c) => ServerReadable(c)'
  BY <1>1 DEF ServerReadable, sockets
<1>4. ServerTypeOK' /\ ConnInv' /\ SetInv' /\ PosInv'
  BY <1>1, <1>3, ServerFrame DEF sockets
<1> QED BY <1>2, <1>4 DEF IInv

\* A connection begins in the backlog, and that of no earlier client.
LEMMA ConnectIInv == IInv /\ Connect /\ UNCHANGED serverVars => IInv'
<1> SUFFICES ASSUME IInv, Connect, UNCHANGED serverVars PROVE IInv'
  OBVIOUS
<1>1. /\ cpc = "connect" /\ i <= ClientNum /\ i' = i + 1
      /\ arr' = [arr EXCEPT ![i] = "object"]
      /\ UNCHANGED <<listening, up, down, cpc, failedNum, dataLen, runing>>
  BY DEF Connect
<1>2. /\ i \in 1 .. ClientNum /\ ClientNum \in Nat /\ Clients = 1 .. ClientNum
      /\ \A c \in i .. ClientNum : serverEnd[c] = "none"
  BY <1>1, AssumptionsHold DEF IInv, ClientTypeOK, ClientInv, Assumptions, ClientAssumption
<1>3. \/ /\ listening /\ clientEnd' = [clientEnd EXCEPT ![i] = "open"]
         /\ serverEnd' = [serverEnd EXCEPT ![i] = "backlog"]
      \/ clientEnd' = clientEnd /\ serverEnd' = serverEnd
  BY DEF Connect
<1>4. \A c \in Clients : c # i => clientEnd'[c] = clientEnd[c] /\ serverEnd'[c] = serverEnd[c]
  BY <1>2, <1>3 DEF IInv, SocketsTypeOK
<1>5. SocketsTypeOK'
  BY <1>1, <1>2, <1>3 DEF IInv, SocketsTypeOK
<1>6. ClientTypeOK'
  BY <1>1, <1>2 DEF IInv, ClientTypeOK
<1>7. ClientInv'
  <2>1. ASSUME NEW c \in i' .. ClientNum PROVE serverEnd'[c] = "none"
    <3>1. c \in i .. ClientNum /\ c # i /\ c \in Clients
      BY <1>1, <1>2, <2>1
    <3> QED BY <1>2, <1>4, <3>1
  <2> QED BY <1>1, <2>1 DEF ClientInv
<1>8. i \in Clients /\ i \notin Listed /\ serverEnd[i] = "none"
  BY <1>2 DEF IInv, ConnInv
<1>9. ServerTypeOK'
  BY DEF IInv, ServerTypeOK, serverVars
<1>10. clients' = clients /\ sock' = sock /\ Listed' = Listed /\ Socks' = Socks /\ spc' = spc
  BY DEF serverVars, Listed, Socks
<1>11. Backlog \subseteq Backlog' /\ Backlog' \subseteq Backlog \cup {i}
  BY <1>4, <1>8 DEF Backlog
<1>12. serverEnd'[i] # "open" /\ (~listening => serverEnd' = serverEnd)
  BY <1>3, <1>8 DEF IInv, SocketsTypeOK
<1>13. ConnInv'
  <2>1. Listed' = {c \in Clients : serverEnd'[c] = "open"}
    BY <1>4, <1>8, <1>10, <1>12 DEF IInv, ConnInv
  <2>2. ~listening' => Listed' \cup Backlog' = {}
    BY <1>1, <1>10, <1>12 DEF IInv, ConnInv, Backlog
  <2> QED BY <1>1, <1>10, <2>1, <2>2 DEF IInv, ConnInv, Distinct
<1>14. ASSUME NEW k \in DOMAIN clients, ServerReadable(clients[k])
       PROVE  up'[clients[k]] > 0 \/ clientEnd'[clients[k]] = "closed"
  <2>1. clients[k] \in Clients /\ clients[k] # i
    BY <1>8, SocksFacts
  <2> QED BY <1>1, <1>4, <1>14, <2>1 DEF ServerReadable
<1>15. SetInv'
  BY <1>10, <1>11, <1>14 DEF IInv, SetInv, serverVars, Pending, ServerReadable
<1>16. PosInv'
  BY DEF IInv, PosInv, serverVars, Turn
<1> QED BY <1>5, <1>6, <1>7, <1>9, <1>13, <1>15, <1>16 DEF IInv

\* The steps of the client program that leave the connections as they are.
LEMMA QuietIInv ==
    ASSUME IInv, UNCHANGED serverVars, UNCHANGED sockets,
           \/ ConnectSkips \/ NextPass \/ Gone \/ SendDataEnds
           \/ /\ cpc = "send" /\ dataLen' = 0 /\ Failed /\ UNCHANGED <<arr, runing>>
    PROVE  IInv'
<1>1. SocketsTypeOK'
  BY DEF IInv, SocketsTypeOK, sockets
<1>2. \A c \in Listed : ServerReadable(c) => ServerReadable(c)'
  BY DEF ServerReadable, sockets
<1>3. ServerTypeOK' /\ ConnInv' /\ SetInv' /\ PosInv'
  BY <1>2, ServerFrame DEF sockets
<1>4. ClientNum \in Nat \ {0} /\ Clients = 1 .. ClientNum /\ TotalLen \in Nat /\ serverEnd' = serverEnd
  BY AssumptionsHold DEF Assumptions, ClientAssumption, sockets
<1>5. CASE ConnectSkips
  <2>1. ClientTypeOK'
    BY <1>4, <1>5 DEF IInv, ClientTypeOK, ConnectSkips
  <2>2. ClientInv'
    BY <1>4, <1>5 DEF IInv, ClientTypeOK, ClientInv, ConnectSkips
  <2> QED BY <1>1, <1>3, <2>1, <2>2 DEF IInv
<1>6. CASE NextPass
  <2>1. ClientTypeOK'
    BY <1>4, <1>6 DEF IInv, ClientTypeOK, NextPass
  <2>2. ClientInv'
    BY <1>4, <1>6 DEF IInv, ClientTypeOK, ClientInv, NextPass
  <2> QED BY <1>1, <1>3, <2>1, <2>2 DEF IInv
<1>7. ASSUME Failed, cpc \in {"pass", "send"}, i <= ClientNum
      PROVE  /\ ClientInv' /\ i' \in 1 .. ClientNum + 1 /\ cpc' = "pass"
             /\ failedNum' \in 0 .. ClientNum
  BY <1>4, <1>7 DEF IInv, ClientTypeOK, ClientInv, Failed
<1>8. CASE Gone
  <2>1. ClientInv' /\ i' \in 1 .. ClientNum + 1 /\ cpc' = "pass" /\ failedNum' \in 0 .. ClientNum
    BY <1>7, <1>8 DEF Gone, Visiting
  <2>2. ClientTypeOK'
    BY <1>8, <2>1 DEF IInv, ClientTypeOK, Gone
  <2> QED BY <1>1, <1>3, <2>1, <2>2 DEF IInv
<1>9. CASE SendDataEnds
  <2>1. ClientTypeOK'
    BY <1>4, <1>9 DEF IInv, ClientTypeOK, ClientInv, SendDataEnds
  <2>2. ClientInv'
    BY <1>4, <1>9 DEF IInv, ClientTypeOK, ClientInv, SendDataEnds
  <2> QED BY <1>1, <1>3, <2>1, <2>2 DEF IInv
<1>10. CASE cpc = "send" /\ dataLen' = 0 /\ Failed /\ UNCHANGED <<arr, runing>>
  <2>1. i <= ClientNum
    BY <1>10 DEF IInv, ClientInv
  <2>2. ClientInv' /\ i' \in 1 .. ClientNum + 1 /\ cpc' = "pass" /\ failedNum' \in 0 .. ClientNum
    BY <1>7, <1>10, <2>1
  <2>3. ClientTypeOK'
    BY <1>4, <1>10, <2>2 DEF IInv, ClientTypeOK
  <2> QED BY <1>1, <1>3, <2>2, <2>3 DEF IInv
<1> QED BY <1>5, <1>6, <1>8, <1>9, <1>10

\* Closing the clients' sockets only makes them readable for the server.
LEMMA ClientClosesFacts ==
    ASSUME IInv, NEW C, ClientCloses(C), UNCHANGED <<listening, serverEnd, up>>
    PROVE  SocketsTypeOK' /\ \A c \in Clients : ServerReadable(c) => ServerReadable(c)'
<1>1. 0 \in 0 .. Capacity
  BY AssumptionsHold DEF Assumptions, SocketsAssumption
<1>2. /\ clientEnd' \in [Clients -> {"none", "open", "closed"}]
      /\ down' \in [Clients -> 0 .. Capacity]
      /\ \A c \in Clients : clientEnd[c] = "closed" => clientEnd'[c] = "closed"
  BY <1>1 DEF IInv, SocketsTypeOK, ClientCloses
<1>3. SocketsTypeOK'
  BY <1>2 DEF IInv, SocketsTypeOK
<1>4. \A c \in Clients : ServerReadable(c) => ServerReadable(c)'
  BY <1>2 DEF ServerReadable
<1> QED BY <1>3, <1>4

LEMMA OnRunFailsIInv == IInv /\ OnRunFails /\ UNCHANGED serverVars => IInv'
<1> SUFFICES ASSUME IInv, OnRunFails, UNCHANGED serverVars PROVE IInv'
  OBVIOUS
<1>1. /\ ClientCloses({i}) /\ UNCHANGED <<listening, serverEnd, up, arr, dataLen, runing>>
      /\ Failed /\ cpc = "pass" /\ i <= ClientNum
  BY DEF OnRunFails, Visiting
<1>2. SocketsTypeOK' /\ \A c \in Clients : ServerReadable(c) => ServerReadable(c)'
  BY <1>1, ClientClosesFacts
<1>3. ServerTypeOK' /\ ConnInv' /\ SetInv' /\ PosInv'
  BY <1>1, <1>2, SocksFacts, ServerFrame
<1>4. ClientNum \in Nat \ {0}
  BY AssumptionsHold DEF Assumptions, ClientAssumption
<1>5. ClientTypeOK' /\ ClientInv'
  BY <1>1, <1>4 DEF IInv, ClientTypeOK, ClientInv, Failed
<1> QED BY <1>2, <1>3, <1>5 DEF IInv

LEMMA ClientEndsIInv == IInv /\ ClientEnds /\ UNCHANGED serverVars => IInv'
<1> SUFFICES ASSUME IInv, ClientEnds, UNCHANGED serverVars PROVE IInv'
  OBVIOUS
<1>1. /\ cpc' = "end" /\ dataLen' = 0 /\ arr' = [c \in Clients |-> "null"]
      /\ ClientCloses(Clients)
      /\ UNCHANGED <<listening, serverEnd, up, i, failedNum, runing>>
  BY DEF ClientEnds
<1>2. SocketsTypeOK' /\ \A c \in Clients : ServerReadable(c) => ServerReadable(c)'
  BY <1>1, ClientClosesFacts
<1>3. ServerTypeOK' /\ ConnInv' /\ SetInv' /\ PosInv'
  BY <1>1, <1>2, SocksFacts, ServerFrame
<1>4. TotalLen \in Nat
  BY AssumptionsHold DEF Assumptions, ClientAssumption
<1>5. ClientTypeOK' /\ ClientInv'
  BY <1>1, <1>4 DEF IInv, ClientTypeOK, ClientInv
<1> QED BY <1>2, <1>3, <1>5 DEF IInv

\* A send begins with at most a message, whatever its length becomes in a short.
LEMMA SendDataFacts ==
    ASSUME IInv, Visiting, SendData
    PROVE  ClientTypeOK' /\ ClientInv'
<1>1. /\ cpc = "pass" /\ i <= ClientNum /\ cpc' = "send"
      /\ dataLen' = TotalLen % (UShortMax + 1)
      /\ UNCHANGED <<listening, clientEnd, serverEnd, up, i, arr, failedNum, runing>>
  BY DEF Visiting, SendData
<1>2. TotalLen \in Nat /\ UShortMax + 1 \in Nat \ {0}
  BY AssumptionsHold DEF Assumptions, ClientAssumption
<1>3. dataLen' \in 0 .. TotalLen
  <2> DEFINE b == UShortMax + 1
  <2>1. b \in Nat \ {0}
    BY <1>2
  <2> HIDE DEF b
  <2>2. TotalLen % b \in 0 .. b - 1 /\ TotalLen % b <= TotalLen
    BY <1>2, <2>1, DivMod
  <2>3. TotalLen % b \in 0 .. TotalLen
    BY <1>2, <2>1, <2>2
  <2> QED BY <1>1, <2>3 DEF b
<1>4. ClientTypeOK'
  BY <1>1, <1>3 DEF IInv, ClientTypeOK
<1>5. ClientInv'
  BY <1>1 DEF IInv, ClientInv
<1> QED BY <1>4, <1>5

LEMMA OnRunReceivesIInv == IInv /\ OnRunReceives /\ UNCHANGED serverVars => IInv'
<1> SUFFICES ASSUME IInv, OnRunReceives, UNCHANGED serverVars PROVE IInv'
  OBVIOUS
<1>1. PICK n \in AtMost(down[i], Capacity) : down' = [down EXCEPT ![i] = @ - n]
  BY DEF OnRunReceives
<1>2. Visiting /\ SendData /\ i \in Clients /\ down[i] > 0
  BY AssumptionsHold
     DEF OnRunReceives, Visiting, IInv, ClientTypeOK, Assumptions, ClientAssumption
<1>3. down' \in [Clients -> 0 .. Capacity]
  <2>1. down[i] \in 0 .. Capacity /\ Capacity \in Nat
    BY <1>2, AssumptionsHold DEF IInv, SocketsTypeOK, Assumptions, SocketsAssumption
  <2>2. down[i] - n \in 0 .. Capacity
    BY <2>1 DEF AtMost
  <2> QED BY <1>1, <1>2, <2>2 DEF IInv, SocketsTypeOK
<1>4. SocketsTypeOK'
  BY <1>2, <1>3 DEF IInv, SocketsTypeOK, SendData
<1>5. ServerTypeOK' /\ ConnInv' /\ SetInv' /\ PosInv'
  BY <1>2, ServerFrame DEF SendData, ServerReadable
<1> QED BY <1>2, <1>4, <1>5, SendDataFacts DEF IInv

LEMMA OnRunIdleIInv == IInv /\ OnRunIdle /\ UNCHANGED serverVars => IInv'
<1> SUFFICES ASSUME IInv, OnRunIdle, UNCHANGED serverVars PROVE IInv'
  OBVIOUS
<1>1. Visiting /\ SendData /\ down' = down
  BY DEF OnRunIdle
<1>2. SocketsTypeOK'
  BY <1>1 DEF IInv, SocketsTypeOK, SendData
<1>3. ServerTypeOK' /\ ConnInv' /\ SetInv' /\ PosInv'
  BY <1>1, ServerFrame DEF SendData, ServerReadable
<1> QED BY <1>1, <1>2, <1>3, SendDataFacts DEF IInv

LEMMA SendSomeIInv == IInv /\ SendSome /\ UNCHANGED serverVars => IInv'
<1> SUFFICES ASSUME IInv, SendSome, UNCHANGED serverVars PROVE IInv'
  OBVIOUS
<1>1. PICK n \in AtMost(dataLen, Capacity - up[i]) :
         up' = [up EXCEPT ![i] = @ + n] /\ dataLen' = dataLen - n
  BY DEF SendSome
<1>2. /\ cpc = "send" /\ dataLen > 0 /\ up[i] < Capacity
      /\ UNCHANGED <<listening, clientEnd, serverEnd, down, cpc, i, arr, failedNum, runing>>
  BY DEF SendSome
<1>3. i \in Clients /\ ClientNum \in Nat /\ i <= ClientNum
  BY <1>2, AssumptionsHold DEF IInv, ClientTypeOK, ClientInv, Assumptions, ClientAssumption
<1>4. /\ up[i] \in 0 .. Capacity /\ Capacity \in Nat
      /\ dataLen \in 0 .. TotalLen /\ TotalLen \in Nat
  BY <1>3, AssumptionsHold
     DEF IInv, SocketsTypeOK, ClientTypeOK, Assumptions, SocketsAssumption, ClientAssumption
<1>5. n \in Nat /\ n > 0 /\ up[i] + n \in 0 .. Capacity /\ dataLen - n \in 0 .. TotalLen
  BY <1>2, <1>4 DEF AtMost
<1>6. /\ up' \in [Clients -> 0 .. Capacity]
      /\ \A c \in Clients : up[c] > 0 => up'[c] > 0
  BY <1>1, <1>3, <1>4, <1>5 DEF IInv, SocketsTypeOK
<1>7. SocketsTypeOK' /\ ClientTypeOK' /\ ClientInv'
  BY <1>1, <1>2, <1>5, <1>6 DEF IInv, SocketsTypeOK, ClientTypeOK, ClientInv
<1>8. \A c \in Clients : ServerReadable(c) => ServerReadable(c)'
  BY <1>2, <1>6 DEF ServerReadable
<1>9. ServerTypeOK' /\ ConnInv' /\ SetInv' /\ PosInv'
  BY <1>2, <1>8, SocksFacts, ServerFrame
<1> QED BY <1>7, <1>9 DEF IInv

LEMMA ClientNextIInv == IInv /\ (Client \/ User) => IInv'
<1> SUFFICES ASSUME IInv, MainThread \/ inputThread, UNCHANGED serverVars PROVE IInv'
  BY DEF Client, User
<1>1. ASSUME SendDataFails PROVE IInv'
  BY <1>1, QuietIInv, ClientEndsIInv DEF SendDataFails
<1>2. ASSUME ConnectSkips \/ NextPass \/ Gone \/ SendDataEnds PROVE IInv'
  <2>1. UNCHANGED sockets
    BY <1>2 DEF ConnectSkips, NextPass, Gone, SendDataEnds
  <2> QED BY <1>2, <2>1, QuietIInv
<1>3. ASSUME Deletes PROVE IInv'
  BY <1>3, ClientEndsIInv DEF Deletes
<1> QED BY <1>1, <1>2, <1>3, inputThreadIInv, ConnectIInv, OnRunFailsIInv, OnRunReceivesIInv,
           OnRunIdleIInv, SendSomeIInv DEF MainThread

LEMMA StutterIInv == IInv /\ UNCHANGED vars => IInv'
<1> SUFFICES ASSUME IInv, UNCHANGED vars PROVE IInv'
  OBVIOUS
<1>1. SocketsTypeOK' /\ ClientTypeOK' /\ ClientInv'
  BY DEF IInv, SocketsTypeOK, ClientTypeOK, ClientInv, vars, sockets, clientVars
<1>2. ServerTypeOK' /\ ConnInv' /\ SetInv' /\ PosInv'
  BY ServerFrame DEF vars, sockets, ServerReadable
<1> QED BY <1>1, <1>2 DEF IInv

------------------------------------------------------------------------------
(* The theorems.                                                           *)

\* The inductive invariant holds of every run of the two programs.
THEOREM EchoInvariant == Spec => []IInv
<1>1. IInv /\ [Next]_vars => IInv'
  BY ServerNextIInv, ClientNextIInv, StutterIInv DEF Next
<1> QED BY InitIInv, <1>1, PTL DEF Spec

\* accept and recv block only before the first client has connected: only the
\* sends of the two programs can wait for each other.
THEOREM EchoOnlySendBlocks == Spec => []OnlySendBlocks
<1>1. IInv => OnlySendBlocks
  <2> SUFFICES ASSUME IInv PROVE OnlySendBlocks
    OBVIOUS
  <2>1. spc = "accept" /\ Backlog = {} => clients = << >> /\ maxSock = INVALID_SOCKET
    BY DEF IInv, SetInv
  <2>2. ASSUME NEW k \in DOMAIN clients, spc \in {"accept", "serve"}, k >= pos,
               sock[clients[k]] \in fdRead
        PROVE  ServerReadable(clients[k])
    BY <2>2 DEF IInv, SetInv, Pending
  <2> QED BY <2>1, <2>2 DEF OnlySendBlocks
<1> QED BY EchoInvariant, <1>1, PTL

\* The server's list, its descriptors and the set it gives to select are those
\* of the connections it has accepted and not closed.
THEOREM EchoRegistered == Spec => []Registered
<1>1. IInv => Registered
  <2> SUFFICES ASSUME IInv PROVE Registered
    OBVIOUS
  <2>1. Cardinality(Listed) = Len(clients)
    <3> DEFINE f == [k \in 1 .. Len(clients) |-> clients[k]]
    <3>1. f \in Surjection(1 .. Len(clients), Listed) /\ f \in Injection(1 .. Len(clients), Listed)
      BY SocksFacts DEF Surjection, Injection, IsInjective, Listed, IInv, ConnInv, Distinct
    <3>2. f \in Bijection(1 .. Len(clients), Listed)
      BY <3>1 DEF Bijection
    <3>3. ExistsBijection(1 .. Len(clients), Listed)
      BY <3>2 DEF ExistsBijection
    <3>4. Len(clients) \in Nat
      BY SocksFacts
    <3> QED BY <3>3, <3>4, FS_CountingElements
  <2>2. Cardinality(Socks) = Cardinality(Listed)
    <3> DEFINE f == [c \in Listed |-> sock[c]]
    <3>1. f \in Surjection(Listed, Socks) /\ f \in Injection(Listed, Socks)
      BY DEF Surjection, Injection, IsInjective, Socks, IInv, ConnInv
    <3>2. f \in Bijection(Listed, Socks)
      BY <3>1 DEF Bijection
    <3>3. ExistsBijection(Listed, Socks)
      BY <3>2 DEF ExistsBijection
    <3> HIDE DEF f
    <3> QED BY <3>3, SocksFacts, FS_Bijection
  <2>3. TypeOK
    BY DEF IInv, TypeOK
  <2>4. /\ Listed = {c \in Clients : serverEnd[c] = "open"}
        /\ \A c \in Clients : sock[c] = INVALID_SOCKET <=> c \notin Listed
        /\ ~listening => Listed \cup Backlog = {}
    BY DEF IInv, ConnInv
  <2>5. spc # "closed" /\ ~change => backup = {ServerSock} \cup Socks
    BY DEF IInv, SetInv
  <2> QED BY <2>1, <2>2, <2>3, <2>4, <2>5 DEF Registered
<1> QED BY EchoInvariant, <1>1, PTL
==============================================================================
