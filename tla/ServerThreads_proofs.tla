------------------------ MODULE ServerThreads_proofs ------------------------
(***************************************************************************)
(* Proofs about the threads of the server, for any number of handlers,     *)
(* descriptors and connections.  Every connection has one place, from      *)
(* accept to the deletion of its client object, and only the thread that   *)
(* has it there closes its socket: from this follow whose the descriptors  *)
(* are, what select is given, and which objects are alive.                 *)
(***************************************************************************)
EXTENDS ServerThreads, FiniteSetTheorems, SequenceTheorems, TLAPS

\* While a handler drains its queue, the entries before its position have been
\* taken over.
Draining(h) == pc[h] \in {"drain", "join"}
From(h) == IF Draining(h) THEN i[h] ELSE 1
Waiting(h) == From(h) .. Len(joins[h])
Taken(h) == 1 .. Len(clients[h])

\* The main thread.
MainOK ==
    /\ main = "init" => k <= Handlers /\ \A h \in k .. Handlers : pc[h] = "none"
    /\ main = "bind" => k = 1
    /\ main \in {"take", "wait"} => k <= Handlers
    /\ cur # 0 <=> main \in {"pick", "take"}
    /\ cur # 0 => cur = accepted
    /\ gone = IF main \in {"close", "wait"} THEN 1 .. k - 1
              ELSE IF main = "closed" THEN H ELSE {}

\* A handler's thread and its queue.
HandlerOK(h) ==
    /\ stopped[h] <=> pc[h] = "stopped"
    /\ h \in gone => stopped[h] /\ clients[h] = << >>
    /\ locked[h] <=> Draining(h)
    /\ count[h] = Len(joins[h]) + 1 - From(h) - (IF pc[h] = "join" THEN 1 ELSE 0)
    /\ pc[h] = "drain" => i[h] <= Len(joins[h]) + 1
    /\ pc[h] = "join" => i[h] <= Len(joins[h])
    /\ pc[h] \in {"erase", "sending", "send", "sent"} => i[h] <= Len(clients[h])

QueuedOnce ==
    \A h, g \in H : \A n \in Waiting(h), m \in Waiting(g) :
        joins[h][n] = joins[g][m] => h = g /\ n = m
TakenOnce ==
    \A h, g \in H : \A n \in Taken(h), m \in Taken(g) :
        clients[h][n] = clients[g][m] => h = g /\ n = m

\* A connection in a queue is open and has no client object yet.
WaitingOK ==
    \A h \in H : \A n \in Waiting(h) :
        /\ joins[h][n] <= accepted /\ joins[h][n] # cur
        /\ joins[h][n] \notin created /\ sock[joins[h][n]] # 0

\* One in a list has an object, and is open but for the one about to be erased.
TakenOK ==
    \A h \in H : \A n \in Taken(h) :
        /\ clients[h][n] \in created \ deleted
        /\ sock[clients[h][n]] = 0 <=> pc[h] = "erase" /\ n = i[h]

\* An object is in a list until it is deleted, and then its socket is closed.
ConnsOK ==
    /\ \A c \in Conns : c > accepted => sock[c] = 0
    /\ \A c \in created : c <= accepted /\ c # cur
    /\ cur # 0 => sock[cur] # 0
    /\ deleted \subseteq created
    /\ \A c \in created :
        c \in deleted \/ \E h \in H : \E n \in Taken(h) : clients[h][n] = c
    /\ \A c \in deleted : sock[c] = 0

\* OwnDescriptor, connection by connection.
OwnSocks ==
    /\ \A c, e \in Conns : sock[c] # 0 /\ sock[c] = sock[e] => c = e
    /\ \A c \in Conns : sock[c] # 0 => sock[c] \in fds
    /\ \A d \in fds : \E c \in Conns : sock[c] = d

\* The set select is given, unless it is about to be rebuilt.
WatchOK(h) ==
    ~hasChange[h] /\ (\/ pc[h] \in {"serve", "sending", "send", "sent"}
                      \/ (clients[h] # << >> /\ pc[h] \in {"none", "top", "check"}))
        => watched[h] = Socks(clients[h])

\* The client a Broadcast is at is in the list it walks, or was deleted from it,
\* which does not happen to the list of its own thread.
AtOK(h) ==
    pc[h] = "send" /\ at[h] # 0 =>
        /\ target[h] \in H
        /\ at[h] \in deleted => target[h] # h
        /\ at[h] \in deleted \/ \E n \in Taken(target[h]) : clients[target[h]][n] = at[h]

IInv ==
    /\ TypeOK /\ MainOK /\ (\A h \in H : HandlerOK(h))
    /\ QueuedOnce /\ TakenOnce /\ WaitingOK /\ TakenOK /\ ConnsOK /\ OwnSocks
    /\ (\A h \in H : WatchOK(h)) /\ (\A h \in H : AtOK(h))
    /\ OwnClientsSafe

------------------------------------------------------------------------------
(* The constants and sequences.                                            *)

LEMMA Bounds ==
    /\ Handlers \in Nat /\ 1 <= Handlers /\ 1 \in H /\ MaxConn \in Nat
    /\ \A h \in H : h \in Nat /\ h # 0 /\ h <= Handlers
    /\ \A c \in Conns : c \in Nat /\ c # 0 /\ c <= MaxConn
    /\ 0 \notin Descriptors
BY ServerAssumption DEF H, Conns

LEMMA ErasedIs ==
    ASSUME NEW S, NEW s \in Seq(S), NEW j \in 1 .. Len(s)
    PROVE  /\ Erased(s, j) \in Seq(S) /\ Len(Erased(s, j)) = Len(s) - 1
           /\ \A n \in 1 .. Len(s) - 1 :
                Erased(s, j)[n] = IF n < j THEN s[n] ELSE s[n + 1]
<1>1. Len(s) \in Nat /\ \A n \in 1 .. Len(s) : s[n] \in S
  BY ElementOfSeq, LenProperties
<1> DEFINE p == SubSeq(s, 1, j - 1)
           q == SubSeq(s, j + 1, Len(s))
<1>2. p \in Seq(S) /\ Len(p) = j - 1 /\ \A n \in 1 .. j - 1 : p[n] = s[n]
  BY <1>1
<1>3. q \in Seq(S) /\ Len(q) = Len(s) - j /\ \A n \in 1 .. Len(s) - j : q[n] = s[n + j]
  BY <1>1
<1> HIDE DEF p, q
<1>4. /\ p \o q \in Seq(S) /\ Len(p \o q) = Len(p) + Len(q)
      /\ \A n \in 1 .. Len(p) + Len(q) :
           (p \o q)[n] = IF n <= Len(p) THEN p[n] ELSE q[n - Len(p)]
  BY <1>2, <1>3, ConcatProperties
<1>5. ASSUME NEW n \in 1 .. Len(s) - 1
      PROVE  (p \o q)[n] = IF n < j THEN s[n] ELSE s[n + 1]
  <2>1. n \in 1 .. Len(p) + Len(q)
    BY <1>1, <1>2, <1>3
  <2>2. CASE n < j
    <3>1. n <= Len(p) /\ n \in 1 .. j - 1
      BY <1>1, <1>2, <2>2
    <3> QED BY <1>2, <1>4, <2>1, <2>2, <3>1
  <2>3. CASE ~(n < j)
    <3>1. ~(n <= Len(p)) /\ n - Len(p) \in 1 .. Len(s) - j
      BY <1>1, <1>2, <2>3
    <3>2. (n - Len(p)) + j = n + 1
      BY <1>1, <1>2
    <3>3. (p \o q)[n] = q[n - Len(p)]
      BY <1>4, <2>1, <3>1
    <3>4. q[n - Len(p)] = s[(n - Len(p)) + j]
      BY <1>3, <3>1
    <3> QED BY <2>3, <3>2, <3>3, <3>4
  <2> QED BY <2>2, <2>3
<1>6. Len(p) + Len(q) = Len(s) - 1
  BY <1>1, <1>2, <1>3
<1>7. Erased(s, j) = p \o q
  BY DEF Erased, p, q
<1> QED BY <1>4, <1>5, <1>6, <1>7

LEMMA AppendIs ==
    ASSUME NEW S, NEW s \in Seq(S), NEW x \in S
    PROVE  /\ Append(s, x) \in Seq(S) /\ Len(Append(s, x)) = Len(s) + 1 /\ Len(s) \in Nat
           /\ \A n \in 1 .. Len(s) : Append(s, x)[n] = s[n]
           /\ Append(s, x)[Len(s) + 1] = x
BY AppendProperties, LenProperties

\* What the type invariant says of the lists.
LEMMA Lists ==
    ASSUME TypeOK, NEW h \in H
    PROVE  /\ joins[h] \in Seq(Conns) /\ clients[h] \in Seq(Conns)
           /\ Len(joins[h]) \in Nat /\ Len(clients[h]) \in Nat
           /\ DOMAIN clients[h] = Taken(h)
           /\ clients[h] # << >> <=> Taken(h) # {}
           /\ clients[h] = << >> <=> Len(clients[h]) = 0
           /\ \A n \in Taken(h) : n \in Nat /\ clients[h][n] \in Conns
           /\ i[h] \in Nat \ {0} /\ From(h) \in Nat \ {0}
           /\ \A n \in Waiting(h) : n \in 1 .. Len(joins[h]) /\ joins[h][n] \in Conns
           /\ Elements(clients[h]) = {clients[h][n] : n \in Taken(h)}
<1>1. joins[h] \in Seq(Conns) /\ clients[h] \in Seq(Conns) /\ i[h] \in Nat \ {0}
  BY DEF TypeOK
<1>2. Len(joins[h]) \in Nat /\ Len(clients[h]) \in Nat /\ DOMAIN clients[h] = Taken(h)
  BY <1>1 DEF Taken
<1>3. clients[h] = << >> <=> Len(clients[h]) = 0
  BY <1>1, EmptySeq
<1>4. clients[h] # << >> <=> Taken(h) # {}
  <2>1. Taken(h) # {} <=> Len(clients[h]) # 0
    BY <1>2 DEF Taken
  <2> QED BY <1>3, <2>1
<1>5. \A n \in Taken(h) : n \in Nat /\ clients[h][n] \in Conns
  BY <1>1, <1>2, ElementOfSeq DEF Taken
<1>6. From(h) \in Nat \ {0}
  BY <1>1 DEF From
<1>7. ASSUME NEW n \in Waiting(h) PROVE n \in 1 .. Len(joins[h]) /\ joins[h][n] \in Conns
  <2>1. n \in 1 .. Len(joins[h])
    BY <1>2, <1>6, <1>7 DEF Waiting
  <2> QED BY <1>1, <2>1, ElementOfSeq
<1>8. Elements(clients[h]) = {clients[h][n] : n \in Taken(h)}
  BY <1>2 DEF Elements
<1> QED BY <1>1, <1>2, <1>3, <1>4, <1>5, <1>6, <1>7, <1>8

------------------------------------------------------------------------------
(* Steps that leave connections where they are.                            *)

LEMMA PlacesFrame ==
    ASSUME TypeOK, QueuedOnce, TakenOnce, WaitingOK, ConnsOK, OwnSocks,
           UNCHANGED <<fds, sock, joins, clients, created, deleted, accepted, cur>>,
           \A h \in H : From(h)' = From(h)
    PROVE  QueuedOnce' /\ TakenOnce' /\ WaitingOK' /\ ConnsOK' /\ OwnSocks'
<1>1. \A h \in H : Waiting(h)' = Waiting(h)
  BY DEF Waiting
<1>2. \A h \in H : Taken(h)' = Taken(h)
  BY DEF Taken
<1>3. QueuedOnce'
  BY <1>1 DEF QueuedOnce
<1>4. TakenOnce'
  BY <1>2 DEF TakenOnce
<1>5. WaitingOK'
  BY <1>1 DEF WaitingOK
<1>6. ConnsOK'
  BY <1>2 DEF ConnsOK
<1>7. OwnSocks'
  BY DEF OwnSocks
<1> QED BY <1>3, <1>4, <1>5, <1>6, <1>7

LEMMA SocksFrame ==
    ASSUME TypeOK, NEW h \in H, clients'[h] = clients[h],
           \A n \in Taken(h) : sock'[clients[h][n]] = sock[clients[h][n]]
    PROVE  Socks(clients[h])' = Socks(clients[h])
<1>1. Elements(clients[h]) = {clients[h][n] : n \in Taken(h)}
  BY Lists
<1>2. Elements(clients[h])' = Elements(clients[h])
  BY DEF Elements
<1>3. \A c \in Elements(clients[h]) : sock'[c] = sock[c]
  BY <1>1
<1> QED BY <1>2, <1>3 DEF Socks

\* Steps of the main thread that touch no handler.
LEMMA HandlersFrame ==
    ASSUME TypeOK, (\A h \in H : HandlerOK(h)), TakenOK, (\A h \in H : WatchOK(h)),
           (\A h \in H : AtOK(h)), OwnClientsSafe,
           UNCHANGED <<stopped, gone, clients, locked, joins, count, pc, i, created, deleted,
                       sock, hasChange, watched, at, target, undefined>>
    PROVE  /\ (\A h \in H : HandlerOK(h))' /\ TakenOK' /\ (\A h \in H : WatchOK(h))'
           /\ (\A h \in H : AtOK(h))' /\ OwnClientsSafe' /\ \A h \in H : From(h)' = From(h)
<1>1. (\A h \in H : HandlerOK(h))'
  BY DEF HandlerOK, Draining, From
<1>2. TakenOK'
  BY DEF TakenOK, Taken
<1>3. (\A h \in H : WatchOK(h))'
  <2> TAKE h \in H
  <2>1. WatchOK(h) /\ Socks(clients[h])' = Socks(clients[h])
    BY SocksFrame
  <2> QED BY <2>1 DEF WatchOK
<1>4. (\A h \in H : AtOK(h))'
  BY DEF AtOK, Taken
<1>5. OwnClientsSafe'
  BY DEF OwnClientsSafe
<1>6. \A h \in H : From(h)' = From(h)
  BY DEF From, Draining
<1> QED BY <1>1, <1>2, <1>3, <1>4, <1>5, <1>6

------------------------------------------------------------------------------
(* Steps of one handler's thread.                                          *)

\* They touch what is that thread's.
Only(g) ==
    \A h \in H \ {g} :
        /\ pc'[h] = pc[h] /\ i'[h] = i[h] /\ stopped'[h] = stopped[h]
        /\ locked'[h] = locked[h] /\ joins'[h] = joins[h] /\ count'[h] = count[h]
        /\ clients'[h] = clients[h] /\ hasChange'[h] = hasChange[h]
        /\ watched'[h] = watched[h] /\ at'[h] = at[h] /\ target'[h] = target[h]

LEMMA OthersFrame ==
    ASSUME NEW g \in H, NEW h \in H, h # g, Only(g), HandlerOK(h), gone' = gone
    PROVE  HandlerOK(h)' /\ From(h)' = From(h) /\ Waiting(h)' = Waiting(h)
           /\ Taken(h)' = Taken(h)
BY DEF Only, HandlerOK, Draining, From, Waiting, Taken

\* Steps that neither take over nor delete a client, nor close a socket.
LEMMA ThreadFrame ==
    ASSUME IInv, NEW g \in H, Only(g),
           UNCHANGED <<mainVars, joins, fds, sock, clients, created, deleted, gone>>,
           pc[g] \notin {"none", "erase"}, pc'[g] # "erase", From(g)' = From(g)
    PROVE  /\ MainOK' /\ TakenOK'
           /\ QueuedOnce' /\ TakenOnce' /\ WaitingOK' /\ ConnsOK' /\ OwnSocks'
           /\ Socks(clients[g])' = Socks(clients[g]) /\ Taken(g)' = Taken(g)
           /\ \A h \in H \ {g} : HandlerOK(h)' /\ WatchOK(h)' /\ AtOK(h)'
<1> USE DEF mainVars
<1>1. MainOK'
  <2>1. ASSUME main = "init", NEW h \in k .. Handlers PROVE pc'[h] = "none"
    <3>1. pc[h] = "none" /\ h \in H
      BY <2>1, Bounds DEF IInv, MainOK, TypeOK, H
    <3> QED BY <3>1 DEF Only
  <2> QED BY <2>1 DEF IInv, MainOK
<1>2. \A h \in H : From(h)' = From(h)
  BY OthersFrame DEF IInv
<1>3. QueuedOnce' /\ TakenOnce' /\ WaitingOK' /\ ConnsOK' /\ OwnSocks'
  BY <1>2, PlacesFrame DEF IInv
<1>4. \A h \in H : Socks(clients[h])' = Socks(clients[h]) /\ Taken(h)' = Taken(h)
  BY SocksFrame DEF IInv, Taken
<1>5. ASSUME NEW h \in H \ {g} PROVE HandlerOK(h)' /\ WatchOK(h)' /\ AtOK(h)'
  <2>1. HandlerOK(h) /\ WatchOK(h) /\ AtOK(h)
    BY DEF IInv
  <2>2. HandlerOK(h)'
    BY <2>1, OthersFrame
  <2>3. WatchOK(h)'
    BY <1>4, <2>1 DEF WatchOK, Only
  <2>4. AtOK(h)'
    BY <1>4, <2>1 DEF AtOK, Only
  <2> QED BY <2>2, <2>3, <2>4
<1>6. TakenOK'
  BY <1>4 DEF IInv, TakenOK, Only
<1> QED BY <1>1, <1>3, <1>4, <1>5, <1>6

------------------------------------------------------------------------------
(* The main thread.                                                        *)

LEMMA InitServerIInv == IInv /\ InitServer => IInv'
<1> SUFFICES ASSUME IInv, InitServer PROVE IInv'
  OBVIOUS
<1> USE DEF mainVars, queueVars, clientVars, stopVars, sendVars
<1>1. /\ main = "init" /\ pc' = [pc EXCEPT ![k] = "top"] /\ k \in H /\ pc[k] = "none"
      /\ UNCHANGED <<listening, accepted, cur, minId, minClient, queueVars, clientVars,
                     stopVars, i, sendVars>>
      /\ IF k < Handlers THEN k' = k + 1 /\ main' = main ELSE k' = 1 /\ main' = "bind"
  BY Bounds DEF IInv, TypeOK, MainOK, InitServer, H
<1>2. TypeOK'
  <2>1. k' \in 1 .. Handlers + 1
    BY <1>1, Bounds
  <2>2. main' \in {"init", "bind"}
    BY <1>1
  <2> QED BY <1>1, <2>1, <2>2 DEF IInv, TypeOK
<1>3. MainOK'
  <2>1. k \in Nat
    BY <1>1, Bounds
  <2>2. ASSUME main' = "init"
        PROVE  k' <= Handlers /\ \A h \in k' .. Handlers : pc'[h] = "none"
    <3>1. k' = k + 1 /\ k < Handlers
      BY <1>1, <2>2
    <3>2. k' <= Handlers
      BY <2>1, <3>1, Bounds
    <3>3. ASSUME NEW h \in k' .. Handlers PROVE pc'[h] = "none"
      <4>1. h \in k .. Handlers /\ h # k /\ h \in H
        BY <2>1, <3>1, Bounds, <1>1 DEF H
      <4>2. pc[h] = "none"
        BY <1>1, <4>1 DEF IInv, MainOK
      <4> QED BY <1>1, <4>1, <4>2 DEF IInv, TypeOK
    <3> QED BY <3>2, <3>3
  <2> QED BY <1>1, <2>2 DEF IInv, MainOK
<1>4. \A h \in H : From(h)' = From(h)
  BY <1>1 DEF From, Draining, IInv, TypeOK
<1>5. (\A h \in H : HandlerOK(h))'
  <2> TAKE h \in H
  <2>1. HandlerOK(h)
    BY DEF IInv
  <2> QED BY <1>1, <1>4, <2>1 DEF HandlerOK, Draining, IInv, TypeOK
<1>6. TakenOK'
  BY <1>1 DEF TakenOK, Taken, IInv, TypeOK
<1>7. (\A h \in H : WatchOK(h))'
  <2> TAKE h \in H
  <2>1. WatchOK(h) /\ Socks(clients[h])' = Socks(clients[h])
    BY <1>1, SocksFrame DEF IInv
  <2> QED BY <1>1, <2>1 DEF WatchOK, IInv, TypeOK
<1>8. (\A h \in H : AtOK(h))'
  <2> TAKE h \in H
  <2>1. AtOK(h)
    BY DEF IInv
  <2> QED BY <1>1, <2>1 DEF AtOK, Taken, IInv, TypeOK
<1>9. OwnClientsSafe'
  BY <1>1 DEF OwnClientsSafe, IInv
<1> QED BY <1>1, <1>2, <1>3, <1>4, <1>5, <1>6, <1>7, <1>8, <1>9, PlacesFrame DEF IInv

\* Steps that only move the main thread.
LEMMA MainIInv ==
    IInv /\ (Bind \/ Listen \/ PickCompare \/ PickTake \/ CloseServer) => IInv'
<1> SUFFICES ASSUME IInv, Bind \/ Listen \/ PickCompare \/ PickTake \/ CloseServer
             PROVE  IInv'
  OBVIOUS
<1> USE DEF mainVars, queueVars, clientVars, stopVars, sendVars
<1>1. UNCHANGED <<accepted, cur, queueVars, clientVars, stopVars, pc, i, sendVars>>
  BY DEF Bind, Listen, PickCompare, PickTake, CloseServer
<1>2. /\ (\A h \in H : HandlerOK(h))' /\ TakenOK' /\ (\A h \in H : WatchOK(h))'
      /\ (\A h \in H : AtOK(h))' /\ OwnClientsSafe' /\ \A h \in H : From(h)' = From(h)
  BY <1>1, HandlersFrame DEF IInv
<1>3. QueuedOnce' /\ TakenOnce' /\ WaitingOK' /\ ConnsOK' /\ OwnSocks'
  BY <1>1, <1>2, PlacesFrame DEF IInv
<1>4. \A h \in H : GetClientNum(h) \in Nat
  <2> TAKE h \in H
  <2>1. count[h] \in Nat /\ Len(clients[h]) \in Nat
    BY Lists DEF IInv, TypeOK
  <2> QED BY <2>1 DEF GetClientNum
<1>5. CASE Bind
  <2>1. TypeOK'
    BY <1>1, <1>5 DEF IInv, TypeOK, Bind
  <2>2. MainOK'
    <3>1. main' = "close" => k = 1
      BY <1>5 DEF Bind, IInv, MainOK
    <3> QED BY <1>1, <1>5 DEF Bind, IInv, MainOK
  <2> QED BY <1>2, <1>3, <2>1, <2>2 DEF IInv
<1>6. CASE Listen
  BY <1>1, <1>2, <1>3, <1>6 DEF Listen, IInv, TypeOK, MainOK
<1>7. CASE PickCompare
  <2>1. k \in H /\ k + 1 \in 1 .. Handlers + 1 /\ k \in Nat
    BY <1>7, Bounds DEF PickCompare, IInv, TypeOK, H
  <2>2. TypeOK'
    BY <1>1, <1>7, <2>1 DEF IInv, TypeOK, PickCompare
  <2>3. MainOK'
    BY <1>1, <1>7 DEF PickCompare, IInv, MainOK
  <2> QED BY <1>2, <1>3, <2>2, <2>3 DEF IInv
<1>8. CASE PickTake
  <2>1. k \in H /\ k + 1 \in 1 .. Handlers + 1
    BY <1>8, Bounds DEF PickTake, IInv, TypeOK, MainOK, H
  <2>2. TypeOK'
    BY <1>1, <1>4, <1>8, <2>1 DEF IInv, TypeOK, PickTake
  <2>3. MainOK'
    BY <1>1, <1>8 DEF PickTake, IInv, MainOK
  <2> QED BY <1>2, <1>3, <2>2, <2>3 DEF IInv
<1>9. CASE CloseServer
  <2>1. TypeOK'
    <3>1. k' \in 1 .. Handlers + 1
      BY <1>9, Bounds DEF CloseServer
    <3> QED BY <1>1, <1>9, <3>1 DEF IInv, TypeOK, CloseServer
  <2>2. MainOK'
    <3>1. 1 .. k' - 1 = {}
      BY <1>9 DEF CloseServer
    <3> QED BY <1>1, <1>9, <3>1 DEF CloseServer, IInv, MainOK
  <2> QED BY <1>2, <1>3, <2>1, <2>2 DEF IInv
<1> QED BY <1>5, <1>6, <1>7, <1>8, <1>9

LEMMA AcceptIInv == IInv /\ Accept => IInv'
<1> SUFFICES ASSUME IInv, Accept PROVE IInv'
  OBVIOUS
<1> USE DEF queueVars, stopVars, sendVars
<1> DEFINE a == accepted + 1
<1>1. /\ main = "run" /\ accepted < MaxConn /\ accepted' = a /\ cur' = a /\ main' = "pick"
      /\ k' = 1 /\ minId' = 1 /\ minClient' = GetClientNum(1)
      /\ UNCHANGED <<listening, queueVars, clients, created, deleted, hasChange, watched,
                     stopVars, pc, i, sendVars>>
  BY DEF Accept
<1>2. PICK d \in Descriptors \ fds : fds' = fds \cup {d} /\ sock' = [sock EXCEPT ![a] = d]
  BY DEF Accept
<1>3. a \in Conns /\ accepted \in Nat /\ \A c \in Conns : c <= accepted => c # a
  BY <1>1, Bounds DEF IInv, TypeOK, Conns
<1>4. /\ sock'[a] = d /\ d # 0 /\ sock[a] = 0
      /\ \A c \in Conns : c # a => sock'[c] = sock[c]
  BY <1>2, <1>3, Bounds DEF IInv, TypeOK, ConnsOK
<1>5. \A h \in H : /\ From(h)' = From(h) /\ Waiting(h)' = Waiting(h) /\ Taken(h)' = Taken(h)
  BY <1>1 DEF From, Draining, Waiting, Taken
<1>6. ASSUME NEW h \in H, NEW n \in Taken(h)
      PROVE  clients[h][n] \in Conns /\ sock'[clients[h][n]] = sock[clients[h][n]]
  <2>1. clients[h][n] \in Conns /\ clients[h][n] \in created
    BY Lists DEF IInv, TakenOK
  <2>2. clients[h][n] # a
    BY <1>3, <2>1 DEF IInv, ConnsOK
  <2> QED BY <1>4, <2>1, <2>2
<1>7. TypeOK'
  <2>1. GetClientNum(1) \in Nat
    <3>1. count[1] \in Nat /\ Len(clients[1]) \in Nat
      BY Bounds, Lists DEF IInv, TypeOK
    <3> QED BY <3>1 DEF GetClientNum
  <2>2. a \in 0 .. MaxConn
    BY <1>1, <1>3, Bounds DEF Conns
  <2>3. fds' \subseteq Descriptors /\ sock' \in [Conns -> Descriptors \cup {0}]
    BY <1>2, <1>3 DEF IInv, TypeOK
  <2>4. k' \in 1 .. Handlers + 1 /\ minId' \in H
    BY <1>1, Bounds
  <2> HIDE DEF a
  <2> QED BY <1>1, <2>1, <2>2, <2>3, <2>4 DEF IInv, TypeOK
<1>8. MainOK'
  BY <1>1, <1>3, Bounds DEF IInv, MainOK
<1>9. (\A h \in H : HandlerOK(h))'
  BY <1>1, <1>5 DEF IInv, HandlerOK, Draining
<1>10. QueuedOnce' /\ TakenOnce'
  BY <1>1, <1>5 DEF IInv, QueuedOnce, TakenOnce
<1>11. WaitingOK'
  <2>1. ASSUME NEW h \in H, NEW n \in Waiting(h)
        PROVE  /\ joins[h][n] <= a /\ joins[h][n] # a
               /\ joins[h][n] \notin created /\ sock'[joins[h][n]] # 0
    <3>1. /\ joins[h][n] \in Conns /\ joins[h][n] \in Nat /\ joins[h][n] <= accepted
          /\ joins[h][n] \notin created /\ sock[joins[h][n]] # 0
      BY Lists, Bounds DEF IInv, WaitingOK
    <3> QED BY <1>3, <1>4, <3>1
  <2> QED BY <1>1, <1>5, <2>1 DEF WaitingOK
<1>12. TakenOK'
  BY <1>1, <1>5, <1>6 DEF IInv, TakenOK
<1>13. ConnsOK'
  <2>1. ASSUME NEW c \in Conns, c > a PROVE sock'[c] = 0
    <3>1. c > accepted /\ c # a
      BY <1>3, <2>1, Bounds
    <3> QED BY <1>4, <3>1 DEF IInv, ConnsOK
  <2>2. ASSUME NEW c \in created
        PROVE  /\ c <= a /\ c # a
               /\ (c \in deleted \/ \E h \in H : \E n \in Taken(h)' : clients'[h][n] = c)
               /\ sock'[c] = sock[c]
    <3>1. c \in Conns /\ c \in Nat /\ c <= accepted
      BY Bounds DEF IInv, TypeOK, ConnsOK
    <3>2. c \in deleted \/ \E h \in H : \E n \in Taken(h) : clients[h][n] = c
      BY DEF IInv, ConnsOK
    <3> QED BY <1>1, <1>3, <1>4, <1>5, <3>1, <3>2
  <2>3. deleted \subseteq created /\ \A c \in deleted : sock[c] = 0
    BY DEF IInv, ConnsOK
  <2> QED BY <1>1, <1>4, <2>1, <2>2, <2>3 DEF ConnsOK
<1>14. OwnSocks'
  <2>1. \A c \in Conns : sock[c] # d
    BY <1>2, <1>4 DEF IInv, OwnSocks
  <2>2. \A c, e \in Conns : sock'[c] # 0 /\ sock'[c] = sock'[e] => c = e
    BY <1>4, <2>1 DEF IInv, OwnSocks
  <2>3. \A c \in Conns : sock'[c] # 0 => sock'[c] \in fds'
    BY <1>2, <1>4 DEF IInv, OwnSocks
  <2>4. ASSUME NEW f \in fds' PROVE \E c \in Conns : sock'[c] = f
    <3>1. CASE f = d
      BY <1>3, <1>4, <3>1
    <3>2. CASE f \in fds
      <4>1. PICK c \in Conns : sock[c] = f
        BY <3>2 DEF IInv, OwnSocks
      <4>2. c # a
        BY <1>4, <3>2, <4>1, Bounds DEF IInv, TypeOK
      <4> QED BY <1>4, <4>1, <4>2
    <3> QED BY <1>2, <3>1, <3>2
  <2> QED BY <2>2, <2>3, <2>4 DEF OwnSocks
<1>15. (\A h \in H : WatchOK(h))'
  <2> TAKE h \in H
  <2>1. WatchOK(h) /\ Socks(clients[h])' = Socks(clients[h])
    BY <1>1, <1>6, SocksFrame DEF IInv
  <2> QED BY <1>1, <2>1 DEF WatchOK
<1>16. (\A h \in H : AtOK(h))'
  BY <1>1, <1>5 DEF IInv, AtOK
<1>17. OwnClientsSafe'
  BY <1>1 DEF IInv, OwnClientsSafe
<1> QED BY <1>7, <1>8, <1>9, <1>10, <1>11, <1>12, <1>13, <1>14, <1>15, <1>16, <1>17 DEF IInv

LEMMA PushJoinIInv == IInv /\ PushJoin => IInv'
<1> SUFFICES ASSUME IInv, PushJoin PROVE IInv'
  OBVIOUS
<1> USE DEF clientVars, stopVars, sendVars
<1>0. PICK b \in H : b = minId
  BY DEF IInv, TypeOK
<1>1. /\ main = "pick" /\ ~locked[b] /\ main' = "run" /\ cur' = 0
      /\ joins' = [joins EXCEPT ![b] = Append(@, cur)]
      /\ count' = [count EXCEPT ![b] = @ + 1]
      /\ UNCHANGED <<listening, accepted, minId, minClient, k, locked, clientVars, stopVars,
                     pc, i, sendVars>>
  BY <1>0 DEF PushJoin
<1>2. b \in H /\ cur \in Conns /\ cur # 0 /\ cur <= accepted
  BY <1>1, Bounds DEF IInv, TypeOK, MainOK, Conns
<1>3. /\ joins[b] \in Seq(Conns) /\ Len(joins[b]) \in Nat
      /\ ~Draining(b) /\ From(b) = 1 /\ From(b)' = 1
  BY <1>1, <1>2, Lists DEF IInv, HandlerOK, From, Draining
<1>z. PICK z \in Nat : z = Len(joins[b]) + 1
  BY <1>3
<1>4. /\ joins'[b] \in Seq(Conns) /\ Len(joins'[b]) = z /\ joins'[b][z] = cur
      /\ \A n \in 1 .. Len(joins[b]) : joins'[b][n] = joins[b][n]
  <2>1. joins'[b] = Append(joins[b], cur)
    BY <1>1, <1>2 DEF IInv, TypeOK
  <2> QED BY <1>2, <1>3, <1>z, <2>1, AppendIs
<1>5. \A h \in H : h # b => joins'[h] = joins[h] /\ count'[h] = count[h]
  BY <1>1 DEF IInv, TypeOK
<1>6. \A h \in H : From(h)' = From(h) /\ Taken(h)' = Taken(h)
  BY <1>1 DEF From, Draining, Taken
<1>7. \A h \in H : h # b => Waiting(h)' = Waiting(h)
  BY <1>5, <1>6 DEF Waiting
<1>8. /\ Waiting(b)' = Waiting(b) \cup {z} /\ z \notin Waiting(b)
      /\ Waiting(b) = 1 .. Len(joins[b])
  <2>1. Waiting(b)' = 1 .. z /\ Waiting(b) = 1 .. Len(joins[b])
    BY <1>3, <1>4 DEF Waiting
  <2> QED BY <1>3, <1>z, <2>1
<1>9. ASSUME NEW h \in H, NEW n \in Waiting(h)'
      PROVE  \/ h = b /\ n = z /\ joins'[h][n] = cur
             \/ ~(h = b /\ n = z) /\ n \in Waiting(h) /\ joins'[h][n] = joins[h][n]
  <2>1. CASE h # b
    BY <1>5, <1>7, <2>1
  <2>2. CASE h = b
    <3>1. n = z \/ (n # z /\ n \in 1 .. Len(joins[b]))
      BY <1>8, <1>9, <2>2
    <3> QED BY <1>4, <1>8, <2>2, <3>1
  <2> QED BY <2>1, <2>2
<1>10. \A h \in H : \A n \in Waiting(h) : joins[h][n] # cur
  BY DEF IInv, WaitingOK
<1>11. TypeOK'
  <2>1. joins' \in [H -> Seq(Conns)]
    BY <1>1, <1>4, <1>5, <1>2 DEF IInv, TypeOK
  <2>2. count' \in [H -> Nat]
    <3>1. count[b] + 1 \in Nat
      BY DEF IInv, TypeOK
    <3> QED BY <1>1, <3>1 DEF IInv, TypeOK
  <2>3. cur' \in 0 .. MaxConn
    BY <1>1, Bounds
  <2> QED BY <1>1, <2>1, <2>2, <2>3 DEF IInv, TypeOK
<1>12. MainOK'
  BY <1>1 DEF IInv, MainOK
<1>13. (\A h \in H : HandlerOK(h))'
  <2> TAKE h \in H
  <2>1. HandlerOK(h)
    BY DEF IInv
  <2>2. CASE h # b
    BY <1>1, <1>5, <2>1, <2>2 DEF HandlerOK, Draining, From
  <2>3. CASE h = b
    <3>1. count'[b] = count[b] + 1 /\ count[b] \in Nat /\ pc[b] \notin {"drain", "join"}
      BY <1>1, <1>2, <1>3 DEF IInv, TypeOK, Draining
    <3>2. count[b] = Len(joins[b])
      <4>1. count[b] = Len(joins[b]) + 1 - From(b) - 0
        BY <2>1, <2>3, <3>1 DEF HandlerOK
      <4> QED BY <1>3, <4>1
    <3>3. count'[b] = Len(joins'[b])
      BY <1>4, <1>z, <3>1, <3>2
    <3>4. count'[b] = Len(joins'[b]) + 1 - From(b)' - (IF pc'[b] = "join" THEN 1 ELSE 0)
      <4>1. z + 1 - 1 - 0 = z /\ pc'[b] # "join"
        BY <1>1, <3>1
      <4> QED BY <1>3, <1>4, <3>3, <4>1
    <3> QED BY <1>1, <1>3, <2>1, <2>3, <3>1, <3>4 DEF HandlerOK, Draining
  <2> QED BY <2>2, <2>3
<1>14. QueuedOnce'
  <2> SUFFICES ASSUME NEW h \in H, NEW g \in H, NEW n \in Waiting(h)', NEW m \in Waiting(g)',
                      joins'[h][n] = joins'[g][m]
               PROVE  h = g /\ n = m
    BY DEF QueuedOnce
  <2>1. \/ h = b /\ n = z /\ joins'[h][n] = cur
        \/ ~(h = b /\ n = z) /\ n \in Waiting(h) /\ joins'[h][n] = joins[h][n]
    BY <1>9
  <2>2. \/ g = b /\ m = z /\ joins'[g][m] = cur
        \/ ~(g = b /\ m = z) /\ m \in Waiting(g) /\ joins'[g][m] = joins[g][m]
    BY <1>9
  <2> QED BY <1>10, <2>1, <2>2 DEF IInv, QueuedOnce
<1>15. WaitingOK'
  <2>1. ASSUME NEW h \in H, NEW n \in Waiting(h)'
        PROVE  /\ joins'[h][n] <= accepted /\ joins'[h][n] # 0
               /\ joins'[h][n] \notin created /\ sock[joins'[h][n]] # 0
    <3>1. CASE joins'[h][n] = cur
      BY <1>2, <3>1 DEF IInv, ConnsOK
    <3>2. CASE n \in Waiting(h) /\ joins'[h][n] = joins[h][n]
      <4>1. joins[h][n] # 0
        BY <3>2, Lists, Bounds DEF IInv
      <4> QED BY <3>2, <4>1 DEF IInv, WaitingOK
    <3> QED BY <1>9, <3>1, <3>2
  <2> QED BY <1>1, <2>1 DEF WaitingOK
<1>16. TakenOnce' /\ TakenOK' /\ OwnSocks' /\ OwnClientsSafe'
  BY <1>1, <1>6 DEF IInv, TakenOnce, TakenOK, OwnSocks, OwnClientsSafe
<1>17. ConnsOK'
  <2>1. \A c \in created : c # 0
    BY Bounds DEF IInv, TypeOK
  <2> QED BY <1>1, <1>6, <2>1 DEF IInv, ConnsOK
<1>18. (\A h \in H : WatchOK(h))'
  <2> TAKE h \in H
  <2>1. WatchOK(h) /\ Socks(clients[h])' = Socks(clients[h])
    BY <1>1, SocksFrame DEF IInv
  <2> QED BY <1>1, <2>1 DEF WatchOK
<1>19. (\A h \in H : AtOK(h))'
  BY <1>1, <1>6 DEF IInv, AtOK
<1> QED BY <1>11, <1>12, <1>13, <1>14, <1>15, <1>16, <1>17, <1>18, <1>19 DEF IInv

LEMMA StopHandlerIInv == IInv /\ StopHandler => IInv'
<1> SUFFICES ASSUME IInv, StopHandler PROVE IInv'
  OBVIOUS
<1> USE DEF queueVars, clientVars, sendVars
<1>1. UNCHANGED <<accepted, cur, k, queueVars, clientVars, stopped, gone, pc, i, sendVars>>
  BY DEF StopHandler
<1>2. /\ (\A h \in H : HandlerOK(h))' /\ TakenOK' /\ (\A h \in H : WatchOK(h))'
      /\ (\A h \in H : AtOK(h))' /\ OwnClientsSafe' /\ \A h \in H : From(h)' = From(h)
  BY <1>1, HandlersFrame DEF IInv
<1>3. QueuedOnce' /\ TakenOnce' /\ WaitingOK' /\ ConnsOK' /\ OwnSocks'
  BY <1>1, <1>2, PlacesFrame DEF IInv
<1>4. TypeOK'
  BY <1>1 DEF StopHandler, IInv, TypeOK
<1>5. MainOK'
  BY <1>1 DEF StopHandler, IInv, MainOK
<1> QED BY <1>2, <1>3, <1>4, <1>5 DEF IInv

\* Deleting a handler's clients closes theirs, and nobody else's, sockets.
LEMMA DeleteClientsKeeps ==
    ASSUME IInv, NEW g \in H, DeleteClients(g),
           UNCHANGED <<joins, created, accepted, cur>>, \A h \in H : From(h)' = From(h)
    PROVE  /\ clients'[g] = << >> /\ Taken(g)' = {}
           /\ \A h \in H \ {g} :
                /\ clients'[h] = clients[h] /\ Taken(h)' = Taken(h)
                /\ \A n \in Taken(h) : /\ clients[h][n] \in created \ deleted'
                                       /\ sock'[clients[h][n]] = sock[clients[h][n]]
           /\ \A n \in Taken(g) : clients[g][n] \in deleted'
           /\ deleted \subseteq deleted'
           /\ clients' \in [H -> Seq(Conns)] /\ sock' \in [Conns -> Descriptors \cup {0}]
           /\ fds' \subseteq Descriptors /\ deleted' \subseteq Conns
           /\ QueuedOnce' /\ TakenOnce' /\ WaitingOK' /\ ConnsOK' /\ OwnSocks'
<1> DEFINE E == Elements(clients[g])
<1>1. E = {clients[g][n] : n \in Taken(g)} /\ E \subseteq Conns /\ E \subseteq created
  <2>1. E = {clients[g][n] : n \in Taken(g)} /\ \A n \in Taken(g) : clients[g][n] \in Conns
    BY Lists DEF IInv
  <2>2. \A n \in Taken(g) : clients[g][n] \in created
    BY DEF IInv, TakenOK
  <2> QED BY <2>1, <2>2
<1>2. /\ fds' = fds \ {sock[c] : c \in E} /\ deleted' = deleted \cup E
      /\ \A c \in Conns : sock'[c] = IF c \in E THEN 0 ELSE sock[c]
      /\ clients' = [clients EXCEPT ![g] = << >>]
      /\ sock' = [c \in Conns |-> IF c \in E THEN 0 ELSE sock[c]]
  BY DEF DeleteClients, Socks
<1> HIDE DEF E
<1>3. clients'[g] = << >> /\ \A h \in H \ {g} : clients'[h] = clients[h]
  BY <1>2 DEF IInv, TypeOK
<1>4. Taken(g)' = {} /\ \A h \in H \ {g} : Taken(h)' = Taken(h)
  BY <1>3 DEF Taken
<1>5. \A h \in H : Waiting(h)' = Waiting(h)
  BY DEF Waiting
<1>6. ASSUME NEW h \in H \ {g}, NEW n \in Taken(h)
      PROVE  /\ clients[h][n] \in created \ deleted'
             /\ sock'[clients[h][n]] = sock[clients[h][n]]
  <2>1. clients[h][n] \in Conns /\ clients[h][n] \in created \ deleted
    BY Lists DEF IInv, TakenOK
  <2>2. clients[h][n] \notin E
    BY <1>1 DEF IInv, TakenOnce
  <2> QED BY <1>2, <2>1, <2>2
<1>7. clients' \in [H -> Seq(Conns)]
  BY <1>2, EmptySeq DEF IInv, TypeOK
<1>8. sock' \in [Conns -> Descriptors \cup {0}] /\ fds' \subseteq Descriptors
      /\ deleted' \subseteq Conns
  BY <1>1, <1>2 DEF IInv, TypeOK
<1>9. QueuedOnce'
  BY <1>5 DEF IInv, QueuedOnce
<1>10. TakenOnce'
  BY <1>3, <1>4 DEF IInv, TakenOnce
<1>11. WaitingOK'
  <2>1. ASSUME NEW h \in H, NEW n \in Waiting(h)
        PROVE  sock'[joins[h][n]] # 0
    <3>1. joins[h][n] \in Conns /\ joins[h][n] \notin created /\ sock[joins[h][n]] # 0
      BY Lists DEF IInv, WaitingOK
    <3> QED BY <1>1, <1>2, <3>1
  <2> QED BY <1>5, <2>1 DEF IInv, WaitingOK
<1>12. ConnsOK'
  <2>1. cur # 0 => sock'[cur] # 0
    <3>1. cur # 0 => cur \in Conns /\ cur \notin created
      BY Bounds DEF IInv, TypeOK, ConnsOK, Conns
    <3> QED BY <1>1, <1>2, <3>1 DEF IInv, ConnsOK
  <2>2. \A c \in Conns : c > accepted => sock'[c] = 0
    BY <1>2 DEF IInv, ConnsOK
  <2>3. deleted' \subseteq created /\ \A c \in deleted' : sock'[c] = 0
    BY <1>1, <1>2, <1>8 DEF IInv, ConnsOK
  <2>4. ASSUME NEW c \in created, c \notin deleted'
        PROVE  \E h \in H : \E n \in Taken(h)' : clients'[h][n] = c
    <3>1. PICK h \in H : \E n \in Taken(h) : clients[h][n] = c
      BY <1>2, <2>4 DEF IInv, ConnsOK
    <3>2. h # g
      BY <1>1, <1>2, <2>4, <3>1
    <3> QED BY <1>3, <1>4, <3>1, <3>2
  <2>5. \A c \in created : c <= accepted /\ c # cur
    BY DEF IInv, ConnsOK
  <2> QED BY <2>1, <2>2, <2>3, <2>4, <2>5 DEF ConnsOK
<1>13. OwnSocks'
  <2>1. \A c, e \in Conns : sock[c] # 0 /\ sock[c] = sock[e] => c = e
    BY DEF IInv, OwnSocks
  <2>2. \A c, e \in Conns : sock'[c] # 0 /\ sock'[c] = sock'[e] => c = e
    BY <1>2, <2>1
  <2>3. ASSUME NEW c \in Conns, sock'[c] # 0 PROVE sock'[c] \in fds'
    <3>1. c \notin E /\ sock'[c] = sock[c]
      BY <1>2, <2>3
    <3>2. sock[c] \in fds
      BY <2>3, <3>1 DEF IInv, OwnSocks
    <3>3. \A e \in E : sock[e] # sock[c]
      BY <1>1, <2>1, <2>3, <3>1
    <3> QED BY <1>2, <3>1, <3>2, <3>3
  <2>4. ASSUME NEW d \in fds' PROVE \E c \in Conns : sock'[c] = d
    <3>1. PICK c \in Conns : sock[c] = d
      BY <1>2 DEF IInv, OwnSocks
    <3>2. c \notin E
      BY <1>2, <3>1
    <3> QED BY <1>2, <3>1, <3>2
  <2> QED BY <2>2, <2>3, <2>4 DEF OwnSocks
<1>14. \A n \in Taken(g) : clients[g][n] \in deleted'
  BY <1>1, <1>2
<1> QED BY <1>2, <1>3, <1>4, <1>6, <1>7, <1>8, <1>9, <1>10, <1>11, <1>12, <1>13, <1>14

\* What it means to the other handlers.
LEMMA DeleteClientsOthers ==
    ASSUME IInv, NEW g \in H, DeleteClients(g), Only(g),
           UNCHANGED <<joins, created, accepted, cur>>, \A h \in H : From(h)' = From(h)
    PROVE  \A h \in H \ {g} : WatchOK(h)' /\ AtOK(h)'
<1> TAKE h \in H \ {g}
<1>1. /\ clients'[g] = << >> /\ Taken(g)' = {}
      /\ clients'[h] = clients[h] /\ Taken(h)' = Taken(h)
      /\ \A e \in H \ {g} : clients'[e] = clients[e] /\ Taken(e)' = Taken(e)
      /\ \A n \in Taken(h) : /\ clients[h][n] \in created \ deleted'
                             /\ sock'[clients[h][n]] = sock[clients[h][n]]
      /\ \A n \in Taken(g) : clients[g][n] \in deleted'
      /\ deleted \subseteq deleted'
  BY DeleteClientsKeeps
<1>2. WatchOK(h)'
  <2>1. Socks(clients[h])' = Socks(clients[h])
    BY <1>1, SocksFrame DEF IInv
  <2> QED BY <1>1, <2>1 DEF IInv, WatchOK, Only
<1>3. AtOK(h)'
  <2>1. pc'[h] = pc[h] /\ at'[h] = at[h] /\ target'[h] = target[h]
    BY DEF Only
  <2> SUFFICES ASSUME pc[h] = "send", at[h] # 0
               PROVE  /\ target[h] \in H
                      /\ at[h] \in deleted' => target[h] # h
                      /\ \/ at[h] \in deleted'
                         \/ \E f \in H : /\ f = target[h]
                                         /\ \E n \in Taken(f)' : clients'[f][n] = at[h]
    BY <2>1, Zenon DEF AtOK, Taken
  <2>2. PICK f \in H :
          /\ f = target[h]
          /\ at[h] \in deleted => f # h
          /\ at[h] \in deleted \/ \E n \in Taken(f) : clients[f][n] = at[h]
    BY DEF IInv, AtOK
  <2>3. CASE at[h] \in deleted
    BY <1>1, <2>2, <2>3
  <2>4. CASE at[h] \notin deleted
    <3>1. PICK n \in Taken(f) : clients[f][n] = at[h]
      BY <2>2, <2>4
    <3>2. CASE f = g
      BY <1>1, <2>2, <3>1, <3>2
    <3>3. CASE f # g
      <4>1. clients'[f] = clients[f] /\ Taken(f)' = Taken(f)
        BY <1>1, <3>3
      <4>2. f = h => at[h] \notin deleted'
        BY <1>1, <3>1
      <4>3. \E m \in Taken(f)' : clients'[f][m] = at[h]
        BY <3>1, <4>1
      <4> QED BY <2>2, <4>2, <4>3
    <3> QED BY <3>2, <3>3
  <2> QED BY <2>3, <2>4
<1> QED BY <1>2, <1>3

LEMMA DeleteHandlerIInv == IInv /\ DeleteHandler => IInv'
<1> SUFFICES ASSUME IInv, DeleteHandler PROVE IInv'
  OBVIOUS
<1> USE DEF queueVars, sendVars
<1>1. PICK g \in H : g = k
  BY Bounds DEF DeleteHandler, IInv, TypeOK, MainOK, H
<1>2. /\ main = "wait" /\ stopped[g] /\ DeleteClients(g) /\ gone' = gone \cup {g}
      /\ k' = k + 1 /\ main' = "close"
      /\ UNCHANGED <<listening, accepted, cur, minId, minClient, queueVars, created,
                     hasChange, watched, running, stopped, pc, i, sendVars>>
  BY <1>1 DEF DeleteHandler
<1>3. \A h \in H : From(h)' = From(h)
  BY <1>2 DEF From, Draining
<1>4. /\ clients'[g] = << >> /\ Taken(g)' = {}
      /\ \A h \in H \ {g} :
           /\ clients'[h] = clients[h] /\ Taken(h)' = Taken(h)
           /\ \A n \in Taken(h) : /\ clients[h][n] \in created \ deleted'
                                  /\ sock'[clients[h][n]] = sock[clients[h][n]]
      /\ clients' \in [H -> Seq(Conns)] /\ sock' \in [Conns -> Descriptors \cup {0}]
      /\ fds' \subseteq Descriptors /\ deleted' \subseteq Conns
      /\ QueuedOnce' /\ TakenOnce' /\ WaitingOK' /\ ConnsOK' /\ OwnSocks'
  BY <1>2, <1>3, DeleteClientsKeeps
<1>5. Only(g)
  BY <1>2, <1>4 DEF Only
<1>6. \A h \in H \ {g} : WatchOK(h)' /\ AtOK(h)'
  BY <1>2, <1>3, <1>5, DeleteClientsOthers
<1>7. pc[g] = "stopped" /\ pc'[g] = "stopped"
  BY <1>2 DEF IInv, HandlerOK
<1>8. WatchOK(g)' /\ AtOK(g)'
  BY <1>7 DEF WatchOK, AtOK
<1>9. TypeOK'
  <2>1. k' \in 1 .. Handlers + 1
    <3>1. k \in Nat /\ 1 <= k /\ k <= Handlers
      BY <1>1, Bounds DEF H
    <3> QED BY <1>2, <3>1, Bounds
  <2>2. gone' \subseteq H
    BY <1>2 DEF IInv, TypeOK
  <2> QED BY <1>2, <1>4, <2>1, <2>2 DEF IInv, TypeOK
<1>10. MainOK'
  <2>1. gone' = 1 .. k' - 1
    <3>1. gone = 1 .. k - 1 /\ k \in Nat \ {0}
      BY <1>1, <1>2, Bounds DEF IInv, MainOK
    <3> QED BY <1>1, <1>2, <3>1
  <2> QED BY <1>2, <2>1 DEF IInv, MainOK
<1>11. (\A h \in H : HandlerOK(h))'
  <2> TAKE h \in H
  <2>1. HandlerOK(h)
    BY DEF IInv
  <2>2. CASE h # g
    BY <1>2, <1>3, <1>4, <2>1, <2>2 DEF HandlerOK, Draining
  <2>3. CASE h = g
    BY <1>2, <1>3, <1>4, <1>7, <2>1, <2>3 DEF HandlerOK, Draining
  <2> QED BY <2>2, <2>3
<1>12. TakenOK'
  <2>1. ASSUME NEW h \in H, NEW n \in Taken(h)'
        PROVE  /\ clients'[h][n] \in created' \ deleted'
               /\ sock'[clients'[h][n]] = 0 <=> pc'[h] = "erase" /\ n = i'[h]
    <3>1. h \in H \ {g}
      BY <1>4, <2>1
    <3>2. /\ n \in Taken(h) /\ clients'[h][n] = clients[h][n]
          /\ clients[h][n] \in created \ deleted'
          /\ sock'[clients[h][n]] = sock[clients[h][n]]
      BY <1>4, <2>1, <3>1
    <3>3. sock[clients[h][n]] = 0 <=> pc[h] = "erase" /\ n = i[h]
      BY <3>2 DEF IInv, TakenOK
    <3> QED BY <1>2, <3>2, <3>3
  <2> QED BY <2>1 DEF TakenOK
<1>13. OwnClientsSafe'
  BY <1>2 DEF IInv, OwnClientsSafe
<1> QED BY <1>4, <1>6, <1>8, <1>9, <1>10, <1>11, <1>12, <1>13 DEF IInv

LEMMA DeleteQueuesIInv == IInv /\ DeleteQueues => IInv'
<1> SUFFICES ASSUME IInv, DeleteQueues PROVE IInv'
  OBVIOUS
<1> USE DEF clientVars, stopVars, sendVars
<1>1. /\ main = "close" /\ k > Handlers /\ main' = "closed"
      /\ joins' = [h \in H |-> << >>] /\ count' = [h \in H |-> 0]
      /\ UNCHANGED <<listening, accepted, cur, minId, minClient, k, locked, clientVars,
                     stopVars, pc, i, sendVars>>
  BY DEF DeleteQueues
<1>2. gone = H
  <2>1. gone = 1 .. k - 1 /\ k = Handlers + 1
    BY <1>1, Bounds DEF IInv, MainOK, TypeOK
  <2> QED BY <2>1, Bounds DEF H
<1>3. \A h \in H : pc[h] = "stopped" /\ From(h)' = 1
  BY <1>1, <1>2 DEF IInv, HandlerOK, From, Draining
<1>4. \A h \in H : joins'[h] = << >> /\ count'[h] = 0 /\ Waiting(h)' = {} /\ Taken(h)' = Taken(h)
  BY <1>1, <1>3 DEF Waiting, Taken
<1>5. TypeOK'
  BY <1>1, EmptySeq DEF IInv, TypeOK
<1>6. MainOK'
  BY <1>1, <1>2 DEF IInv, MainOK
<1>7. (\A h \in H : HandlerOK(h))'
  <2> TAKE h \in H
  <2>1. HandlerOK(h) /\ Len(<< >>) = 0
    BY DEF IInv
  <2> QED BY <1>1, <1>3, <1>4, <2>1 DEF HandlerOK, Draining
<1>8. QueuedOnce' /\ WaitingOK'
  BY <1>4 DEF QueuedOnce, WaitingOK
<1>9. TakenOnce' /\ TakenOK' /\ ConnsOK' /\ OwnSocks' /\ OwnClientsSafe'
  BY <1>1, <1>4 DEF IInv, TakenOnce, TakenOK, ConnsOK, OwnSocks, OwnClientsSafe
<1>10. (\A h \in H : WatchOK(h))' /\ (\A h \in H : AtOK(h))'
  BY <1>1, <1>3 DEF WatchOK, AtOK
<1> QED BY <1>5, <1>6, <1>7, <1>8, <1>9, <1>10 DEF IInv

------------------------------------------------------------------------------
(* A handler's thread: steps that leave the lists as they are.             *)

LEMMA ThreadIInv ==
    ASSUME IInv, NEW g \in H, Only(g),
           UNCHANGED <<mainVars, joins, fds, sock, clients, created, deleted, gone>>,
           pc[g] \notin {"none", "erase"}, pc'[g] # "erase", From(g)' = From(g),
           TypeOK', HandlerOK(g)', WatchOK(g)', AtOK(g)', OwnClientsSafe'
    PROVE  IInv'
<1>1. /\ MainOK' /\ TakenOK'
      /\ QueuedOnce' /\ TakenOnce' /\ WaitingOK' /\ ConnsOK' /\ OwnSocks'
      /\ \A h \in H \ {g} : HandlerOK(h)' /\ WatchOK(h)' /\ AtOK(h)'
  BY ThreadFrame
<1>2. /\ (\A h \in H : HandlerOK(h))' /\ (\A h \in H : WatchOK(h))'
      /\ (\A h \in H : AtOK(h))'
  BY <1>1
<1> QED BY <1>1, <1>2 DEF IInv

LEMMA StopIInv == ASSUME IInv, NEW g \in H, Stop(g) PROVE IInv'
<1> USE DEF mainVars, queueVars, clientVars, sendVars
<1>1. /\ pc[g] = "top" /\ pc' = [pc EXCEPT ![g] = "stopped"]
      /\ stopped' = [stopped EXCEPT ![g] = TRUE]
      /\ UNCHANGED <<mainVars, queueVars, clientVars, running, gone, i, sendVars>>
  BY DEF Stop, Goto
<1>2. TypeOK' /\ Only(g) /\ pc'[g] = "stopped" /\ stopped'[g] = TRUE
  BY <1>1 DEF IInv, TypeOK, Only
<1>3. From(g)' = From(g)
  BY <1>1, <1>2 DEF From, Draining
<1>4. HandlerOK(g)'
  <2>1. HandlerOK(g)
    BY DEF IInv
  <2> QED BY <1>1, <1>2, <1>3, <2>1 DEF HandlerOK, Draining
<1>5. WatchOK(g)' /\ AtOK(g)' /\ OwnClientsSafe'
  BY <1>1, <1>2 DEF IInv, WatchOK, AtOK, OwnClientsSafe
<1> QED BY <1>1, <1>2, <1>3, <1>4, <1>5, ThreadIInv

\* Steps that only move the thread's place and position.
LEMMA MovesIInv ==
    ASSUME IInv, NEW g \in H,
           \/ NoJoin(g) \/ NoClient(g) \/ ClientServed(g) \/ ClientsDone(g)
           \/ BroadcastEnd(g) \/ SendWaits(g)
    PROVE  IInv'
<1> USE DEF mainVars, queueVars, clientVars, stopVars, sendVars
<1>1. UNCHANGED <<mainVars, queueVars, clientVars, stopVars, sendVars>>
  BY DEF NoJoin, NoClient, ClientServed, ClientsDone, BroadcastEnd, SendWaits
<1>2. PICK p \in {"top", "check", "serve", "sent", "sending"} : pc' = [pc EXCEPT ![g] = p]
  BY DEF NoJoin, NoClient, ClientServed, ClientsDone, BroadcastEnd, SendWaits, Goto
<1>3. \A h \in H : h # g => i'[h] = i[h]
  BY DEF NoJoin, NoClient, ClientServed, ClientsDone, BroadcastEnd, SendWaits, IInv, TypeOK
<1>4. i' \in [H -> Nat \ {0}]
  <2>1. i[g] + 1 \in Nat \ {0}
    BY DEF IInv, TypeOK
  <2> QED BY <2>1 DEF NoJoin, NoClient, ClientServed, ClientsDone, BroadcastEnd, SendWaits, IInv,
         TypeOK
<1>5. TypeOK' /\ Only(g) /\ pc'[g] = p
  BY <1>1, <1>2, <1>3, <1>4 DEF IInv, TypeOK, Only
<1>6. pc[g] \in {"top", "check", "serve", "sending", "send", "sent"}
  BY DEF NoJoin, NoClient, ClientServed, ClientsDone, BroadcastEnd, SendWaits, Goto, Serving
<1>7. From(g)' = From(g) /\ ~Draining(g) /\ ~Draining(g)'
  BY <1>5, <1>6 DEF From, Draining
<1>8. HandlerOK(g)'
  <2>1. HandlerOK(g)
    BY DEF IInv
  <2>2. p = "sent" => i'[g] <= Len(clients'[g])
    <3>1. ASSUME p = "sent" PROVE BroadcastEnd(g)
      BY <1>5, <3>1 DEF NoJoin, NoClient, ClientServed, ClientsDone, SendWaits, Goto, IInv,
         TypeOK
    <3>2. ASSUME BroadcastEnd(g) PROVE pc[g] = "send" /\ i' = i
      BY <3>2 DEF BroadcastEnd, Goto
    <3> QED BY <1>1, <2>1, <3>1, <3>2 DEF HandlerOK
  <2>3. p = "sending" => i'[g] <= Len(clients'[g])
    <3>1. ASSUME p = "sending" PROVE SendWaits(g)
      BY <1>5, <3>1 DEF NoJoin, NoClient, ClientServed, ClientsDone, BroadcastEnd, Goto,
         IInv, TypeOK
    <3>2. ASSUME SendWaits(g) PROVE i[g] <= Len(clients[g]) /\ i' = i
      BY <3>2 DEF SendWaits, Serving
    <3> QED BY <1>1, <3>1, <3>2
  <2> QED BY <1>1, <1>5, <1>6, <1>7, <2>1, <2>2, <2>3 DEF HandlerOK
<1>9. WatchOK(g)'
  <2>1. WatchOK(g) /\ Socks(clients[g])' = Socks(clients[g])
    BY <1>1, SocksFrame DEF IInv
  <2>2. CASE NoJoin(g)
    BY <1>1, <1>5, <2>1, <2>2 DEF WatchOK, NoJoin, Goto, IInv, TypeOK
  <2>3. CASE NoClient(g)
    BY <1>1, <1>5, <2>1, <2>3 DEF WatchOK, NoClient, Goto, IInv, TypeOK
  <2>4. CASE ClientServed(g) \/ ClientsDone(g) \/ BroadcastEnd(g) \/ SendWaits(g)
    <3>1. pc[g] \in {"serve", "sending", "send", "sent"}
      BY <2>4 DEF SendWaits, ClientServed, ClientsDone, BroadcastEnd, Goto, Serving
    <3> QED BY <1>1, <2>1, <3>1 DEF WatchOK
  <2> QED BY <2>2, <2>3, <2>4
<1>10. AtOK(g)' /\ OwnClientsSafe'
  BY <1>1, <1>5 DEF IInv, AtOK, OwnClientsSafe
<1> QED BY <1>1, <1>5, <1>6, <1>7, <1>8, <1>9, <1>10, ThreadIInv

LEMMA LockQueueIInv == ASSUME IInv, NEW g \in H, LockQueue(g) PROVE IInv'
<1> USE DEF mainVars, clientVars, stopVars, sendVars
<1>1. /\ pc[g] = "top" /\ pc' = [pc EXCEPT ![g] = "drain"]
      /\ locked' = [locked EXCEPT ![g] = TRUE] /\ i' = [i EXCEPT ![g] = 1]
      /\ UNCHANGED <<mainVars, joins, count, clientVars, stopVars, sendVars>>
  BY DEF LockQueue, Goto
<1>2. TypeOK' /\ Only(g) /\ pc'[g] = "drain" /\ locked'[g] = TRUE /\ i'[g] = 1
  <2>1. /\ i' \in [H -> Nat \ {0}] /\ i'[g] = 1
        /\ \A h \in H \ {g} : i'[h] = i[h]
    BY <1>1 DEF IInv, TypeOK
  <2>2. /\ locked' \in [H -> BOOLEAN] /\ locked'[g] = TRUE
        /\ \A h \in H \ {g} : locked'[h] = locked[h]
    BY <1>1 DEF IInv, TypeOK
  <2>3. pc'[g] = "drain" /\ \A h \in H \ {g} : pc'[h] = pc[h]
    BY <1>1 DEF IInv, TypeOK
  <2>4. TypeOK'
    BY <1>1, <2>1, <2>2 DEF IInv, TypeOK
  <2> QED BY <1>1, <2>1, <2>2, <2>3, <2>4 DEF Only
<1>3. From(g) = 1 /\ From(g)' = 1
  BY <1>1, <1>2 DEF From, Draining
<1>4. HandlerOK(g)'
  <2>1. HandlerOK(g) /\ Len(joins[g]) \in Nat
    BY Lists DEF IInv
  <2>2. /\ count[g] = Len(joins[g]) + 1 - 1 - 0 /\ (stopped[g] <=> FALSE)
        /\ g \in gone => stopped[g] /\ clients[g] = << >>
    BY <1>1, <1>3, <2>1 DEF HandlerOK
  <2>3. 1 <= Len(joins[g]) + 1
    BY <2>1
  <2> QED BY <1>1, <1>2, <1>3, <2>2, <2>3 DEF HandlerOK, Draining
<1>5. WatchOK(g)' /\ AtOK(g)' /\ OwnClientsSafe'
  BY <1>1, <1>2 DEF IInv, WatchOK, AtOK, OwnClientsSafe
<1> QED BY <1>1, <1>2, <1>3, <1>4, <1>5, ThreadIInv

LEMMA JoinUncountIInv == ASSUME IInv, NEW g \in H, JoinUncount(g) PROVE IInv'
<1> USE DEF mainVars, clientVars, stopVars, sendVars
<1>1. /\ pc[g] = "drain" /\ pc' = [pc EXCEPT ![g] = "join"] /\ i[g] <= Len(joins[g])
      /\ count' = [count EXCEPT ![g] = @ - 1]
      /\ UNCHANGED <<mainVars, joins, locked, clientVars, stopVars, i, sendVars>>
  BY DEF JoinUncount, Goto
<1>2. HandlerOK(g) /\ Len(joins[g]) \in Nat /\ i[g] \in Nat \ {0}
  BY Lists DEF IInv
<1>3. From(g) = i[g] /\ pc'[g] = "join" /\ From(g)' = i[g] /\ Draining(g) /\ Draining(g)'
  BY <1>1 DEF From, Draining, IInv, TypeOK
<1>4. count[g] = Len(joins[g]) + 1 - i[g] /\ count'[g] = count[g] - 1
  <2>1. count[g] = Len(joins[g]) + 1 - From(g) - 0
    BY <1>1, <1>2 DEF HandlerOK
  <2> QED BY <1>1, <1>2, <1>3, <2>1 DEF IInv, TypeOK
<1>5. count'[g] \in Nat /\ count'[g] = Len(joins[g]) + 1 - i[g] - 1
  BY <1>1, <1>2, <1>4
<1>6. TypeOK' /\ Only(g)
  <2>1. count' \in [H -> Nat]
    BY <1>1, <1>5 DEF IInv, TypeOK
  <2> QED BY <1>1, <2>1 DEF IInv, TypeOK, Only
<1>7. HandlerOK(g)'
  BY <1>1, <1>2, <1>3, <1>5 DEF HandlerOK
<1>8. WatchOK(g)' /\ AtOK(g)' /\ OwnClientsSafe'
  BY <1>1, <1>3 DEF IInv, WatchOK, AtOK, OwnClientsSafe
<1> QED BY <1>1, <1>3, <1>6, <1>7, <1>8, ThreadIInv

LEMMA SelectIInv == ASSUME IInv, NEW g \in H, Select(g) PROVE IInv'
<1> USE DEF mainVars, queueVars, stopVars, sendVars
<1>1. /\ pc[g] = "check" /\ pc' = [pc EXCEPT ![g] = "serve"] /\ clients[g] # << >>
      /\ watched' = [watched EXCEPT ![g] = IF hasChange[g] THEN Socks(clients[g]) ELSE @]
      /\ hasChange' = [hasChange EXCEPT ![g] = FALSE] /\ i' = [i EXCEPT ![g] = 1]
      /\ UNCHANGED <<mainVars, queueVars, fds, sock, clients, created, deleted, stopVars,
                     sendVars>>
  BY DEF Select, Goto, Rebuild
<1>2. Socks(clients[g]) \subseteq Descriptors
  <2>1. ASSUME NEW n \in Taken(g) PROVE sock[clients[g][n]] \in Descriptors
    <3>1. clients[g][n] \in Conns /\ sock[clients[g][n]] # 0
      BY <1>1, Lists DEF IInv, TakenOK
    <3> QED BY <3>1 DEF IInv, TypeOK
  <2>2. Elements(clients[g]) = {clients[g][n] : n \in Taken(g)}
    BY Lists DEF IInv
  <2> QED BY <2>1, <2>2 DEF Socks
<1>3. pc'[g] = "serve" /\ i'[g] = 1 /\ hasChange'[g] = FALSE
      /\ watched'[g] = IF hasChange[g] THEN Socks(clients[g]) ELSE watched[g]
  BY <1>1 DEF IInv, TypeOK
<1>4. TypeOK' /\ Only(g)
  <2>1. watched' \in [H -> SUBSET Descriptors]
    BY <1>1, <1>2 DEF IInv, TypeOK
  <2>2. i' \in [H -> Nat \ {0}] /\ \A h \in H \ {g} : i'[h] = i[h]
    BY <1>1 DEF IInv, TypeOK
  <2>3. TypeOK'
    BY <1>1, <2>1, <2>2 DEF IInv, TypeOK
  <2>4. \A h \in H \ {g} : /\ pc'[h] = pc[h] /\ watched'[h] = watched[h]
                           /\ hasChange'[h] = hasChange[h]
    BY <1>1 DEF IInv, TypeOK
  <2> QED BY <1>1, <2>2, <2>3, <2>4 DEF Only
<1>5. From(g)' = From(g) /\ ~Draining(g) /\ ~Draining(g)'
  BY <1>1, <1>3 DEF From, Draining
<1>6. HandlerOK(g)'
  <2>1. HandlerOK(g)
    BY DEF IInv
  <2> QED BY <1>1, <1>3, <1>5, <2>1 DEF HandlerOK
<1>7. WatchOK(g)'
  <2>1. WatchOK(g) /\ Socks(clients[g])' = Socks(clients[g])
    BY <1>1, SocksFrame DEF IInv
  <2> QED BY <1>1, <1>3, <2>1 DEF WatchOK
<1>8. AtOK(g)' /\ OwnClientsSafe'
  BY <1>1, <1>3 DEF IInv, AtOK, OwnClientsSafe
<1> QED BY <1>1, <1>3, <1>4, <1>5, <1>6, <1>7, <1>8, ThreadIInv

\* Where Broadcast's iterator is next.
LEMMA IteratorIs ==
    ASSUME TypeOK, NEW f \in H
    PROVE  /\ First(f) \in 0 .. MaxConn
           /\ First(f) # 0 => \E n \in Taken(f) : clients[f][n] = First(f)
           /\ \A n \in Taken(f) :
                /\ After(f, clients[f][n]) \in 0 .. MaxConn
                /\ After(f, clients[f][n]) # 0 =>
                      \E m \in Taken(f) : clients[f][m] = After(f, clients[f][n])
<1>1. /\ clients[f] \in Seq(Conns) /\ DOMAIN clients[f] = Taken(f) /\ Len(clients[f]) \in Nat
      /\ \A n \in Taken(f) : clients[f][n] \in Conns /\ clients[f][n] \in 0 .. MaxConn
      /\ clients[f] # << >> => 1 \in Taken(f)
  <2>1. \A c \in Conns : c \in 0 .. MaxConn
    BY Bounds DEF Conns
  <2>2. /\ clients[f] \in Seq(Conns) /\ DOMAIN clients[f] = Taken(f)
        /\ Len(clients[f]) \in Nat /\ \A n \in Taken(f) : clients[f][n] \in Conns
        /\ clients[f] = << >> <=> Len(clients[f]) = 0
    BY Lists
  <2>3. clients[f] # << >> => 1 \in Taken(f)
    BY <2>2 DEF Taken
  <2> QED BY <2>1, <2>2, <2>3
<1>2. 0 \in 0 .. MaxConn
  BY Bounds
<1>3. /\ First(f) \in 0 .. MaxConn
      /\ First(f) # 0 => \E n \in Taken(f) : clients[f][n] = First(f)
  <2>1. CASE clients[f] = << >>
    BY <1>2, <2>1 DEF First
  <2>2. CASE clients[f] # << >>
    <3>1. First(f) = clients[f][1]
      BY <1>1, <2>2 DEF First
    <3> QED BY <1>1, <2>2, <3>1
  <2> QED BY <2>1, <2>2
<1>4. ASSUME NEW n \in Taken(f)
      PROVE  /\ After(f, clients[f][n]) \in 0 .. MaxConn
             /\ After(f, clients[f][n]) # 0 =>
                   \E m \in Taken(f) : clients[f][m] = After(f, clients[f][n])
  <2> DEFINE j == CHOOSE l \in DOMAIN clients[f] : clients[f][l] = clients[f][n]
  <2>1. j \in Taken(f)
    BY <1>1
  <2> HIDE DEF j
  <2>2. After(f, clients[f][n]) = IF j = Len(clients[f]) THEN 0 ELSE clients[f][j + 1]
    BY DEF After, j
  <2>3. CASE j = Len(clients[f])
    BY <1>2, <2>2, <2>3
  <2>4. CASE j # Len(clients[f])
    <3>1. j + 1 \in Taken(f)
      BY <1>1, <2>1, <2>4 DEF Taken
    <3> QED BY <1>1, <2>2, <2>4, <3>1
  <2> QED BY <2>3, <2>4
<1> QED BY <1>3, <1>4

LEMMA BroadcastBeginIInv ==
    ASSUME IInv, undefined = 0, NEW g \in H, BroadcastBegin(g) PROVE IInv'
<1> USE DEF mainVars, queueVars, clientVars, stopVars
<1>1. /\ pc[g] = "serve" /\ pc' = [pc EXCEPT ![g] = "send"] /\ i[g] <= Len(clients[g])
      /\ target' = [target EXCEPT ![g] = 1] /\ at' = [at EXCEPT ![g] = First(1)]
      /\ UNCHANGED <<mainVars, queueVars, clientVars, stopVars, i, undefined>>
  BY DEF BroadcastBegin, Goto, Serving
<1>2. pc'[g] = "send" /\ target'[g] = 1 /\ at'[g] = First(1) /\ 1 \in H /\ 1 \in 1 .. Handlers + 1
  BY <1>1, Bounds DEF IInv, TypeOK
<1>3. /\ First(1) \in 0 .. MaxConn
      /\ First(1) # 0 => \E n \in Taken(1) : clients[1][n] = First(1)
  BY <1>2, IteratorIs DEF IInv
<1>4. TypeOK'
  BY <1>1, <1>2, <1>3 DEF IInv, TypeOK
<1>5. Only(g)
  BY <1>1 DEF IInv, TypeOK, Only
<1>6. From(g)' = From(g) /\ ~Draining(g) /\ ~Draining(g)'
  BY <1>1, <1>2 DEF From, Draining
<1>7. HandlerOK(g)'
  <2>1. HandlerOK(g)
    BY DEF IInv
  <2> QED BY <1>1, <1>2, <1>6, <2>1 DEF HandlerOK
<1>8. WatchOK(g)'
  <2>1. WatchOK(g) /\ Socks(clients[g])' = Socks(clients[g])
    BY <1>1, SocksFrame DEF IInv
  <2> QED BY <1>1, <2>1 DEF WatchOK
<1>9. AtOK(g)'
  <2>1. First(1) # 0 => First(1) \notin deleted
    BY <1>2, <1>3 DEF IInv, TakenOK
  <2>2. clients' = clients /\ deleted' = deleted
    BY <1>1
  <2> QED BY <1>2, <1>3, <2>1, <2>2 DEF AtOK, Taken
<1>10. OwnClientsSafe'
  BY <1>1 DEF OwnClientsSafe
<1> QED BY <1>1, <1>2, <1>4, <1>5, <1>6, <1>7, <1>8, <1>9, <1>10, ThreadIInv

LEMMA BroadcastToIInv ==
    ASSUME IInv, undefined = 0, NEW g \in H, BroadcastTo(g) PROVE IInv'
<1> USE DEF mainVars, queueVars, clientVars, stopVars
<1>1. PICK f \in H : f = target[g]
  BY DEF BroadcastTo, IInv, TypeOK, H
<1>2. /\ pc[g] = "send"
      /\ UNCHANGED <<mainVars, queueVars, clientVars, stopVars, pc, i>>
  BY DEF BroadcastTo
<1>3. /\ at[g] # 0 => \/ at[g] \in deleted /\ f # g
                      \/ at[g] \notin deleted /\ \E n \in Taken(f) : clients[f][n] = at[g]
      /\ HandlerOK(g)
  BY <1>1, <1>2 DEF IInv, AtOK
<1>4. CASE f \in gone \/ at[g] \in deleted
  <2>1. undefined' = g /\ target' = target /\ at' = at
    BY <1>1, <1>4 DEF BroadcastTo
  <2>2. f # g
    <3>1. CASE f \in gone
      BY <1>2, <1>3, <3>1 DEF HandlerOK
    <3>2. CASE at[g] \in deleted
      <4>1. at[g] # 0
        BY <3>2, Bounds DEF IInv, TypeOK
      <4> QED BY <1>3, <3>2, <4>1
    <3> QED BY <1>4, <3>1, <3>2
  <2>3. TypeOK'
    <3>1. g \in 0 .. Handlers
      BY Bounds DEF H
    <3> QED BY <1>2, <2>1, <3>1 DEF IInv, TypeOK
  <2>4. Only(g) /\ From(g)' = From(g) /\ Draining(g)' = Draining(g) /\ Taken(g)' = Taken(g)
    BY <1>2, <2>1 DEF Only, From, Draining, Taken
  <2>5. HandlerOK(g)'
    BY <1>2, <1>3, <2>4 DEF HandlerOK
  <2>6. WatchOK(g)'
    <3>1. WatchOK(g) /\ Socks(clients[g])' = Socks(clients[g])
      BY <1>2, SocksFrame DEF IInv
    <3> QED BY <1>2, <3>1 DEF WatchOK
  <2>7. AtOK(g)'
    BY <1>2, <2>1 DEF IInv, AtOK, Taken
  <2>8. OwnClientsSafe'
    BY <1>1, <2>1, <2>2 DEF OwnClientsSafe
  <2> QED BY <1>2, <2>3, <2>4, <2>5, <2>6, <2>7, <2>8, ThreadIInv
<1>5. CASE ~(f \in gone \/ at[g] \in deleted)
  <2>1. /\ undefined' = undefined
        /\ \/ /\ at[g] # 0 /\ target' = target
              /\ at' = [at EXCEPT ![g] = After(f, at[g])]
           \/ /\ at[g] = 0 /\ target' = [target EXCEPT ![g] = f + 1]
              /\ at' = [at EXCEPT ![g] = IF f < Handlers THEN First(f + 1) ELSE 0]
    BY <1>1, <1>5 DEF BroadcastTo
  <2>2. /\ target'[g] \in 1 .. Handlers + 1 /\ at'[g] \in 0 .. MaxConn
        /\ at'[g] # 0 => \E e \in H : /\ e = target'[g]
                                      /\ \E n \in Taken(e) : clients[e][n] = at'[g]
    <3>1. CASE at[g] # 0
      <4>1. PICK n \in Taken(f) : clients[f][n] = at[g]
        BY <1>3, <1>5, <3>1
      <4>2. target'[g] = f /\ at'[g] = After(f, clients[f][n]) /\ f \in 1 .. Handlers + 1
        BY <1>1, <2>1, <3>1, <4>1 DEF IInv, TypeOK
      <4> QED BY <4>1, <4>2, IteratorIs DEF IInv
    <3>2. CASE at[g] = 0
      <4>1. /\ target'[g] = f + 1 /\ at'[g] = IF f < Handlers THEN First(f + 1) ELSE 0
        BY <2>1, <3>2 DEF IInv, TypeOK
      <4>0. f + 1 \in 1 .. Handlers + 1 /\ (f < Handlers => f + 1 \in H)
        BY Bounds DEF H
      <4>2. CASE f < Handlers
        BY <4>0, <4>1, <4>2, IteratorIs DEF IInv
      <4>3. CASE ~(f < Handlers)
        BY <4>0, <4>1, <4>3, Bounds
      <4> QED BY <4>2, <4>3
    <3> QED BY <3>1, <3>2
  <2>3. \A h \in H \ {g} : at'[h] = at[h] /\ target'[h] = target[h]
    BY <2>1 DEF IInv, TypeOK
  <2>4. at' \in [H -> 0 .. MaxConn] /\ target' \in [H -> 1 .. Handlers + 1]
    BY <2>1, <2>2 DEF IInv, TypeOK
  <2>5. TypeOK' /\ Only(g)
    BY <1>2, <2>1, <2>3, <2>4 DEF IInv, TypeOK, Only
  <2>6. From(g)' = From(g) /\ Draining(g)' = Draining(g) /\ \A h \in H : Taken(h)' = Taken(h)
    BY <1>2 DEF From, Draining, Taken
  <2>7. HandlerOK(g)'
    BY <1>2, <1>3, <2>6 DEF HandlerOK
  <2>8. WatchOK(g)'
    <3>1. WatchOK(g) /\ Socks(clients[g])' = Socks(clients[g])
      BY <1>2, SocksFrame DEF IInv
    <3> QED BY <1>2, <3>1 DEF WatchOK
  <2>9. AtOK(g)'
    <3> SUFFICES ASSUME at'[g] # 0
                 PROVE  /\ target'[g] \in H /\ at'[g] \notin deleted
                        /\ \E n \in 1 .. Len(clients[target'[g]]) :
                              clients[target'[g]][n] = at'[g]
      BY <1>2 DEF AtOK, Taken
    <3>1. PICK e \in H : e = target'[g] /\ \E n \in Taken(e) : clients[e][n] = at'[g]
      BY <2>2
    <3>2. at'[g] \notin deleted
      BY <3>1 DEF IInv, TakenOK
    <3> QED BY <3>1, <3>2 DEF Taken
  <2>10. OwnClientsSafe'
    BY <2>1 DEF OwnClientsSafe
  <2> QED BY <1>2, <2>5, <2>6, <2>7, <2>8, <2>9, <2>10, ThreadIInv
<1> QED BY <1>4, <1>5

------------------------------------------------------------------------------
(* A handler's thread: steps that change the lists or close sockets.       *)

LEMMA JoinAddIInv == ASSUME IInv, NEW g \in H, JoinAdd(g) PROVE IInv'
<1> USE DEF mainVars, queueVars, stopVars, sendVars
<1>1. PICK c : c = joins[g][i[g]]
  OBVIOUS
<1>2. /\ pc[g] = "join" /\ pc' = [pc EXCEPT ![g] = "drain"]
      /\ clients' = [clients EXCEPT ![g] = Append(@, c)] /\ created' = created \cup {c}
      /\ i' = [i EXCEPT ![g] = @ + 1]
      /\ UNCHANGED <<mainVars, queueVars, fds, sock, deleted, hasChange, watched, stopVars,
                     sendVars>>
  BY <1>1 DEF JoinAdd, Goto
<1>3. /\ HandlerOK(g) /\ i[g] <= Len(joins[g]) /\ i[g] \in Nat \ {0} /\ Len(joins[g]) \in Nat
      /\ Len(clients[g]) \in Nat /\ clients[g] \in Seq(Conns)
  BY <1>2, Lists DEF IInv, HandlerOK
<1>4. /\ pc'[g] = "drain" /\ i'[g] = i[g] + 1 /\ clients'[g] = Append(clients[g], c)
      /\ \A h \in H \ {g} : pc'[h] = pc[h] /\ i'[h] = i[h] /\ clients'[h] = clients[h]
  BY <1>2 DEF IInv, TypeOK
<1>5. From(g) = i[g] /\ From(g)' = i[g] + 1 /\ Draining(g) /\ Draining(g)'
  BY <1>2, <1>4 DEF From, Draining
<1>6. /\ Waiting(g) = i[g] .. Len(joins[g]) /\ Waiting(g)' = i[g] + 1 .. Len(joins[g])
      /\ i[g] \in Waiting(g) /\ Waiting(g)' \subseteq Waiting(g) /\ i[g] \notin Waiting(g)'
  <2>1. Waiting(g) = i[g] .. Len(joins[g]) /\ Waiting(g)' = i[g] + 1 .. Len(joins[g])
    BY <1>2, <1>5 DEF Waiting
  <2> QED BY <1>3, <2>1
<1>7. /\ c \in Conns /\ c <= accepted /\ c # cur /\ c \notin created /\ sock[c] # 0
  BY <1>1, <1>6, Lists DEF IInv, WaitingOK
<1>8. PICK z \in Nat : z = Len(clients[g]) + 1
  BY <1>3
<1>9. /\ clients'[g] \in Seq(Conns) /\ Len(clients'[g]) = z /\ clients'[g][z] = c
      /\ \A n \in Taken(g) : clients'[g][n] = clients[g][n]
  BY <1>3, <1>4, <1>7, <1>8, AppendIs DEF Taken
<1>10. Taken(g)' = Taken(g) \cup {z} /\ z \notin Taken(g)
  <2>1. Taken(g)' = 1 .. z /\ Taken(g) = 1 .. Len(clients[g])
    BY <1>9 DEF Taken
  <2> QED BY <1>3, <1>8, <2>1
<1>11. \A h \in H \ {g} : Taken(h)' = Taken(h) /\ Waiting(h)' = Waiting(h) /\ From(h)' = From(h)
  BY <1>2, <1>4 DEF Taken, Waiting, From, Draining
<1>12. \A h \in H : Waiting(h)' \subseteq Waiting(h) /\ \A n \in Taken(h) : n \in Taken(h)'
  BY <1>6, <1>10, <1>11
<1>13. ASSUME NEW h \in H, NEW n \in Taken(h)'
       PROVE  \/ h = g /\ n = z /\ clients'[h][n] = c
              \/ ~(h = g /\ n = z) /\ n \in Taken(h) /\ clients'[h][n] = clients[h][n]
  BY <1>4, <1>9, <1>10, <1>11, <1>13
<1>14. TypeOK' /\ Only(g)
  <2>1. clients' \in [H -> Seq(Conns)] /\ i' \in [H -> Nat \ {0}]
    <3>1. Append(clients[g], c) \in Seq(Conns) /\ i[g] + 1 \in Nat \ {0}
      BY <1>3, <1>7, AppendIs
    <3> QED BY <1>2, <3>1 DEF IInv, TypeOK
  <2>2. created' \subseteq Conns
    BY <1>2, <1>7 DEF IInv, TypeOK
  <2>3. TypeOK'
    BY <1>2, <2>1, <2>2 DEF IInv, TypeOK
  <2> QED BY <1>2, <1>4, <2>3 DEF Only
<1>15. MainOK'
  <2>1. ASSUME main = "init", NEW h \in k .. Handlers PROVE pc'[h] = "none"
    <3>1. pc[h] = "none" /\ h \in H
      BY <2>1, Bounds DEF IInv, MainOK, TypeOK, H
    <3> QED BY <1>2, <1>4, <3>1
  <2> QED BY <1>2, <2>1 DEF IInv, MainOK
<1>16. (\A h \in H : HandlerOK(h))'
  <2>1. HandlerOK(g)'
    <3>1. count[g] = Len(joins[g]) + 1 - i[g] - 1 /\ ~stopped[g] /\ locked[g] /\ g \notin gone
      BY <1>2, <1>3, <1>5 DEF HandlerOK
    <3>2. /\ count[g] = Len(joins[g]) + 1 - (i[g] + 1) - 0
          /\ i[g] + 1 <= Len(joins[g]) + 1
      BY <1>3, <3>1
    <3> QED BY <1>2, <1>4, <1>5, <3>1, <3>2 DEF HandlerOK
  <2>2. \A h \in H \ {g} : HandlerOK(h)'
    BY <1>2, <1>14, OthersFrame DEF IInv
  <2> QED BY <2>1, <2>2
<1>17. QueuedOnce'
  BY <1>2, <1>12 DEF IInv, QueuedOnce
<1>18. \A h \in H : \A n \in Taken(h) : clients[h][n] # c
  BY <1>7 DEF IInv, TakenOK
<1>19. TakenOnce'
  <2> SUFFICES ASSUME NEW h \in H, NEW e \in H, NEW n \in Taken(h)', NEW m \in Taken(e)',
                      clients'[h][n] = clients'[e][m]
               PROVE  h = e /\ n = m
    BY DEF TakenOnce
  <2>1. \/ h = g /\ n = z /\ clients'[h][n] = c
        \/ ~(h = g /\ n = z) /\ n \in Taken(h) /\ clients'[h][n] = clients[h][n]
    BY <1>13
  <2>2. \/ e = g /\ m = z /\ clients'[e][m] = c
        \/ ~(e = g /\ m = z) /\ m \in Taken(e) /\ clients'[e][m] = clients[e][m]
    BY <1>13
  <2> QED BY <1>18, <2>1, <2>2 DEF IInv, TakenOnce
<1>20. WaitingOK'
  <2>1. ASSUME NEW h \in H, NEW n \in Waiting(h)' PROVE joins[h][n] # c
    <3>1. n \in Waiting(h) /\ ~(h = g /\ n = i[g])
      BY <1>6, <1>12, <2>1
    <3> QED BY <1>1, <1>6, <3>1 DEF IInv, QueuedOnce
  <2> QED BY <1>2, <1>12, <2>1 DEF IInv, WaitingOK
<1>21. TakenOK'
  <2>0. created' = created \cup {c} /\ deleted' = deleted /\ sock' = sock
    BY <1>2
  <2>1. ASSUME NEW h \in H, NEW n \in Taken(h)'
        PROVE  /\ clients'[h][n] \in created' \ deleted'
               /\ sock'[clients'[h][n]] = 0 <=> pc'[h] = "erase" /\ n = i'[h]
    <3>1. CASE h = g /\ n = z /\ clients'[h][n] = c
      <4>1. c \notin deleted
        BY <1>7 DEF IInv, ConnsOK
      <4>2. sock'[clients'[h][n]] # 0 /\ pc'[h] # "erase"
        BY <1>2, <1>4, <1>7, <2>0, <3>1
      <4>3. clients'[h][n] \in created' /\ clients'[h][n] \notin deleted'
        BY <2>0, <3>1, <4>1
      <4> QED BY <4>2, <4>3
    <3>2. CASE n \in Taken(h) /\ clients'[h][n] = clients[h][n]
      <4>1. /\ clients[h][n] \in created \ deleted
            /\ sock[clients[h][n]] = 0 <=> pc[h] = "erase" /\ n = i[h]
        BY <3>2 DEF IInv, TakenOK
      <4>2. CASE h = g
        <5>1. pc[h] # "erase" /\ pc'[h] # "erase"
          BY <1>2, <1>4, <4>2
        <5> QED BY <2>0, <3>2, <4>1, <5>1
      <4>3. CASE h # g
        <5>1. pc'[h] = pc[h] /\ i'[h] = i[h]
          BY <1>4, <4>3
        <5> QED BY <2>0, <3>2, <4>1, <5>1
      <4> QED BY <4>2, <4>3
    <3> QED BY <1>13, <3>1, <3>2
  <2> QED BY <2>1 DEF TakenOK
<1>22. ConnsOK'
  <2>1. ASSUME NEW x \in created'
        PROVE  /\ x <= accepted /\ x # cur
               /\ x \in deleted \/ \E h \in H : \E n \in Taken(h)' : clients'[h][n] = x
    <3>1. CASE x = c
      BY <1>7, <1>9, <1>10, <3>1
    <3>2. CASE x \in created
      <4>1. /\ x <= accepted /\ x # cur
            /\ x \in deleted \/ \E h \in H : \E n \in Taken(h) : clients[h][n] = x
        BY <3>2 DEF IInv, ConnsOK
      <4>2. \A h \in H : \A n \in Taken(h) : n \in Taken(h)' /\ clients'[h][n] = clients[h][n]
        BY <1>4, <1>9, <1>12
      <4> QED BY <4>1, <4>2
    <3> QED BY <1>2, <3>1, <3>2
  <2>2. deleted \subseteq created'
    BY <1>2 DEF IInv, ConnsOK
  <2> QED BY <1>2, <2>1, <2>2 DEF IInv, ConnsOK
<1>23. OwnSocks' /\ OwnClientsSafe'
  BY <1>2 DEF IInv, OwnSocks, OwnClientsSafe
<1>24. (\A h \in H : WatchOK(h))'
  <2>1. WatchOK(g)'
    BY <1>4 DEF WatchOK
  <2>2. ASSUME NEW h \in H \ {g} PROVE WatchOK(h)'
    <3>1. WatchOK(h) /\ Socks(clients[h])' = Socks(clients[h])
      BY <1>2, <1>4, SocksFrame DEF IInv
    <3> QED BY <1>2, <1>4, <3>1 DEF WatchOK
  <2> QED BY <2>1, <2>2
<1>25. (\A h \in H : AtOK(h))'
  <2> SUFFICES ASSUME NEW h \in H, pc'[h] = "send", at'[h] # 0
               PROVE  /\ target'[h] \in H
                      /\ at'[h] \in deleted' => target'[h] # h
                      /\ \/ at'[h] \in deleted'
                         \/ \E n \in 1 .. Len(clients'[target'[h]]) :
                                clients'[target'[h]][n] = at'[h]
    BY DEF AtOK, Taken
  <2>1. h # g /\ pc[h] = "send" /\ at[h] # 0
    BY <1>2, <1>4
  <2>2. PICK f \in H :
          /\ f = target[h]
          /\ at[h] \in deleted => f # h
          /\ at[h] \in deleted \/ \E n \in Taken(f) : clients[f][n] = at[h]
    BY <2>1 DEF IInv, AtOK
  <2>3. \A n \in Taken(f) : n \in Taken(f)' /\ clients'[f][n] = clients[f][n]
    BY <1>4, <1>9, <1>12
  <2>4. at[h] \in deleted \/ \E n \in Taken(f)' : clients'[f][n] = at[h]
    BY <2>2, <2>3
  <2> QED BY <1>2, <2>2, <2>4 DEF Taken
<1> QED BY <1>14, <1>15, <1>16, <1>17, <1>19, <1>20, <1>21, <1>22, <1>23, <1>24, <1>25 DEF IInv

LEMMA JoinsDoneIInv == ASSUME IInv, NEW g \in H, JoinsDone(g) PROVE IInv'
<1> USE DEF mainVars, stopVars, sendVars
<1>1. /\ pc[g] = "drain" /\ pc' = [pc EXCEPT ![g] = "check"] /\ i[g] > Len(joins[g])
      /\ joins' = [joins EXCEPT ![g] = << >>] /\ count' = [count EXCEPT ![g] = 0]
      /\ locked' = [locked EXCEPT ![g] = FALSE] /\ hasChange' = [hasChange EXCEPT ![g] = TRUE]
      /\ UNCHANGED <<mainVars, fds, sock, clients, created, deleted, watched, stopVars, i,
                     sendVars>>
  BY DEF JoinsDone, Goto
<1>2. /\ pc'[g] = "check" /\ joins'[g] = << >> /\ count'[g] = 0 /\ locked'[g] = FALSE
      /\ hasChange'[g] = TRUE
      /\ \A h \in H \ {g} : /\ pc'[h] = pc[h] /\ joins'[h] = joins[h] /\ count'[h] = count[h]
                            /\ locked'[h] = locked[h] /\ hasChange'[h] = hasChange[h]
  BY <1>1 DEF IInv, TypeOK
<1>3. Only(g)
  BY <1>1, <1>2 DEF Only
<1>4. TypeOK'
  <2>1. /\ joins' \in [H -> Seq(Conns)] /\ count' \in [H -> Nat]
        /\ locked' \in [H -> BOOLEAN] /\ hasChange' \in [H -> BOOLEAN]
    BY <1>1, EmptySeq DEF IInv, TypeOK
  <2> QED BY <1>1, <2>1 DEF IInv, TypeOK
<1>5. MainOK'
  <2>1. ASSUME main = "init", NEW h \in k .. Handlers PROVE pc'[h] = "none"
    <3>1. pc[h] = "none" /\ h \in H
      BY <2>1, Bounds DEF IInv, MainOK, TypeOK, H
    <3> QED BY <1>1, <1>2, <3>1
  <2> QED BY <1>1, <2>1 DEF IInv, MainOK
<1>6. From(g)' = 1 /\ ~Draining(g)' /\ Waiting(g)' = {}
  <2>1. From(g)' = 1 /\ ~Draining(g)' /\ Len(joins'[g]) = 0
    BY <1>2, EmptySeq DEF From, Draining
  <2> QED BY <2>1 DEF Waiting
<1>7. /\ \A h \in H : Taken(h)' = Taken(h)
      /\ \A h \in H \ {g} : Waiting(h)' = Waiting(h) /\ HandlerOK(h)'
  BY <1>1, <1>3, OthersFrame DEF IInv, Taken
<1>8. (\A h \in H : HandlerOK(h))'
  <2>1. HandlerOK(g)'
    <3>1. ~stopped[g] /\ g \notin gone
      BY <1>1 DEF IInv, HandlerOK
    <3>2. 0 = Len(<< >>) + 1 - 1 - 0
      BY EmptySeq
    <3> QED BY <1>1, <1>2, <1>6, <3>1, <3>2 DEF HandlerOK
  <2> QED BY <1>7, <2>1
<1>9. QueuedOnce' /\ WaitingOK'
  <2>1. \A h \in H : \A n \in Waiting(h)' : h # g /\ n \in Waiting(h) /\ joins'[h] = joins[h]
    BY <1>2, <1>6, <1>7
  <2> QED BY <1>1, <2>1 DEF IInv, QueuedOnce, WaitingOK
<1>10. TakenOnce' /\ ConnsOK' /\ OwnSocks' /\ OwnClientsSafe'
  BY <1>1, <1>7 DEF IInv, TakenOnce, ConnsOK, OwnSocks, OwnClientsSafe
<1>11. TakenOK'
  <2>1. \A h \in H : pc'[h] = "erase" <=> pc[h] = "erase"
    BY <1>1, <1>2
  <2> QED BY <1>1, <1>7, <2>1 DEF IInv, TakenOK
<1>12. (\A h \in H : WatchOK(h))'
  <2>1. WatchOK(g)'
    BY <1>2 DEF WatchOK
  <2>2. ASSUME NEW h \in H \ {g} PROVE WatchOK(h)'
    <3>1. WatchOK(h) /\ Socks(clients[h])' = Socks(clients[h])
      BY <1>1, SocksFrame DEF IInv
    <3> QED BY <1>1, <1>2, <3>1 DEF WatchOK
  <2> QED BY <2>1, <2>2
<1>13. (\A h \in H : AtOK(h))'
  <2>1. \A h \in H : pc'[h] = "send" => pc[h] = "send"
    BY <1>2
  <2> QED BY <1>1, <2>1 DEF IInv, AtOK, Taken
<1> QED BY <1>4, <1>5, <1>8, <1>9, <1>10, <1>11, <1>12, <1>13 DEF IInv

LEMMA SelectErrorIInv == ASSUME IInv, NEW g \in H, SelectError(g) PROVE IInv'
<1> USE DEF mainVars, queueVars, stopVars, sendVars
<1>1. /\ pc[g] = "check" /\ pc' = [pc EXCEPT ![g] = "top"] /\ clients[g] # << >>
      /\ watched' = [watched EXCEPT ![g] = IF hasChange[g] THEN Socks(clients[g]) ELSE @]
      /\ hasChange' = [hasChange EXCEPT ![g] = FALSE]
      /\ DeleteClients(g)
      /\ UNCHANGED <<mainVars, queueVars, created, stopVars, i, sendVars>>
  BY DEF SelectError, Goto, Rebuild
<1>2. /\ pc'[g] = "top" /\ hasChange'[g] = FALSE
      /\ \A h \in H \ {g} : /\ pc'[h] = pc[h] /\ hasChange'[h] = hasChange[h]
                            /\ watched'[h] = watched[h]
  BY <1>1 DEF IInv, TypeOK
<1>3. \A h \in H : From(h)' = From(h) /\ Draining(h)' = Draining(h)
  BY <1>1, <1>2 DEF From, Draining
<1>4. /\ clients'[g] = << >> /\ Taken(g)' = {}
      /\ \A h \in H \ {g} :
           /\ clients'[h] = clients[h] /\ Taken(h)' = Taken(h)
           /\ \A n \in Taken(h) : /\ clients[h][n] \in created \ deleted'
                                  /\ sock'[clients[h][n]] = sock[clients[h][n]]
      /\ clients' \in [H -> Seq(Conns)] /\ sock' \in [Conns -> Descriptors \cup {0}]
      /\ fds' \subseteq Descriptors /\ deleted' \subseteq Conns
      /\ QueuedOnce' /\ TakenOnce' /\ WaitingOK' /\ ConnsOK' /\ OwnSocks'
  BY <1>1, <1>3, DeleteClientsKeeps
<1>5. Only(g)
  BY <1>1, <1>2, <1>4 DEF Only
<1>6. Socks(clients[g]) \subseteq Descriptors
  <2>1. ASSUME NEW n \in Taken(g) PROVE sock[clients[g][n]] \in Descriptors
    <3>1. clients[g][n] \in Conns /\ sock[clients[g][n]] # 0
      BY <1>1, Lists DEF IInv, TakenOK
    <3> QED BY <3>1 DEF IInv, TypeOK
  <2>2. Elements(clients[g]) = {clients[g][n] : n \in Taken(g)}
    BY Lists DEF IInv
  <2> QED BY <2>1, <2>2 DEF Socks
<1>7. TypeOK'
  <2>1. watched' \in [H -> SUBSET Descriptors]
    BY <1>1, <1>6 DEF IInv, TypeOK
  <2> QED BY <1>1, <1>4, <2>1 DEF IInv, TypeOK
<1>8. MainOK'
  <2>1. ASSUME main = "init", NEW h \in k .. Handlers PROVE pc'[h] = "none"
    <3>1. pc[h] = "none" /\ h \in H
      BY <2>1, Bounds DEF IInv, MainOK, TypeOK, H
    <3> QED BY <1>1, <1>2, <3>1
  <2> QED BY <1>1, <2>1 DEF IInv, MainOK
<1>9. (\A h \in H : HandlerOK(h))'
  <2>1. HandlerOK(g)'
    <3>1. HandlerOK(g)
      BY DEF IInv
    <3> QED BY <1>1, <1>2, <1>3, <1>4, <3>1 DEF HandlerOK
  <2>2. \A h \in H \ {g} : HandlerOK(h)'
    BY <1>1, <1>5, OthersFrame DEF IInv
  <2> QED BY <2>1, <2>2
<1>10. TakenOK'
  <2>1. ASSUME NEW h \in H, NEW n \in Taken(h)'
        PROVE  /\ clients'[h][n] \in created' \ deleted'
               /\ sock'[clients'[h][n]] = 0 <=> pc'[h] = "erase" /\ n = i'[h]
    <3>1. h \in H \ {g}
      BY <1>4, <2>1
    <3>2. /\ n \in Taken(h) /\ clients'[h][n] = clients[h][n]
          /\ clients[h][n] \in created \ deleted'
          /\ sock'[clients[h][n]] = sock[clients[h][n]]
      BY <1>4, <2>1, <3>1
    <3>3. sock[clients[h][n]] = 0 <=> pc[h] = "erase" /\ n = i[h]
      BY <3>2 DEF IInv, TakenOK
    <3> QED BY <1>1, <1>2, <3>1, <3>2, <3>3
  <2> QED BY <2>1 DEF TakenOK
<1>11. (\A h \in H : WatchOK(h))' /\ (\A h \in H : AtOK(h))'
  <2>1. \A h \in H \ {g} : WatchOK(h)' /\ AtOK(h)'
    BY <1>1, <1>3, <1>5, DeleteClientsOthers
  <2>2. WatchOK(g)' /\ AtOK(g)'
    BY <1>2, <1>4 DEF WatchOK, AtOK
  <2> QED BY <2>1, <2>2
<1>12. OwnClientsSafe'
  BY <1>1 DEF IInv, OwnClientsSafe
<1> QED BY <1>4, <1>7, <1>8, <1>9, <1>10, <1>11, <1>12 DEF IInv

LEMMA ClientFailsIInv == ASSUME IInv, NEW g \in H, ClientFails(g) PROVE IInv'
<1> USE DEF mainVars, queueVars, stopVars, sendVars
<1>1. PICK c : c = clients[g][i[g]]
  OBVIOUS
<1>2. /\ pc[g] \in {"serve", "sent", "sending"} /\ i[g] <= Len(clients[g])
      /\ pc' = [pc EXCEPT ![g] = "erase"] /\ fds' = fds \ {sock[c]}
      /\ sock' = [sock EXCEPT ![c] = 0]
      /\ UNCHANGED <<mainVars, queueVars, clients, created, deleted, hasChange, watched,
                     stopVars, i, sendVars>>
  BY <1>1 DEF ClientFails, Serving
<1>3. i[g] \in Taken(g) /\ c \in Conns /\ c \in created \ deleted /\ sock[c] # 0
  <2>1. i[g] \in Taken(g)
    BY <1>2, Lists DEF IInv, Taken
  <2> QED BY <1>1, <1>2, <2>1, Lists DEF IInv, TakenOK
<1>4. pc'[g] = "erase" /\ \A h \in H \ {g} : pc'[h] = pc[h]
  BY <1>2 DEF IInv, TypeOK
<1>5. sock'[c] = 0 /\ \A x \in Conns : x # c => sock'[x] = sock[x]
  BY <1>2, <1>3 DEF IInv, TypeOK
<1>6. Only(g)
  BY <1>2, <1>4 DEF Only
<1>7. \A h \in H : /\ From(h)' = From(h) /\ Draining(h)' = Draining(h)
                   /\ Waiting(h)' = Waiting(h) /\ Taken(h)' = Taken(h)
  BY <1>2, <1>4 DEF From, Draining, Waiting, Taken
<1>8. ASSUME NEW h \in H, NEW n \in Taken(h), ~(h = g /\ n = i[g])
      PROVE  sock'[clients[h][n]] = sock[clients[h][n]]
  <2>1. clients[h][n] # c /\ clients[h][n] \in Conns
    BY <1>1, <1>3, <1>8, Lists DEF IInv, TakenOnce
  <2> QED BY <1>5, <2>1
<1>9. TypeOK'
  <2>1. sock' \in [Conns -> Descriptors \cup {0}] /\ fds' \subseteq Descriptors
    BY <1>2 DEF IInv, TypeOK
  <2> QED BY <1>2, <2>1 DEF IInv, TypeOK
<1>10. MainOK'
  <2>1. ASSUME main = "init", NEW h \in k .. Handlers PROVE pc'[h] = "none"
    <3>1. pc[h] = "none" /\ h \in H
      BY <2>1, Bounds DEF IInv, MainOK, TypeOK, H
    <3> QED BY <1>2, <1>4, <3>1
  <2> QED BY <1>2, <2>1 DEF IInv, MainOK
<1>11. (\A h \in H : HandlerOK(h))'
  <2>1. HandlerOK(g)'
    <3>1. HandlerOK(g)
      BY DEF IInv
    <3> QED BY <1>2, <1>4, <1>7, <3>1 DEF HandlerOK
  <2>2. \A h \in H \ {g} : HandlerOK(h)'
    BY <1>2, <1>6, OthersFrame DEF IInv
  <2> QED BY <2>1, <2>2
<1>12. QueuedOnce' /\ TakenOnce' /\ OwnClientsSafe'
  BY <1>2, <1>7 DEF IInv, QueuedOnce, TakenOnce, OwnClientsSafe
<1>13. WaitingOK'
  <2>1. ASSUME NEW h \in H, NEW n \in Waiting(h) PROVE sock'[joins[h][n]] = sock[joins[h][n]]
    <3>1. joins[h][n] \in Conns /\ joins[h][n] # c
      BY <1>3, Lists DEF IInv, WaitingOK
    <3> QED BY <1>5, <3>1
  <2> QED BY <1>2, <1>7, <2>1 DEF IInv, WaitingOK
<1>14. TakenOK'
  <2>0. created' = created /\ deleted' = deleted /\ clients' = clients /\ i' = i
    BY <1>2
  <2>1. ASSUME NEW h \in H, NEW n \in Taken(h)
        PROVE  sock'[clients[h][n]] = 0 <=> pc'[h] = "erase" /\ n = i[h]
    <3>1. CASE h = g /\ n = i[g]
      BY <1>1, <1>4, <1>5, <3>1
    <3>2. CASE ~(h = g /\ n = i[g])
      <4>1. sock'[clients[h][n]] = sock[clients[h][n]]
        BY <1>8, <3>2
      <4>2. sock[clients[h][n]] = 0 <=> pc[h] = "erase" /\ n = i[h]
        BY DEF IInv, TakenOK
      <4>3. CASE h = g
        BY <1>2, <3>2, <4>1, <4>2, <4>3
      <4>4. CASE h # g
        BY <1>4, <4>1, <4>2, <4>4
      <4> QED BY <4>3, <4>4
    <3> QED BY <3>1, <3>2
  <2>2. \A h \in H : \A n \in Taken(h) : clients[h][n] \in created \ deleted
    BY DEF IInv, TakenOK
  <2> QED BY <1>7, <2>0, <2>1, <2>2 DEF TakenOK
<1>15. ConnsOK'
  <2>1. cur # 0 => sock'[cur] # 0
    <3>1. cur # 0 => cur \in Conns /\ cur # c /\ sock[cur] # 0
      BY <1>3, Bounds DEF IInv, TypeOK, ConnsOK, Conns
    <3> QED BY <1>5, <3>1
  <2>2. \A x \in Conns : x > accepted => sock'[x] = 0
    BY <1>5 DEF IInv, ConnsOK
  <2>3. \A x \in deleted : sock'[x] = 0
    BY <1>5 DEF IInv, TypeOK, ConnsOK
  <2> QED BY <1>2, <1>7, <2>1, <2>2, <2>3 DEF IInv, ConnsOK
<1>16. OwnSocks'
  <2>1. \A x, y \in Conns : sock[x] # 0 /\ sock[x] = sock[y] => x = y
    BY DEF IInv, OwnSocks
  <2>2. \A x, y \in Conns : sock'[x] # 0 /\ sock'[x] = sock'[y] => x = y
    BY <1>5, <2>1
  <2>3. ASSUME NEW x \in Conns, sock'[x] # 0 PROVE sock'[x] \in fds'
    <3>1. x # c /\ sock'[x] = sock[x] /\ sock[x] \in fds
      BY <1>5, <2>3 DEF IInv, OwnSocks
    <3>2. sock[x] # sock[c]
      BY <1>3, <2>1, <3>1
    <3> QED BY <1>2, <3>1, <3>2
  <2>4. ASSUME NEW d \in fds' PROVE \E x \in Conns : sock'[x] = d
    <3>1. PICK x \in Conns : sock[x] = d
      BY <1>2 DEF IInv, OwnSocks
    <3>2. x # c
      BY <1>2, <3>1
    <3> QED BY <1>5, <3>1, <3>2
  <2> QED BY <2>2, <2>3, <2>4 DEF OwnSocks
<1>17. (\A h \in H : WatchOK(h))'
  <2>1. WatchOK(g)'
    BY <1>4 DEF WatchOK
  <2>2. ASSUME NEW h \in H \ {g} PROVE WatchOK(h)'
    <3>1. WatchOK(h) /\ Socks(clients[h])' = Socks(clients[h])
      BY <1>2, <1>8, SocksFrame DEF IInv
    <3> QED BY <1>2, <1>4, <3>1 DEF WatchOK
  <2> QED BY <2>1, <2>2
<1>18. (\A h \in H : AtOK(h))'
  <2>1. \A h \in H : pc'[h] = "send" => pc[h] = "send"
    BY <1>4
  <2> QED BY <1>2, <2>1 DEF IInv, AtOK, Taken
<1> QED BY <1>9, <1>10, <1>11, <1>12, <1>13, <1>14, <1>15, <1>16, <1>17, <1>18 DEF IInv

LEMMA EraseIInv == ASSUME IInv, NEW g \in H, Erase(g) PROVE IInv'
<1> USE DEF mainVars, queueVars, stopVars, sendVars
<1>1. PICK p \in Nat \ {0} : p = i[g]
  BY DEF IInv, TypeOK
<1>2. PICK c : c = clients[g][p]
  OBVIOUS
<1>3. /\ pc[g] = "erase" /\ pc' = [pc EXCEPT ![g] = "serve"]
      /\ deleted' = deleted \cup {c} /\ clients' = [clients EXCEPT ![g] = Erased(@, p)]
      /\ hasChange' = [hasChange EXCEPT ![g] = TRUE]
      /\ UNCHANGED <<mainVars, queueVars, fds, sock, created, watched, stopVars, i, sendVars>>
  BY <1>1, <1>2 DEF Erase, Goto
<1>4. /\ p \in Taken(g) /\ p \in 1 .. Len(clients[g]) /\ Len(clients[g]) \in Nat
      /\ clients[g] \in Seq(Conns) /\ c \in Conns /\ c \in created \ deleted /\ sock[c] = 0
  <2>1. /\ p \in Taken(g) /\ p \in 1 .. Len(clients[g]) /\ Len(clients[g]) \in Nat
        /\ clients[g] \in Seq(Conns)
    BY <1>1, <1>3, Lists DEF IInv, HandlerOK, Taken
  <2> QED BY <1>1, <1>2, <1>3, <2>1, Lists DEF IInv, TakenOK
<1>5. /\ pc'[g] = "serve" /\ hasChange'[g] = TRUE /\ clients'[g] = Erased(clients[g], p)
      /\ \A h \in H \ {g} : /\ pc'[h] = pc[h] /\ hasChange'[h] = hasChange[h]
                            /\ clients'[h] = clients[h]
  BY <1>3 DEF IInv, TypeOK
<1>6. /\ clients'[g] \in Seq(Conns) /\ Len(clients'[g]) = Len(clients[g]) - 1
      /\ \A n \in 1 .. Len(clients[g]) - 1 :
           clients'[g][n] = IF n < p THEN clients[g][n] ELSE clients[g][n + 1]
  <2>1. PICK s \in Seq(Conns) : s = clients[g]
    BY <1>4
  <2>2. p \in 1 .. Len(s)
    BY <1>4, <2>1
  <2>3. /\ Erased(s, p) \in Seq(Conns) /\ Len(Erased(s, p)) = Len(s) - 1
        /\ \A n \in 1 .. Len(s) - 1 :
             Erased(s, p)[n] = IF n < p THEN s[n] ELSE s[n + 1]
    BY <2>2, ErasedIs
  <2> QED BY <1>5, <2>1, <2>3
<1>7. Taken(g)' = 1 .. Len(clients[g]) - 1 /\ Taken(g) = 1 .. Len(clients[g])
  BY <1>6 DEF Taken
<1>8. Only(g)
  BY <1>3, <1>5 DEF Only
<1>9. \A h \in H : From(h)' = From(h) /\ Draining(h)' = Draining(h) /\ Waiting(h)' = Waiting(h)
  BY <1>3, <1>5 DEF From, Draining, Waiting
<1>10. \A h \in H \ {g} : Taken(h)' = Taken(h)
  BY <1>5 DEF Taken
\* Where the clients that stay were.
<1> DEFINE Was(n) == IF n < p THEN n ELSE n + 1
<1>11. ASSUME NEW n \in Taken(g)'
       PROVE  /\ n \in Nat /\ Was(n) \in Taken(g) /\ Was(n) # p
              /\ clients'[g][n] = clients[g][Was(n)]
  <2>1. n \in Nat /\ n \in 1 .. Len(clients[g]) - 1
    BY <1>4, <1>7
  <2>2. Was(n) \in Taken(g) /\ Was(n) # p
    BY <1>1, <1>4, <1>7, <2>1
  <2>3. clients'[g][n] = clients[g][Was(n)]
    BY <1>6, <2>1
  <2> QED BY <2>1, <2>2, <2>3
<1>12. ASSUME NEW n \in Taken(g), n # p
       PROVE  \E m \in Taken(g)' : Was(m) = n
  <2>1. n \in 1 .. Len(clients[g])
    BY <1>7
  <2>2. CASE n < p
    <3>1. n \in 1 .. Len(clients[g]) - 1
      BY <1>1, <1>4, <2>1, <2>2
    <3> QED BY <1>7, <2>2, <3>1
  <2>3. CASE ~(n < p)
    <3>1. n - 1 \in 1 .. Len(clients[g]) - 1 /\ ~(n - 1 < p) /\ (n - 1) + 1 = n
      BY <1>1, <1>4, <1>12, <2>1, <2>3
    <3> QED BY <1>7, <3>1
  <2> QED BY <2>2, <2>3
<1>13. \A n, m \in Taken(g)' : Was(n) = Was(m) => n = m
  BY <1>1, <1>11
<1> HIDE DEF Was
<1>14. \A h \in H : \A n \in Taken(h)' : \E m \in Taken(h) :
          /\ clients'[h][n] = clients[h][m]
          /\ ~(h = g /\ m = p)
  BY <1>5, <1>10, <1>11
<1>15. ASSUME NEW h \in H, NEW m \in Taken(h), ~(h = g /\ m = p)
       PROVE  /\ \E n \in Taken(h)' : clients'[h][n] = clients[h][m]
              /\ clients[h][m] # c
  <2>1. clients[h][m] # c
    BY <1>2, <1>4, <1>15 DEF IInv, TakenOnce
  <2>2. CASE h = g
    <3>1. PICK n \in Taken(g)' : Was(n) = m
      BY <1>12, <1>15, <2>2
    <3> QED BY <1>11, <2>1, <2>2, <3>1
  <2>3. CASE h # g
    BY <1>5, <1>10, <2>1, <2>3
  <2> QED BY <2>2, <2>3
<1>16. TypeOK'
  <2>1. Erased(clients[g], p) \in Seq(Conns)
    BY <1>5, <1>6
  <2>2. clients' \in [H -> Seq(Conns)] /\ hasChange' \in [H -> BOOLEAN]
    BY <1>3, <2>1 DEF IInv, TypeOK
  <2>3. deleted' \subseteq Conns
    BY <1>3, <1>4 DEF IInv, TypeOK
  <2> QED BY <1>3, <2>2, <2>3 DEF IInv, TypeOK
<1>17. MainOK'
  <2>1. ASSUME main = "init", NEW h \in k .. Handlers PROVE pc'[h] = "none"
    <3>1. pc[h] = "none" /\ h \in H
      BY <2>1, Bounds DEF IInv, MainOK, TypeOK, H
    <3> QED BY <1>3, <1>5, <3>1
  <2> QED BY <1>3, <2>1 DEF IInv, MainOK
<1>18. (\A h \in H : HandlerOK(h))'
  <2>1. HandlerOK(g)'
    <3>1. HandlerOK(g) /\ ~stopped[g] /\ g \notin gone
      BY <1>3 DEF IInv, HandlerOK
    <3> QED BY <1>3, <1>5, <1>9, <3>1 DEF HandlerOK
  <2>2. \A h \in H \ {g} : HandlerOK(h)'
    BY <1>3, <1>8, OthersFrame DEF IInv
  <2> QED BY <2>1, <2>2
<1>19. QueuedOnce' /\ WaitingOK' /\ OwnSocks' /\ OwnClientsSafe'
  BY <1>3, <1>9 DEF IInv, QueuedOnce, WaitingOK, OwnSocks, OwnClientsSafe
<1>20. TakenOnce'
  <2> SUFFICES ASSUME NEW h \in H, NEW e \in H, NEW n \in Taken(h)', NEW m \in Taken(e)',
                      clients'[h][n] = clients'[e][m]
               PROVE  h = e /\ n = m
    BY DEF TakenOnce
  <2>1. h = e
    BY <1>14 DEF IInv, TakenOnce
  <2>2. CASE h = g
    <3>1. clients[g][Was(n)] = clients[g][Was(m)] /\ Was(n) \in Taken(g) /\ Was(m) \in Taken(g)
      BY <1>11, <2>1, <2>2
    <3>2. Was(n) = Was(m)
      BY <3>1 DEF IInv, TakenOnce
    <3> QED BY <1>13, <2>1, <2>2, <3>2
  <2>3. CASE h # g
    BY <1>5, <1>10, <2>1, <2>3 DEF IInv, TakenOnce
  <2> QED BY <2>1, <2>2, <2>3
<1>21. TakenOK'
  <2>0. created' = created /\ deleted' = deleted \cup {c} /\ sock' = sock /\ i' = i
    BY <1>3
  <2>1. ASSUME NEW h \in H, NEW n \in Taken(h)'
        PROVE  /\ clients'[h][n] \in created' \ deleted'
               /\ sock'[clients'[h][n]] = 0 <=> pc'[h] = "erase" /\ n = i'[h]
    <3>1. PICK m \in Taken(h) : clients'[h][n] = clients[h][m] /\ ~(h = g /\ m = p)
      BY <1>14
    <3>2. clients[h][m] \in created \ deleted /\ clients[h][m] # c
      BY <1>15, <3>1 DEF IInv, TakenOK
    <3>3. sock[clients[h][m]] = 0 <=> pc[h] = "erase" /\ m = i[h]
      BY <3>1 DEF IInv, TakenOK
    <3>4. clients'[h][n] \in created' \ deleted'
      BY <2>0, <3>1, <3>2
    <3>5. CASE h = g
      <4>1. sock[clients[h][m]] # 0
        BY <1>1, <3>1, <3>3, <3>5
      <4>2. pc'[h] # "erase" /\ sock'[clients'[h][n]] # 0
        BY <1>5, <2>0, <3>1, <3>5, <4>1
      <4> QED BY <3>4, <4>2
    <3>6. CASE h # g
      <4>1. n \in Taken(h) /\ clients'[h][n] = clients[h][n] /\ pc'[h] = pc[h]
        BY <1>5, <1>10, <2>1, <3>6
      <4>2. sock[clients[h][n]] = 0 <=> pc[h] = "erase" /\ n = i[h]
        BY <4>1 DEF IInv, TakenOK
      <4> QED BY <2>0, <3>4, <4>1, <4>2
    <3> QED BY <3>5, <3>6
  <2> QED BY <2>1 DEF TakenOK
<1>22. ConnsOK'
  <2>1. ASSUME NEW x \in created, x \notin deleted'
        PROVE  \E h \in H : \E n \in Taken(h)' : clients'[h][n] = x
    <3>1. PICK h \in H : \E m \in Taken(h) : clients[h][m] = x
      BY <1>3, <2>1 DEF IInv, ConnsOK
    <3>2. PICK m \in Taken(h) : clients[h][m] = x
      BY <3>1
    <3>3. ~(h = g /\ m = p)
      BY <1>2, <1>3, <2>1, <3>2
    <3> QED BY <1>15, <3>2, <3>3
  <2>2. deleted' \subseteq created /\ \A x \in deleted' : sock[x] = 0
    BY <1>3, <1>4 DEF IInv, ConnsOK
  <2> QED BY <1>3, <2>1, <2>2 DEF IInv, ConnsOK
<1>23. (\A h \in H : WatchOK(h))'
  <2>1. WatchOK(g)'
    BY <1>5 DEF WatchOK
  <2>2. ASSUME NEW h \in H \ {g} PROVE WatchOK(h)'
    <3>1. WatchOK(h) /\ Socks(clients[h])' = Socks(clients[h])
      BY <1>3, <1>5, SocksFrame DEF IInv
    <3> QED BY <1>3, <1>5, <3>1 DEF WatchOK
  <2> QED BY <2>1, <2>2
<1>24. (\A h \in H : AtOK(h))'
  <2> SUFFICES ASSUME NEW h \in H, pc'[h] = "send", at'[h] # 0
               PROVE  /\ target'[h] \in H
                      /\ at'[h] \in deleted' => target'[h] # h
                      /\ \/ at'[h] \in deleted'
                         \/ \E n \in 1 .. Len(clients'[target'[h]]) :
                                clients'[target'[h]][n] = at'[h]
    BY DEF AtOK, Taken
  <2>1. h # g /\ pc[h] = "send" /\ at[h] # 0
    BY <1>3, <1>5
  <2>2. PICK f \in H :
          /\ f = target[h]
          /\ at[h] \in deleted => f # h
          /\ at[h] \in deleted \/ \E n \in Taken(f) : clients[f][n] = at[h]
    BY <2>1 DEF IInv, AtOK
  <2>3. at[h] \in deleted' => f # h
    <3>1. \A n \in Taken(h) : clients[h][n] # c
      BY <1>15, <2>1
    <3> QED BY <1>3, <2>2, <3>1
  <2>4. at[h] \in deleted' \/ \E n \in Taken(f)' : clients'[f][n] = at[h]
    <3>1. CASE at[h] \in deleted \/ at[h] = c
      BY <1>3, <3>1
    <3>2. CASE ~(at[h] \in deleted \/ at[h] = c)
      <4>1. PICK m \in Taken(f) : clients[f][m] = at[h]
        BY <2>2, <3>2
      <4>2. ~(f = g /\ m = p)
        BY <1>2, <3>2, <4>1
      <4> QED BY <1>15, <4>1, <4>2
    <3> QED BY <3>1, <3>2
  <2> QED BY <1>3, <2>2, <2>3, <2>4 DEF Taken
<1> QED BY <1>16, <1>17, <1>18, <1>19, <1>20, <1>21, <1>22, <1>23, <1>24 DEF IInv

------------------------------------------------------------------------------
(* The invariant.                                                          *)

LEMMA InitIInv == Init => IInv
<1> SUFFICES ASSUME Init PROVE IInv
  OBVIOUS
<1>1. /\ 0 \in 0 .. MaxConn /\ 1 \in H /\ 1 \in 1 .. Handlers + 1 /\ 0 \in 0 .. Handlers
      /\ 0 \in Nat /\ 1 \in Nat \ {0} /\ << >> \in Seq(Conns) /\ Len(<< >>) = 0
  BY Bounds, EmptySeq
<1>2. TypeOK
  BY <1>1 DEF Init, TypeOK
<1>3. \A h \in H : Waiting(h) = {} /\ Taken(h) = {} /\ From(h) = 1 /\ ~Draining(h)
  BY <1>1 DEF Init, Waiting, Taken, From, Draining
<1>4. MainOK
  <2>1. \A h \in 1 .. Handlers : h \in H
    BY DEF H
  <2> QED BY <2>1, Bounds DEF Init, MainOK
<1>5. \A h \in H : HandlerOK(h)
  <2> TAKE h \in H
  <2>1. 0 = Len(<< >>) + 1 - 1 - 0
    BY <1>1
  <2> QED BY <1>3, <2>1 DEF Init, HandlerOK
<1>6. QueuedOnce /\ TakenOnce /\ WaitingOK /\ TakenOK
  BY <1>3 DEF QueuedOnce, TakenOnce, WaitingOK, TakenOK
<1>7. ConnsOK /\ OwnSocks /\ OwnClientsSafe
  BY DEF Init, ConnsOK, OwnSocks, OwnClientsSafe
<1>8. (\A h \in H : WatchOK(h)) /\ (\A h \in H : AtOK(h))
  BY DEF Init, WatchOK, AtOK
<1> QED BY <1>2, <1>4, <1>5, <1>6, <1>7, <1>8 DEF IInv

LEMMA StutterIInv == IInv /\ UNCHANGED vars => IInv'
<1> SUFFICES ASSUME IInv, UNCHANGED vars PROVE IInv'
  OBVIOUS
<1>1. TypeOK' /\ MainOK'
  BY DEF vars, IInv, TypeOK, MainOK
<1>2. /\ (\A h \in H : HandlerOK(h))' /\ TakenOK' /\ (\A h \in H : WatchOK(h))'
      /\ (\A h \in H : AtOK(h))' /\ OwnClientsSafe' /\ \A h \in H : From(h)' = From(h)
  BY HandlersFrame DEF vars, IInv
<1>3. QueuedOnce' /\ TakenOnce' /\ WaitingOK' /\ ConnsOK' /\ OwnSocks'
  BY <1>2, PlacesFrame DEF vars, IInv
<1> QED BY <1>1, <1>2, <1>3 DEF IInv

LEMMA NextIInv == IInv /\ [Next]_vars => IInv'
<1> SUFFICES ASSUME IInv, [Next]_vars PROVE IInv'
  OBVIOUS
<1>1. CASE Start \/ Accept \/ OnRun \/ CloseServer \/ CloseRest
  BY <1>1, InitServerIInv, MainIInv, AcceptIInv, PushJoinIInv, StopHandlerIInv,
     DeleteHandlerIInv, DeleteQueuesIInv DEF Start, OnRun, CloseRest
<1>2. ASSUME undefined = 0, NEW g \in H, HandleThread(g) PROVE IInv'
  BY <1>2, StopIInv, MovesIInv, LockQueueIInv, JoinUncountIInv, JoinAddIInv, JoinsDoneIInv,
     SelectIInv, SelectErrorIInv, ClientFailsIInv, EraseIInv, BroadcastBeginIInv,
     BroadcastToIInv DEF HandleThread
<1> QED BY <1>1, <1>2, StutterIInv DEF Next

\* The inductive invariant: the place of every connection, what the threads know
\* of their lists, and what the main thread has deleted.
THEOREM ServerInvariant == Spec => []IInv
BY InitIInv, NextIInv, PTL DEF Spec

\* The descriptors open are those of the live connections, each of one of them,
\* for every number of handlers and descriptors (SelectServer_Thread.cpp accepts
\* while its handlers close).
THEOREM DescriptorsOwned == Spec => []OwnDescriptor
<1>1. IInv => OwnDescriptor
  <2> SUFFICES ASSUME IInv PROVE OwnDescriptor
    OBVIOUS
  <2> DEFINE live == {c \in Conns : sock[c] # 0}
  <2>1. \A c, e \in live : sock[c] = sock[e] => c = e
    BY DEF IInv, OwnSocks
  <2>2. \A c \in live : sock[c] \in fds
    BY DEF IInv, OwnSocks
  <2>3. ASSUME NEW d \in fds PROVE \E c \in live : sock[c] = d
    <3>1. PICK c \in Conns : sock[c] = d
      BY DEF IInv, OwnSocks
    <3>2. d # 0
      BY Bounds DEF IInv, TypeOK
    <3> QED BY <3>1, <3>2
  <2>4. {sock[c] : c \in live} = fds
    BY <2>2, <2>3
  <2> QED BY <2>1, <2>4 DEF OwnDescriptor
<1> QED BY <1>1, ServerInvariant, PTL

\* While a handler serves its clients, what it gave to select is their sockets,
\* unless one of them has failed since.
THEOREM SelectSetIsClients == Spec => []WatchedAreClients
<1>1. IInv => WatchedAreClients
  <2> SUFFICES ASSUME IInv, NEW h \in H, ~hasChange[h],
                      pc[h] \in {"serve", "sending", "send", "sent"}
               PROVE  watched[h] = Socks(clients[h]) /\ 0 \notin watched[h]
    BY DEF WatchedAreClients
  <2>1. watched[h] = Socks(clients[h])
    BY DEF IInv, WatchOK
  <2>2. watched[h] \subseteq Descriptors
    BY DEF IInv, TypeOK
  <2> QED BY <2>1, <2>2, Bounds
<1> QED BY <1>1, ServerInvariant, PTL

\* Close closes every connection that a handler has taken over.
THEOREM CloseClosesTaken == Spec => []TakenAreClosed
<1>1. IInv => TakenAreClosed
  <2> SUFFICES ASSUME IInv, main = "closed", NEW c \in created PROVE sock[c] = 0
    BY DEF TakenAreClosed
  <2>1. \A h \in H : clients[h] = << >>
    BY DEF IInv, MainOK, HandlerOK
  <2>2. \A h \in H : Taken(h) = {}
    BY <2>1, Lists DEF IInv
  <2>3. c \in deleted
    BY <2>2 DEF IInv, ConnsOK
  <2> QED BY <2>3 DEF IInv, ConnsOK
<1> QED BY <1>1, ServerInvariant, PTL

\* A Broadcast meets no deleted object in the list of the thread that calls it.
THEOREM OwnListIsSafe == Spec => []OwnClientsSafe
<1>1. IInv => OwnClientsSafe
  BY DEF IInv
<1> QED BY <1>1, ServerInvariant, PTL

\* What waits in a queue.
LEMMA QueuedIs ==
    ASSUME TypeOK, NEW h \in H, HandlerOK(h)
    PROVE  /\ DOMAIN Queued(h) = 1 .. Len(joins[h]) + 1 - From(h)
           /\ \A n \in DOMAIN Queued(h) :
                /\ n + From(h) - 1 \in Waiting(h)
                /\ Queued(h)[n] = joins[h][n + From(h) - 1]
<1>1. /\ joins[h] \in Seq(Conns) /\ Len(joins[h]) \in Nat /\ From(h) \in Nat \ {0}
      /\ DOMAIN joins[h] = 1 .. Len(joins[h]) /\ i[h] \in Nat \ {0}
  <2>1. joins[h] \in Seq(Conns) /\ Len(joins[h]) \in Nat /\ From(h) \in Nat \ {0}
        /\ i[h] \in Nat \ {0}
    BY Lists
  <2> QED BY <2>1, LenProperties
<1>2. CASE Draining(h)
  <2>1. From(h) = i[h] /\ i[h] <= Len(joins[h]) + 1
    <3>1. pc[h] = "join" => i[h] <= Len(joins[h])
      BY DEF HandlerOK
    <3>2. i[h] <= Len(joins[h]) => i[h] <= Len(joins[h]) + 1
      BY <1>1
    <3> QED BY <1>2, <3>1, <3>2 DEF HandlerOK, Draining, From
  <2>2. PICK s \in Seq(Conns) : s = joins[h]
    BY <1>1
  <2>3. PICK p \in Nat \ {0} : p = i[h]
    BY <1>1
  <2>4. Queued(h) = SubSeq(s, p, Len(s))
    BY <1>2, <2>2, <2>3 DEF Queued, Draining
  <2>5. /\ p \in 1 .. Len(s) + 1 /\ Len(s) \in Nat
        /\ \A n \in p .. Len(s) : s[n] \in Conns
    BY <1>1, <2>1, <2>2, <2>3, ElementOfSeq
  <2>6. /\ DOMAIN SubSeq(s, p, Len(s)) = 1 .. Len(s) + 1 - p
        /\ \A n \in 1 .. Len(s) + 1 - p : SubSeq(s, p, Len(s))[n] = s[n + p - 1]
    BY <2>5
  <2>7. \A n \in 1 .. Len(s) + 1 - p : n + p - 1 \in p .. Len(s)
    BY <2>5
  <2> QED BY <2>1, <2>2, <2>3, <2>4, <2>6, <2>7 DEF Waiting
<1>3. CASE ~Draining(h)
  <2>1. Queued(h) = joins[h] /\ From(h) = 1
    BY <1>3 DEF Queued, Draining, From
  <2>2. \A n \in 1 .. Len(joins[h]) : n + 1 - 1 = n
    BY <1>1
  <2>3. Len(joins[h]) + 1 - 1 = Len(joins[h])
    BY <1>1
  <2> QED BY <1>1, <2>1, <2>2, <2>3 DEF Waiting
<1> QED BY <1>2, <1>3

\* A connection is in one place: in the main thread's hands, in one queue or in
\* one handler's list, once; and the state is well typed.
THEOREM ConnectionHasOnePlace == Spec => []OnePlace
<1>1. IInv => OnePlace
  <2> SUFFICES ASSUME IInv, NEW c \in Conns
               PROVE  Cardinality(InHand(c) \cup InQueue(c) \cup InList(c)) <= 1
    BY DEF OnePlace, IInv
  <2> DEFINE P == InHand(c) \cup InQueue(c) \cup InList(c)
  <2>1. ASSUME NEW x \in P
        PROVE  \/ x = <<"main", 0, 0>> /\ cur = c
               \/ \E h \in H : \E n \in DOMAIN Queued(h) :
                     x = <<"queue", h, n>> /\ Queued(h)[n] = c
               \/ \E h \in H : \E n \in Taken(h) :
                     x = <<"list", h, n>> /\ clients[h][n] = c
    <3>1. \A h \in H : DOMAIN clients[h] = Taken(h)
      BY Lists DEF IInv
    <3>2. CASE x \in InHand(c)
      BY <3>2 DEF InHand
    <3>3. CASE x \in InQueue(c)
      <4>1. PICK h \in H : \E n \in Entries(Queued(h), c) : x = <<"queue", h, n>>
        BY <3>3 DEF InQueue
      <4> QED BY <4>1 DEF Entries
    <3>4. CASE x \in InList(c)
      <4>1. PICK h \in H : \E n \in Entries(clients[h], c) : x = <<"list", h, n>>
        BY <3>4 DEF InList
      <4> QED BY <3>1, <4>1 DEF Entries
    <3> QED BY <2>1, <3>2, <3>3, <3>4
  <2> HIDE DEF P
  <2>2. ASSUME NEW h \in H, NEW n \in DOMAIN Queued(h), Queued(h)[n] = c
        PROVE  /\ n \in Nat /\ n + From(h) - 1 \in Waiting(h)
               /\ joins[h][n + From(h) - 1] = c /\ c # cur /\ c \notin created
    <3>1. /\ DOMAIN Queued(h) = 1 .. Len(joins[h]) + 1 - From(h)
          /\ n + From(h) - 1 \in Waiting(h) /\ Queued(h)[n] = joins[h][n + From(h) - 1]
      BY QueuedIs DEF IInv
    <3> QED BY <2>2, <3>1 DEF IInv, WaitingOK
  <2>3. ASSUME NEW h \in H, NEW n \in Taken(h), clients[h][n] = c
        PROVE  c \in created /\ c # cur
    BY <2>3 DEF IInv, TakenOK, ConnsOK
  <2>4. ASSUME NEW h \in H, NEW n \in DOMAIN Queued(h), Queued(h)[n] = c,
               NEW g \in H, NEW m \in DOMAIN Queued(g), Queued(g)[m] = c
        PROVE  h = g /\ n = m
    <3>1. h = g /\ n + From(h) - 1 = m + From(g) - 1
      BY <2>2, <2>4 DEF IInv, QueuedOnce
    <3>2. n \in Nat /\ m \in Nat /\ From(h) \in Nat
      BY <2>2, <2>4, Lists DEF IInv
    <3> QED BY <3>1, <3>2
  <2>5. \A h, g \in H : \A n \in Taken(h), m \in Taken(g) :
            clients[h][n] = c /\ clients[g][m] = c => h = g /\ n = m
    BY DEF IInv, TakenOnce
  <2>6. \A x, y \in P : x = y
    BY <2>1, <2>2, <2>3, <2>4, <2>5
  <2>7. ASSUME P = {} PROVE Cardinality(P) <= 1
    BY <2>7, FS_EmptySet
  <2>8. ASSUME P # {} PROVE Cardinality(P) <= 1
    <3>1. PICK x : x \in P
      BY <2>8
    <3>2. P = {x}
      BY <2>6, <3>1
    <3>3. Cardinality({x}) = 1
      BY FS_Singleton
    <3> QED BY <3>2, <3>3
  <2>9. Cardinality(P) <= 1
    BY <2>7, <2>8
  <2> QED BY <2>9 DEF P
<1> QED BY <1>1, ServerInvariant, PTL
==============================================================================
