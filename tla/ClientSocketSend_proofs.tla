----------------------- MODULE ClientSocketSend_proofs -----------------------
(***************************************************************************)
(* Proofs about ClientSocketSend, for every size of the buffer, limit,     *)
(* number of threads and lengths of messages: the stream is the            *)
(* concatenation of the messages, every pool unit is freed once and not    *)
(* before it was copied, and the backlog is bounded.                       *)
(***************************************************************************)
EXTENDS ClientSocketSend, SequenceTheorems, TLAPS

Elems(q) == {q[j] : j \in DOMAIN q}

\* A sender has a message from its check of the socket until it has linked it.
Busy == {s \in Senders : sender[s] # "idle"}
Linked == {m \in 1 .. sent : \A s \in Busy : msg[s] # m}

\* A message is in the hands of one thread or was linked, and is queued once.
IdsOK ==
    /\ \A s \in Busy : msg[s] \in 1 .. sent
    /\ \A s, t \in Busy : msg[s] = msg[t] => s = t
    /\ Elems(queue) \subseteq Linked
    /\ \A j, k \in DOMAIN queue : queue[j] = queue[k] => j = k

\* The message counted and not linked is that of the sender in between.
CountedOK ==
    /\ counted # 0 => \E s \in Senders : sender[s] = "counted"
    /\ \A s \in Senders : sender[s] = "counted" => counted = msg[s]

\* The queued messages follow one another in the stream of all messages.
QueueOK ==
    /\ \A j \in DOMAIN queue :
          at[queue[j]] + len[queue[j]]
            = IF j = Len(queue) THEN pushed ELSE at[queue[j + 1]]

\* What has been copied, whether the kernel took it or not.
stream == wire \o ioSend

StreamOK ==
    \A j \in DOMAIN stream :
        stream[j][1] \in Linked /\ j = at[stream[j][1]] + stream[j][2]

\* The stream ends where the message _oMsg reads has come to, or where the next
\* message begins; what has been read of _oMsg is its end.
ReadOK ==
    open =>
      IF oMsg = 0
      THEN Len(stream) = IF queue = << >> THEN pushed ELSE at[queue[1]]
      ELSE /\ queue # << >> /\ oMsg = queue[1] /\ oPos <= len[oMsg]
           /\ Len(stream) = at[oMsg] + oPos
           /\ \A j \in 1 .. oPos : at[oMsg] + j <= Len(stream)
                                   /\ stream[at[oMsg] + j] = <<oMsg, j>>

\* Where the handler is.
PlaceOK ==
    /\ ~open => \/ pc = "clear"
                \/ pc = "idle" /\ oMsg = 0
    /\ pc = "clear" => ~open
    /\ oMsg = 0 => oPos = 0
    /\ pc \in {"next", "flush"} => oMsg = 0
    /\ pc = "copy" => canWrite <= SEND_BUF - Len(ioSend)
    /\ pc = "full" => canWrite = 0

BacklogOK ==
    /\ BacklogBounded
    /\ pc = "flush" => Len(queue) <= since

IInv ==
    /\ TypeOK /\ IdsOK /\ CountedOK /\ UnitsAccounted /\ QueueOK /\ StreamOK /\ ReadOK
    /\ PlaceOK /\ BacklogOK
------------------------------------------------------------------------------
(* Sequences.                                                              *)

LEMMA AppendElems ==
    ASSUME NEW S, NEW q \in Seq(S), NEW x \in S
    PROVE  /\ Append(q, x) \in Seq(S) /\ Len(Append(q, x)) = Len(q) + 1
           /\ \A j \in 1 .. Len(q) : Append(q, x)[j] = q[j]
           /\ Append(q, x)[Len(q) + 1] = x
           /\ Elems(Append(q, x)) = Elems(q) \cup {x}
<1>1. /\ Append(q, x) \in Seq(S) /\ Len(Append(q, x)) = Len(q) + 1
      /\ \A j \in 1 .. Len(q) : Append(q, x)[j] = q[j]
      /\ Append(q, x)[Len(q) + 1] = x
  BY AppendProperties
<1>2. DOMAIN q = 1 .. Len(q) /\ DOMAIN Append(q, x) = 1 .. Len(q) + 1 /\ Len(q) \in Nat
  BY <1>1, LenProperties
<1>3. Elems(Append(q, x)) = Elems(q) \cup {x}
  <2>1. ASSUME NEW y \in Elems(Append(q, x)) PROVE y \in Elems(q) \cup {x}
    <3>1. PICK j \in 1 .. Len(q) + 1 : y = Append(q, x)[j]
      BY <1>2 DEF Elems
    <3>2. CASE j = Len(q) + 1
      BY <1>1, <3>1, <3>2
    <3>3. CASE j \in 1 .. Len(q)
      BY <1>1, <1>2, <3>1, <3>3 DEF Elems
    <3> QED BY <1>2, <3>2, <3>3
  <2>2. ASSUME NEW j \in 1 .. Len(q) PROVE q[j] \in Elems(Append(q, x))
    <3>1. j \in 1 .. Len(q) + 1
      BY <1>2
    <3> QED BY <1>1, <1>2, <3>1 DEF Elems
  <2>3. x \in Elems(Append(q, x))
    <3>1. Len(q) + 1 \in 1 .. Len(q) + 1
      BY <1>2
    <3> QED BY <1>1, <1>2, <3>1 DEF Elems
  <2> QED BY <1>2, <2>1, <2>2, <2>3 DEF Elems
<1> QED BY <1>1, <1>3

LEMMA TailElems ==
    ASSUME NEW S, NEW q \in Seq(S), q # << >>,
           \A j, k \in DOMAIN q : q[j] = q[k] => j = k
    PROVE  /\ Tail(q) \in Seq(S) /\ Len(Tail(q)) = Len(q) - 1 /\ Len(q) \in Nat \ {0}
           /\ \A j \in 1 .. Len(q) - 1 : Tail(q)[j] = q[j + 1]
           /\ Head(q) = q[1] /\ q[1] \in Elems(q)
           /\ Elems(Tail(q)) = Elems(q) \ {Head(q)}
<1>1. /\ Tail(q) \in Seq(S) /\ Len(Tail(q)) = Len(q) - 1
      /\ \A j \in 1 .. Len(Tail(q)) : Tail(q)[j] = q[j + 1]
  BY HeadTailProperties
<1>2. DOMAIN q = 1 .. Len(q) /\ Len(q) \in Nat \ {0} /\ DOMAIN Tail(q) = 1 .. Len(q) - 1
  BY <1>1, LenProperties, EmptySeq
<1>3. Head(q) = q[1] /\ 1 \in 1 .. Len(q)
  BY <1>2
<1>4. Elems(Tail(q)) = Elems(q) \ {Head(q)}
  <2>1. ASSUME NEW j \in 1 .. Len(q) - 1 PROVE Tail(q)[j] \in Elems(q) \ {Head(q)}
    <3>1. Tail(q)[j] = q[j + 1] /\ j + 1 \in 1 .. Len(q) /\ j + 1 # 1
      BY <1>1, <1>2
    <3> QED BY <1>2, <1>3, <3>1 DEF Elems
  <2>2. ASSUME NEW j \in 1 .. Len(q), q[j] # Head(q) PROVE q[j] \in Elems(Tail(q))
    <3>1. j # 1
      BY <1>3, <2>2
    <3>2. j - 1 \in 1 .. Len(q) - 1 /\ (j - 1) + 1 = j
      BY <1>2, <3>1
    <3>3. Tail(q)[j - 1] = q[(j - 1) + 1]
      BY <1>1, <3>2
    <3> QED BY <1>2, <3>2, <3>3 DEF Elems
  <2> QED BY <1>2, <2>1, <2>2 DEF Elems
<1> QED BY <1>1, <1>2, <1>3, <1>4 DEF Elems

\* The stream after the kernel took n bytes of the buffer b, and what is left of it.
Taken(w, b, n) == w \o SubSeq(b, 1, n)
Rest(b, n) == SubSeq(b, n + 1, Len(b))

LEMMA Regroup ==
    ASSUME NEW S, NEW x \in Seq(S), NEW y \in Seq(S), NEW z \in Seq(S)
    PROVE  (x \o y) \o z = x \o (y \o z)
BY ConcatAssociative

\* What the kernel takes from the buffer stays in the stream.
LEMMA TakenStays ==
    ASSUME NEW S, NEW w \in Seq(S), NEW b \in Seq(S), NEW n \in 1 .. Len(b)
    PROVE  /\ Taken(w, b, n) \in Seq(S) /\ Rest(b, n) \in Seq(S)
           /\ Len(Rest(b, n)) = Len(b) - n
           /\ Taken(w, b, n) \o Rest(b, n) = w \o b
<1>1. Len(b) \in Nat /\ b \in [1 .. Len(b) -> S]
  BY LenProperties
<1>3. PICK u : u = SubSeq(b, 1, n)
  OBVIOUS
<1>4. PICK v : v = SubSeq(b, n + 1, Len(b))
  OBVIOUS
<1>5. u \in Seq(S)
  <2>1. \A j \in 1 .. n : b[j] \in S
    BY <1>1
  <2> QED BY <1>3, <2>1, SubSeqProperties
<1>6. v \in Seq(S) /\ Len(v) = Len(b) - n
  <2>1. \A j \in n + 1 .. Len(b) : b[j] \in S
    BY <1>1
  <2>2. v \in Seq(S) /\ Len(v) = IF n + 1 <= Len(b) THEN Len(b) - (n + 1) + 1 ELSE 0
    BY <1>1, <1>4, <2>1, SubSeqProperties
  <2>3. ASSUME NEW x \in Nat, NEW y \in 1 .. x
        PROVE  (IF y + 1 <= x THEN x - (y + 1) + 1 ELSE 0) = x - y
    OBVIOUS
  <2> QED BY <1>1, <2>2, <2>3
<1>7. u \o v = SubSeq(b, 1, Len(b))
  <2>1. 1 \in 1 .. Len(b) + 1 /\ n \in 1 - 1 .. Len(b) /\ Len(b) \in n .. Len(b)
    BY <1>1
  <2> QED BY <1>3, <1>4, <2>1, ConcatAdjacentSubSeq
<1>8. u \o v = b
  BY <1>7, SubSeqFull
<1>9. w \o u \in Seq(S)
  BY <1>5, ConcatProperties
<1>10. Taken(w, b, n) = w \o u /\ Rest(b, n) = v
  BY <1>3, <1>4 DEF Taken, Rest
<1>11. (w \o u) \o v = w \o b
  <2>1. (w \o u) \o v = w \o (u \o v)
    BY <1>5, <1>6, Regroup, SMTT(60)
  <2> QED BY <1>8, <2>1
<1> QED BY <1>6, <1>9, <1>10, <1>11

------------------------------------------------------------------------------
(* The parts of the invariant.                                             *)

LEMMA LinkedFacts ==
    ASSUME IInv
    PROVE  /\ sent \in 0 .. MaxMsgs /\ MaxMsgs \in Nat
           /\ Linked \subseteq Ids
           /\ \A j \in 1 .. Len(queue) : queue[j] \in Linked
           /\ DOMAIN queue = 1 .. Len(queue) /\ Len(queue) \in Nat
<1>1. sent \in 0 .. MaxMsgs /\ MaxMsgs \in Nat
  BY SendAssumption DEF IInv, TypeOK
<1>2. Linked \subseteq Ids
  BY <1>1 DEF Linked, Ids
<1>3. DOMAIN queue = 1 .. Len(queue) /\ Len(queue) \in Nat
  BY LenProperties DEF IInv, TypeOK
<1>4. \A j \in 1 .. Len(queue) : queue[j] \in Linked
  BY <1>3 DEF IInv, IdsOK, Elems
<1> QED BY <1>1, <1>2, <1>3, <1>4

LEMMA StreamFacts ==
    ASSUME TypeOK
    PROVE  /\ stream \in Seq(Bytes) /\ Len(stream) = Len(wire) + Len(ioSend)
           /\ Len(stream) \in Nat /\ DOMAIN stream = 1 .. Len(stream)
           /\ Len(wire) \in Nat /\ DOMAIN wire = 1 .. Len(wire)
           /\ \A j \in 1 .. Len(wire) : stream[j] = wire[j]
<1>1. wire \in Seq(Bytes) /\ ioSend \in Seq(Bytes)
  BY DEF TypeOK
<1>2. /\ Len(wire) \in Nat /\ Len(ioSend) \in Nat
      /\ DOMAIN wire = 1 .. Len(wire)
  BY <1>1, LenProperties
<1>3. /\ stream \in Seq(Bytes) /\ Len(stream) = Len(wire) + Len(ioSend)
      /\ \A j \in 1 .. Len(wire) + Len(ioSend) :
            stream[j] = IF j <= Len(wire) THEN wire[j] ELSE ioSend[j - Len(wire)]
  BY <1>1, ConcatProperties DEF stream
<1>4. Len(stream) \in Nat /\ DOMAIN stream = 1 .. Len(stream)
  BY <1>3, LenProperties
<1>5. \A j \in 1 .. Len(wire) : j \in 1 .. Len(wire) + Len(ioSend) /\ j <= Len(wire)
  BY <1>2
<1> QED BY <1>2, <1>3, <1>4, <1>5

\* What only the senders and the queue are concerned with.
LEMMA QueueFrame ==
    ASSUME IInv, UNCHANGED <<queue, counted, held, senders, len, at, pushed, sent>>
    PROVE  /\ IdsOK' /\ CountedOK' /\ UnitsAccounted' /\ QueueOK'
           /\ Linked' = Linked
           /\ UNCHANGED <<wire, ioSend>> => StreamOK'
<1>1. UNCHANGED <<Busy, Linked>>
  BY DEF Busy, Linked, senders
<1>2. IdsOK'
  BY <1>1 DEF IInv, IdsOK, Elems, senders
<1>3. CountedOK' /\ UnitsAccounted' /\ QueueOK'
  BY DEF IInv, CountedOK, UnitsAccounted, QueueOK, senders
<1>4. UNCHANGED <<wire, ioSend>> => StreamOK'
  BY <1>1 DEF IInv, StreamOK, stream
<1> QED BY <1>1, <1>2, <1>3, <1>4

LEMMA LinkKeeps ==
    ASSUME IInv, NEW m \in Ids, NEW n \in Nat, Link(m, n),
           m \notin Linked, Linked' = Linked \cup {m},
           len' \in [Ids -> Nat], len'[m] = n, \A x \in Ids \ {m} : len'[x] = len[x],
           UNCHANGED <<open, pc, buffers>>
    PROVE  /\ queue' \in Seq(Ids) /\ at' \in [Ids -> Nat]
           /\ pushed' \in Nat /\ since' \in Nat
           /\ Elems(queue') = Elems(queue) \cup {m}
           /\ \A j, k \in DOMAIN queue' : queue'[j] = queue'[k] => j = k
           /\ QueueOK' /\ StreamOK' /\ ReadOK' /\ PlaceOK' /\ BacklogOK'
<1> USE DEF IInv
<1>0. /\ queue \in Seq(Ids) /\ at \in [Ids -> Nat] /\ pushed \in Nat /\ since \in Nat
      /\ len \in [Ids -> Nat] /\ oMsg \in 0 .. MaxMsgs /\ oPos \in Nat
  BY DEF TypeOK
<1>1. /\ queue' = Append(queue, m) /\ at' = [at EXCEPT ![m] = pushed]
      /\ pushed' = pushed + n /\ since' = since + 1
  BY DEF Link
<1>2. /\ Linked \subseteq Ids /\ DOMAIN queue = 1 .. Len(queue) /\ Len(queue) \in Nat
      /\ \A j \in 1 .. Len(queue) : queue[j] \in Linked
  BY LinkedFacts
<1>3. /\ queue' \in Seq(Ids) /\ Len(queue') = Len(queue) + 1
      /\ \A j \in 1 .. Len(queue) : queue'[j] = queue[j]
      /\ queue'[Len(queue) + 1] = m
      /\ Elems(queue') = Elems(queue) \cup {m}
  BY <1>0, <1>1, AppendElems
<1>4. DOMAIN queue' = 1 .. Len(queue) + 1
  BY <1>3, LenProperties
<1>5. /\ at'[m] = pushed
      /\ \A x \in Linked : x # m /\ at'[x] = at[x] /\ len'[x] = len[x]
  BY <1>0, <1>1, <1>2
<1>6. at' \in [Ids -> Nat] /\ pushed' \in Nat /\ since' \in Nat
  BY <1>0, <1>1
<1>7. \A j, k \in DOMAIN queue' : queue'[j] = queue'[k] => j = k
  <2>1. ASSUME NEW j \in 1 .. Len(queue) + 1, NEW k \in 1 .. Len(queue) + 1,
               queue'[j] = queue'[k]
        PROVE  j = k
    <3>1. CASE j \in 1 .. Len(queue) /\ k \in 1 .. Len(queue)
      BY <1>2, <1>3, <2>1, <3>1 DEF IdsOK
    <3>2. CASE j = Len(queue) + 1 \/ k = Len(queue) + 1
      <4>1. \A i \in 1 .. Len(queue) : queue'[i] # m
        BY <1>2, <1>3, <1>5
      <4> QED BY <1>2, <1>3, <2>1, <3>2, <4>1
    <3> QED BY <1>2, <3>1, <3>2
  <2> QED BY <1>4, <2>1
<1>8. QueueOK'
  <2>0. Len(queue) \in Nat /\ Len(queue') = Len(queue) + 1
    BY <1>2, <1>3
  <2>1. ASSUME NEW j \in 1 .. Len(queue) + 1
        PROVE  at'[queue'[j]] + len'[queue'[j]]
                 = IF j = Len(queue') THEN pushed' ELSE at'[queue'[j + 1]]
    <3>1. CASE j = Len(queue) + 1
      BY <1>1, <1>3, <1>5, <3>1
    <3>2. CASE j = Len(queue)
      <4>1. j \in 1 .. Len(queue) /\ j # Len(queue')
        BY <2>0, <3>2
      <4>2. at[queue[j]] + len[queue[j]] = pushed
        BY <1>2, <3>2, <4>1 DEF QueueOK
      <4>3. at'[queue'[j]] = at[queue[j]] /\ len'[queue'[j]] = len[queue[j]]
        BY <1>2, <1>3, <1>5, <4>1
      <4>4. at'[queue'[j + 1]] = pushed
        BY <1>3, <1>5, <3>2
      <4> QED BY <4>1, <4>2, <4>3, <4>4
    <3>3. CASE j \in 1 .. Len(queue) - 1
      <4>1. /\ j \in 1 .. Len(queue) /\ j # Len(queue') /\ j # Len(queue)
            /\ j + 1 \in 1 .. Len(queue)
        BY <2>0, <3>3
      <4>2. at[queue[j]] + len[queue[j]] = at[queue[j + 1]]
        BY <1>2, <4>1 DEF QueueOK
      <4>3. at'[queue'[j]] = at[queue[j]] /\ len'[queue'[j]] = len[queue[j]]
        BY <1>2, <1>3, <1>5, <4>1
      <4>4. at'[queue'[j + 1]] = at[queue[j + 1]]
        BY <1>2, <1>3, <1>5, <4>1
      <4> QED BY <4>1, <4>2, <4>3, <4>4
    <3>4. j = Len(queue) + 1 \/ j = Len(queue) \/ j \in 1 .. Len(queue) - 1
      BY <2>0
    <3> QED BY <3>1, <3>2, <3>3, <3>4
  <2> QED BY <1>4, <2>1 DEF QueueOK
<1>9. stream' = stream
  BY DEF stream, buffers
<1>10. StreamOK'
  BY <1>5, <1>9 DEF StreamOK
<1>11. ReadOK'
  <2>0. SUFFICES ASSUME open PROVE ReadOK'
    BY DEF ReadOK
  <2>1. open /\ oMsg' = oMsg /\ oPos' = oPos
    BY <2>0 DEF buffers
  <2>2. queue' # << >> /\ 1 \in 1 .. Len(queue) + 1
    BY <1>1, <1>0, <1>2, AppendProperties
  <2>3. CASE oMsg = 0 /\ queue = << >>
    <3>1. queue'[1] = m
      BY <1>3, <2>3
    <3> QED BY <1>5, <1>9, <2>1, <2>2, <2>3, <3>1 DEF ReadOK
  <2>4. CASE oMsg = 0 /\ queue # << >>
    <3>1. 1 \in 1 .. Len(queue)
      BY <1>0, <1>2, <2>4, EmptySeq
    <3>2. queue'[1] = queue[1] /\ at'[queue[1]] = at[queue[1]]
      BY <1>2, <1>3, <1>5, <3>1
    <3> QED BY <1>9, <2>1, <2>2, <2>4, <3>2 DEF ReadOK
  <2>5. CASE oMsg # 0
    <3>1. queue # << >> /\ oMsg = queue[1]
      BY <2>1, <2>5 DEF ReadOK
    <3>2. 1 \in 1 .. Len(queue)
      BY <1>0, <1>2, <3>1, EmptySeq
    <3>3. queue'[1] = oMsg /\ at'[oMsg] = at[oMsg] /\ len'[oMsg] = len[oMsg]
      BY <1>2, <1>3, <1>5, <3>1, <3>2
    <3> QED BY <1>9, <2>1, <2>2, <2>5, <3>3 DEF ReadOK
  <2> QED BY <2>3, <2>4, <2>5
<1>12. PlaceOK'
  BY DEF PlaceOK, buffers
<1>13. BacklogOK'
  <2>1. Len(queue') = Len(queue) + 1 /\ since' = since + 1 /\ LIMIT \in Nat
    BY <1>1, <1>3, SendAssumption
  <2> QED BY <1>0, <1>2, <2>1 DEF BacklogOK, BacklogBounded
<1> QED BY <1>3, <1>6, <1>7, <1>8, <1>10, <1>11, <1>12, <1>13

LEMMA PopKeeps ==
    ASSUME IInv, PopAndFree, UNCHANGED <<counted, senders, len, at, pushed, sent>>
    PROVE  /\ queue' \in Seq(Ids) /\ held' \subseteq Ids
           /\ IdsOK' /\ CountedOK' /\ UnitsAccounted' /\ QueueOK'
           /\ Linked' = Linked
           /\ queue # << >> /\ Head(queue) = queue[1]
           /\ at[queue[1]] + len[queue[1]]
                = IF queue' = << >> THEN pushed ELSE at[queue'[1]]
           /\ Len(queue') <= Len(queue) /\ Len(queue') \in Nat
<1> USE DEF IInv
<1>1. queue \in Seq(Ids) /\ held \subseteq Ids
  BY DEF TypeOK
<1>2. queue # << >> /\ queue' = Tail(queue) /\ held' = held \ {Head(queue)}
  BY DEF PopAndFree
<1>3. \A j, k \in DOMAIN queue : queue[j] = queue[k] => j = k
  BY DEF IdsOK
<1>4. /\ queue' \in Seq(Ids) /\ Len(queue') = Len(queue) - 1
      /\ \A j \in 1 .. Len(queue) - 1 : queue'[j] = queue[j + 1]
      /\ Head(queue) = queue[1] /\ queue[1] \in Elems(queue)
      /\ Elems(queue') = Elems(queue) \ {Head(queue)}
  BY <1>1, <1>2, <1>3, TailElems
<1>5. Len(queue) \in Nat \ {0} /\ Len(queue') = Len(queue) - 1
  BY <1>1, <1>2, <1>4, EmptySeq
<1>6. DOMAIN queue = 1 .. Len(queue) /\ DOMAIN queue' = 1 .. Len(queue) - 1
  BY <1>1, <1>4, LenProperties
<1>7. UNCHANGED <<Busy, Linked>>
  BY DEF Busy, Linked, senders
<1>8. IdsOK'
  <2>1. Elems(queue') \subseteq Linked
    BY <1>4 DEF IdsOK
  <2>2. ASSUME NEW j \in 1 .. Len(queue) - 1, NEW k \in 1 .. Len(queue) - 1,
               queue'[j] = queue'[k]
        PROVE  j = k
    <3>1. j + 1 \in 1 .. Len(queue) /\ k + 1 \in 1 .. Len(queue)
      BY <1>5
    <3>2. queue[j + 1] = queue[k + 1]
      BY <1>4, <2>2
    <3>3. j + 1 = k + 1
      BY <1>3, <1>6, <3>1, <3>2
    <3> QED BY <3>3
  <2>3. \A j, k \in DOMAIN queue' : queue'[j] = queue'[k] => j = k
    BY <1>6, <2>2
  <2>4. /\ \A s \in Busy : msg[s] \in 1 .. sent
        /\ \A s, t \in Busy : msg[s] = msg[t] => s = t
    BY DEF IdsOK
  <2> QED BY <1>7, <2>1, <2>3, <2>4 DEF IdsOK, senders
<1>9. CountedOK'
  BY DEF CountedOK, senders
<1>10. UnitsAccounted'
  <2> DEFINE M == {msg[s] : s \in {t \in Senders : sender[t] \in {"filled", "counted"}}}
  <2>1. Head(queue) \in Linked
    BY <1>4 DEF IdsOK
  <2>2. Head(queue) \notin M
    BY <2>1 DEF Linked, Busy
  <2>3. held = Elems(queue) \cup M
    BY DEF UnitsAccounted, Elems
  <2>4. held' = Elems(queue') \cup M
    BY <1>2, <1>4, <2>2, <2>3
  <2>5. M' = M
    BY DEF senders
  <2> QED BY <2>4, <2>5 DEF UnitsAccounted, Elems
<1>11. QueueOK'
  <2>1. ASSUME NEW j \in 1 .. Len(queue) - 1
        PROVE  at[queue'[j]] + len[queue'[j]]
                 = IF j = Len(queue') THEN pushed ELSE at[queue'[j + 1]]
    <3>1. j + 1 \in 1 .. Len(queue) /\ (j + 1 = Len(queue) <=> j = Len(queue'))
      BY <1>5
    <3>2. queue'[j] = queue[j + 1]
      BY <1>4
    <3>3. at[queue[j + 1]] + len[queue[j + 1]]
            = IF j + 1 = Len(queue) THEN pushed ELSE at[queue[(j + 1) + 1]]
      BY <1>6, <3>1 DEF QueueOK
    <3>4. CASE j = Len(queue')
      BY <3>1, <3>2, <3>3, <3>4
    <3>5. CASE j # Len(queue')
      <4>1. j + 1 \in 1 .. Len(queue) - 1
        BY <1>5, <3>5
      <4>2. queue'[j + 1] = queue[(j + 1) + 1]
        BY <1>4, <4>1
      <4> QED BY <3>1, <3>2, <3>3, <3>5, <4>2
    <3> QED BY <3>4, <3>5
  <2> QED BY <1>6, <2>1 DEF QueueOK
<1>12. at[queue[1]] + len[queue[1]] = IF queue' = << >> THEN pushed ELSE at[queue'[1]]
  <2>1. 1 \in 1 .. Len(queue)
    BY <1>5
  <2>2. at[queue[1]] + len[queue[1]]
          = IF 1 = Len(queue) THEN pushed ELSE at[queue[1 + 1]]
    BY <1>6, <2>1 DEF QueueOK
  <2>3. CASE queue' = << >>
    <3>1. Len(queue') = 0
      BY <2>3
    <3>2. Len(queue) = 1
      BY <1>5, <3>1
    <3> QED BY <2>2, <2>3, <3>2
  <2>4. CASE queue' # << >>
    <3>1. Len(queue') \in Nat \ {0}
      BY <1>4, <2>4, EmptySeq
    <3>2. 1 \in 1 .. Len(queue) - 1 /\ Len(queue) # 1
      BY <1>5, <3>1
    <3>3. queue'[1] = queue[1 + 1]
      BY <1>4, <3>2
    <3> QED BY <2>2, <2>4, <3>2, <3>3
  <2> QED BY <2>3, <2>4
<1>13. Len(queue') <= Len(queue) /\ Len(queue') \in Nat
  BY <1>5
<1> QED BY <1>1, <1>2, <1>4, <1>7, <1>8, <1>9, <1>10, <1>11, <1>12, <1>13

------------------------------------------------------------------------------
(* The senders.                                                            *)

LEMMA SendDataIInv == IInv /\ SendData => IInv'
<1> SUFFICES ASSUME IInv, SendData PROVE IInv'
  OBVIOUS
<1> DEFINE m == sent + 1
<1>1. PICK n \in Lengths : len' = [len EXCEPT ![sent + 1] = n] /\ Link(sent + 1, n)
  BY DEF SendData
<1>2. /\ held' = held \cup {m} /\ sent' = m /\ sent < MaxMsgs
      /\ UNCHANGED <<open, counted, pc, buffers, senders>>
  BY DEF SendData
<1>3. n \in Nat
  BY SendAssumption
<1>4. m \in Ids /\ sent \in Nat
  BY <1>2, LinkedFacts DEF Ids
<1>5. len \in [Ids -> Nat] /\ len' \in [Ids -> Nat] /\ len'[m] = n
      /\ \A x \in Ids \ {m} : len'[x] = len[x]
  BY <1>1, <1>3, <1>4 DEF IInv, TypeOK
<1>6. Busy' = Busy /\ \A s \in Busy : msg'[s] = msg[s] /\ msg[s] \in 1 .. sent
  BY <1>2 DEF Busy, senders, IInv, IdsOK
<1>7. m \notin Linked /\ Linked' = Linked \cup {m}
  <2>1. m \notin Linked
    BY <1>4 DEF Linked
  <2>2. 1 .. m = (1 .. sent) \cup {m} /\ m \notin 1 .. sent
    BY <1>4
  <2> QED BY <1>2, <1>6, <2>1, <2>2 DEF Linked
<1>8. /\ queue' \in Seq(Ids) /\ at' \in [Ids -> Nat]
      /\ pushed' \in Nat /\ since' \in Nat
      /\ Elems(queue') = Elems(queue) \cup {m}
      /\ \A j, k \in DOMAIN queue' : queue'[j] = queue'[k] => j = k
      /\ QueueOK' /\ StreamOK' /\ ReadOK' /\ PlaceOK' /\ BacklogOK'
  <2> HIDE DEF m
  <2> QED BY <1>1, <1>2, <1>3, <1>4, <1>5, <1>7, LinkKeeps DEF m
<1>9. TypeOK'
  <2>1. held' \subseteq Ids /\ sent' \in 0 .. MaxMsgs
    BY <1>2, <1>4 DEF IInv, TypeOK, Ids
  <2> QED BY <1>2, <1>5, <1>8, <2>1 DEF IInv, TypeOK, buffers, senders
<1>10. IdsOK'
  <2>1. \A s \in Busy' : msg'[s] \in 1 .. sent'
    BY <1>2, <1>4, <1>6
  <2>2. \A s, t \in Busy' : msg'[s] = msg'[t] => s = t
    BY <1>6 DEF IInv, IdsOK
  <2>3. Elems(queue') \subseteq Linked'
    BY <1>7, <1>8 DEF IInv, IdsOK
  <2> QED BY <1>8, <2>1, <2>2, <2>3 DEF IdsOK
<1>11. CountedOK'
  BY <1>2 DEF IInv, CountedOK, senders
<1>12. UnitsAccounted'
  <2>1. Elems(queue)' = Elems(queue) \cup {m}
    BY <1>8 DEF Elems
  <2> QED BY <1>2, <2>1 DEF IInv, UnitsAccounted, senders, Elems
<1> QED BY <1>8, <1>9, <1>10, <1>11, <1>12 DEF IInv

LEMMA SenderCheckIInv ==
    ASSUME IInv, NEW s \in Senders, SenderCheck(s)
    PROVE  IInv'
<1> DEFINE m == sent + 1
<1>1. /\ sender[s] = "idle" /\ open /\ sent < MaxMsgs
      /\ sender' = [sender EXCEPT ![s] = "checked"] /\ msg' = [msg EXCEPT ![s] = m]
      /\ sent' = m
      /\ UNCHANGED <<open, queue, counted, held, pc, buffers, len, at, pushed, since>>
  BY DEF SenderCheck
<1>2. m \in Ids /\ sent \in Nat /\ m \in 0 .. MaxMsgs
  BY <1>1, LinkedFacts DEF Ids
<1>3. /\ sender' \in [Senders -> {"idle", "checked", "filled", "counted"}]
      /\ msg' \in [Senders -> 0 .. MaxMsgs]
      /\ sender'[s] = "checked" /\ msg'[s] = m
      /\ \A t \in Senders \ {s} : sender'[t] = sender[t] /\ msg'[t] = msg[t]
  BY <1>1, <1>2 DEF IInv, TypeOK
<1>4. Busy' = Busy \cup {s} /\ s \notin Busy
  BY <1>1, <1>3 DEF Busy
<1>5. \A t \in Busy : t # s /\ msg'[t] = msg[t] /\ msg[t] \in 1 .. sent /\ msg[t] # m
  BY <1>2, <1>3, <1>4 DEF Busy, IInv, IdsOK
<1>6. Linked' = Linked
  <2>1. 1 .. m = (1 .. sent) \cup {m} /\ m \notin 1 .. sent
    BY <1>2
  <2> QED BY <1>1, <1>3, <1>4, <1>5, <2>1 DEF Linked
<1>7. TypeOK'
  <2>1. sent' \in 0 .. MaxMsgs
    BY <1>1, <1>2
  <2> QED BY <1>1, <1>3, <2>1 DEF IInv, TypeOK, buffers
<1>8. IdsOK'
  <2>1. \A t \in Busy' : msg'[t] \in 1 .. sent'
    BY <1>1, <1>2, <1>3, <1>4, <1>5
  <2>2. \A t, u \in Busy' : msg'[t] = msg'[u] => t = u
    BY <1>3, <1>4, <1>5 DEF IInv, IdsOK
  <2> QED BY <1>1, <1>6, <2>1, <2>2 DEF IInv, IdsOK, Elems
<1>9. CountedOK'
  <2>1. \A t \in Senders : sender'[t] = "counted" <=> sender[t] = "counted"
    BY <1>1, <1>3
  <2>2. \A t \in Senders : sender[t] = "counted" => msg'[t] = msg[t]
    BY <1>1, <1>3
  <2> QED BY <1>1, <2>1, <2>2 DEF IInv, CountedOK
<1>10. UnitsAccounted'
  <2>1. {t \in Senders : sender'[t] \in {"filled", "counted"}}
          = {t \in Senders : sender[t] \in {"filled", "counted"}}
    BY <1>1, <1>3
  <2>2. \A t \in Senders : sender[t] \in {"filled", "counted"} => msg'[t] = msg[t]
    BY <1>1, <1>3
  <2>3. {msg'[t] : t \in {u \in Senders : sender'[u] \in {"filled", "counted"}}}
          = {msg[t] : t \in {u \in Senders : sender[u] \in {"filled", "counted"}}}
    BY <2>1, <2>2
  <2> QED BY <1>1, <2>3 DEF IInv, UnitsAccounted
<1>11. QueueOK' /\ BacklogOK'
  BY <1>1 DEF IInv, QueueOK, BacklogOK, BacklogBounded
<1>12. StreamOK' /\ ReadOK' /\ PlaceOK'
  BY <1>1, <1>6 DEF IInv, StreamOK, ReadOK, PlaceOK, stream, buffers
<1> QED BY <1>7, <1>8, <1>9, <1>10, <1>11, <1>12 DEF IInv

LEMMA SenderAllocIInv ==
    ASSUME IInv, NEW s \in Senders, SenderAlloc(s)
    PROVE  IInv'
<1>1. PICK n \in Lengths : len' = [len EXCEPT ![msg[s]] = n]
  BY DEF SenderAlloc
<1>2. /\ sender[s] = "checked"
      /\ sender' = [sender EXCEPT ![s] = "filled"] /\ held' = held \cup {msg[s]}
      /\ UNCHANGED <<open, queue, counted, pc, buffers, msg, at, pushed, sent, since>>
  BY DEF SenderAlloc
<1>3. n \in Nat
  BY SendAssumption
<1>4. s \in Busy /\ msg[s] \in Ids /\ msg[s] \notin Linked
  BY <1>2, LinkedFacts DEF Busy, Linked, Ids, IInv, IdsOK
<1>5. /\ sender' \in [Senders -> {"idle", "checked", "filled", "counted"}]
      /\ sender'[s] = "filled"
      /\ \A t \in Senders \ {s} : sender'[t] = sender[t]
  BY <1>2 DEF IInv, TypeOK
<1>6. len' \in [Ids -> Nat] /\ \A x \in Linked : len'[x] = len[x]
  BY <1>1, <1>3, <1>4, LinkedFacts DEF IInv, TypeOK
<1>7. Busy' = Busy /\ Linked' = Linked
  <2>1. Busy' = Busy
    BY <1>2, <1>4, <1>5 DEF Busy
  <2> QED BY <1>2, <2>1 DEF Linked
<1>8. TypeOK'
  BY <1>2, <1>4, <1>5, <1>6 DEF IInv, TypeOK, buffers
<1>9. IdsOK'
  BY <1>2, <1>7 DEF IInv, IdsOK, Elems
<1>10. CountedOK'
  <2>1. \A t \in Senders : sender'[t] = "counted" <=> sender[t] = "counted"
    BY <1>2, <1>5
  <2> QED BY <1>2, <2>1 DEF IInv, CountedOK
<1>11. UnitsAccounted'
  <2>1. {t \in Senders : sender'[t] \in {"filled", "counted"}}
          = {t \in Senders : sender[t] \in {"filled", "counted"}} \cup {s}
    BY <1>2, <1>5
  <2> QED BY <1>2, <2>1 DEF IInv, UnitsAccounted
<1>12. QueueOK'
  BY <1>2, <1>6, LinkedFacts DEF IInv, QueueOK
<1>13. BacklogOK' /\ PlaceOK' /\ StreamOK'
  BY <1>2, <1>7 DEF IInv, BacklogOK, BacklogBounded, PlaceOK, StreamOK, stream, buffers
<1>14. ReadOK'
  <2>1. open /\ oMsg # 0 => oMsg \in Linked
    <3> SUFFICES ASSUME open, oMsg # 0 PROVE oMsg \in Linked
      OBVIOUS
    <3>1. queue # << >> /\ oMsg = queue[1]
      BY DEF IInv, ReadOK
    <3>2. 1 \in 1 .. Len(queue)
      BY <3>1, EmptySeq, LinkedFacts DEF IInv, TypeOK
    <3> QED BY <3>1, <3>2, LinkedFacts
  <2> QED BY <1>2, <1>6, <2>1 DEF IInv, ReadOK, stream, buffers
<1> QED BY <1>8, <1>9, <1>10, <1>11, <1>12, <1>13, <1>14 DEF IInv

LEMMA SenderCountIInv ==
    ASSUME IInv, NEW s \in Senders, SenderCount(s)
    PROVE  IInv'
<1>1. /\ sender[s] = "filled" /\ counted = 0
      /\ sender' = [sender EXCEPT ![s] = "counted"] /\ counted' = msg[s]
      /\ UNCHANGED <<open, queue, held, pc, buffers, msg, len, at, pushed, sent, since>>
  BY DEF SenderCount
<1>2. /\ sender' \in [Senders -> {"idle", "checked", "filled", "counted"}]
      /\ sender'[s] = "counted"
      /\ \A t \in Senders \ {s} : sender'[t] = sender[t]
  BY <1>1 DEF IInv, TypeOK
<1>3. s \in Busy /\ msg[s] \in 1 .. sent /\ sent \in 0 .. MaxMsgs
  BY <1>1, LinkedFacts DEF Busy, IInv, IdsOK
<1>4. Busy' = Busy /\ Linked' = Linked
  <2>1. Busy' = Busy
    BY <1>1, <1>2, <1>3 DEF Busy
  <2> QED BY <1>1, <2>1 DEF Linked
<1>5. TypeOK'
  <2>1. counted' \in 0 .. MaxMsgs
    BY <1>1 DEF IInv, TypeOK
  <2> QED BY <1>1, <1>2, <2>1 DEF IInv, TypeOK, buffers
<1>6. IdsOK'
  BY <1>1, <1>4 DEF IInv, IdsOK, Elems
<1>7. CountedOK'
  <2>1. \A t \in Senders : sender[t] # "counted"
    <3> SUFFICES ASSUME NEW t \in Senders, sender[t] = "counted" PROVE FALSE
      OBVIOUS
    <3>1. t \in Busy
      BY DEF Busy
    <3>2. msg[t] \in 1 .. sent /\ msg[t] = 0
      BY <1>1, <3>1 DEF IInv, IdsOK, CountedOK
    <3> QED BY <1>3, <3>2
  <2> QED BY <1>1, <1>2, <2>1 DEF CountedOK
<1>8. UnitsAccounted'
  <2>1. {t \in Senders : sender'[t] \in {"filled", "counted"}}
          = {t \in Senders : sender[t] \in {"filled", "counted"}}
    BY <1>1, <1>2
  <2> QED BY <1>1, <2>1 DEF IInv, UnitsAccounted
<1>9. QueueOK' /\ BacklogOK' /\ PlaceOK'
  BY <1>1 DEF IInv, QueueOK, BacklogOK, BacklogBounded, PlaceOK, buffers
<1>10. StreamOK' /\ ReadOK'
  BY <1>1, <1>4 DEF IInv, StreamOK, ReadOK, stream, buffers
<1> QED BY <1>5, <1>6, <1>7, <1>8, <1>9, <1>10 DEF IInv

LEMMA SenderLinkIInv ==
    ASSUME IInv, NEW s \in Senders, SenderLink(s)
    PROVE  IInv'
<1>1. /\ sender[s] = "counted"
      /\ sender' = [sender EXCEPT ![s] = "idle"] /\ counted' = 0
      /\ Link(msg[s], len[msg[s]])
      /\ UNCHANGED <<open, held, pc, buffers, msg, len, sent>>
  BY DEF SenderLink
<1>2. /\ sender' \in [Senders -> {"idle", "checked", "filled", "counted"}]
      /\ sender'[s] = "idle"
      /\ \A t \in Senders \ {s} : sender'[t] = sender[t]
  BY <1>1 DEF IInv, TypeOK
<1>3. s \in Busy /\ msg[s] \in 1 .. sent /\ msg[s] \in Ids /\ msg[s] \notin Linked
  BY <1>1, LinkedFacts DEF Busy, Linked, Ids, IInv, IdsOK
<1>4. len \in [Ids -> Nat] /\ len[msg[s]] \in Nat
  BY <1>3 DEF IInv, TypeOK
<1>5. Busy' = Busy \ {s}
  BY <1>1, <1>2 DEF Busy
<1>6. \A t \in Busy : t # s => msg[t] # msg[s]
  BY <1>3 DEF IInv, IdsOK
<1>7. Linked' = Linked \cup {msg[s]}
  BY <1>1, <1>3, <1>5, <1>6 DEF Linked
<1>8. /\ queue' \in Seq(Ids) /\ at' \in [Ids -> Nat]
      /\ pushed' \in Nat /\ since' \in Nat
      /\ Elems(queue') = Elems(queue) \cup {msg[s]}
      /\ \A j, k \in DOMAIN queue' : queue'[j] = queue'[k] => j = k
      /\ QueueOK' /\ StreamOK' /\ ReadOK' /\ PlaceOK' /\ BacklogOK'
  <2>1. len' \in [Ids -> Nat] /\ len'[msg[s]] = len[msg[s]]
        /\ \A x \in Ids \ {msg[s]} : len'[x] = len[x]
    BY <1>1, <1>4
  <2>2. UNCHANGED <<open, pc, buffers>>
    BY <1>1
  <2> QED BY <1>1, <1>3, <1>4, <1>7, <2>1, <2>2, LinkKeeps
<1>9. TypeOK'
  <2>1. counted' \in 0 .. MaxMsgs
    BY <1>1, SendAssumption
  <2> QED BY <1>1, <1>2, <1>8, <2>1 DEF IInv, TypeOK, buffers
<1>10. IdsOK'
  <2>1. Elems(queue') \subseteq Linked'
    BY <1>7, <1>8 DEF IInv, IdsOK
  <2>2. /\ \A t \in Busy' : msg'[t] \in 1 .. sent'
        /\ \A t, u \in Busy' : msg'[t] = msg'[u] => t = u
    BY <1>1, <1>5 DEF IInv, IdsOK
  <2> QED BY <1>8, <2>1, <2>2 DEF IdsOK
<1>11. CountedOK'
  <2>1. \A t \in Senders \ {s} : sender[t] # "counted"
    <3> SUFFICES ASSUME NEW t \in Senders, t # s, sender[t] = "counted" PROVE FALSE
      OBVIOUS
    <3>1. t \in Busy /\ msg[t] = msg[s]
      BY <1>1 DEF Busy, IInv, CountedOK
    <3> QED BY <1>6, <3>1
  <2> QED BY <1>1, <1>2, <2>1 DEF CountedOK
<1>12. UnitsAccounted'
  <2>1. {t \in Senders : sender[t] \in {"filled", "counted"}}
          = {t \in Senders : sender'[t] \in {"filled", "counted"}} \cup {s}
    BY <1>1, <1>2
  <2>2. Elems(queue)' = Elems(queue) \cup {msg[s]}
    BY <1>8 DEF Elems
  <2> QED BY <1>1, <2>1, <2>2 DEF IInv, UnitsAccounted, Elems
<1> QED BY <1>8, <1>9, <1>10, <1>11, <1>12 DEF IInv

------------------------------------------------------------------------------
(* The handler thread.                                                     *)

LEMMA CloseByRecvIInv == IInv /\ CloseByRecv => IInv'
<1> SUFFICES ASSUME IInv, CloseByRecv PROVE IInv'
  OBVIOUS
<1>1. /\ open' = FALSE /\ pc' = "clear"
      /\ UNCHANGED <<queue, counted, held, buffers, senders, len, at, pushed, sent, since>>
  BY DEF CloseByRecv, Close
<1>2. TypeOK'
  BY <1>1 DEF IInv, TypeOK, buffers, senders
<1>3. IdsOK' /\ CountedOK' /\ UnitsAccounted' /\ QueueOK' /\ StreamOK'
  BY <1>1, QueueFrame DEF buffers
<1>4. ReadOK' /\ PlaceOK' /\ BacklogOK'
  BY <1>1 DEF IInv, ReadOK, PlaceOK, BacklogOK, BacklogBounded, buffers
<1> QED BY <1>2, <1>3, <1>4 DEF IInv

LEMMA ClearQueueIInv == IInv /\ ClearQueue => IInv'
<1> SUFFICES ASSUME IInv, ClearQueue PROVE IInv'
  OBVIOUS
<1>1. /\ pc = "clear" /\ PopAndFree
      /\ UNCHANGED <<open, counted, pc, buffers, senders, len, at, pushed, sent, since>>
  BY DEF ClearQueue
<1>2. /\ queue' \in Seq(Ids) /\ held' \subseteq Ids
      /\ IdsOK' /\ CountedOK' /\ UnitsAccounted' /\ QueueOK' /\ Linked' = Linked
  BY <1>1, PopKeeps
<1>3. TypeOK'
  BY <1>1, <1>2 DEF IInv, TypeOK, buffers, senders
<1>4. StreamOK'
  BY <1>1, <1>2 DEF IInv, StreamOK, stream, buffers
<1>5. ReadOK' /\ PlaceOK' /\ BacklogOK'
  BY <1>1 DEF IInv, ReadOK, PlaceOK, BacklogOK, BacklogBounded, buffers
<1> QED BY <1>2, <1>3, <1>4, <1>5 DEF IInv

LEMMA ClearBufferIInv == IInv /\ ClearBuffer => IInv'
<1> SUFFICES ASSUME IInv, ClearBuffer PROVE IInv'
  OBVIOUS
<1>1. /\ pc = "clear" /\ pc' = "idle" /\ oMsg' = 0 /\ oPos' = 0 /\ ioSend' = << >>
      /\ UNCHANGED <<open, queue, counted, held, canWrite, wire, senders, len, at, pushed,
                     sent, since>>
  BY DEF ClearBuffer
<1>2. TypeOK'
  <2>1. 0 \in 0 .. MaxMsgs /\ 0 \in Nat /\ SEND_BUF \in Nat
    BY SendAssumption
  <2>2. ioSend' \in Seq(Bytes) /\ Len(ioSend') <= SEND_BUF
    BY <1>1, <2>1, EmptySeq
  <2> QED BY <1>1, <2>1, <2>2 DEF IInv, TypeOK, senders
<1>3. IdsOK' /\ CountedOK' /\ UnitsAccounted' /\ QueueOK' /\ Linked' = Linked
  BY <1>1, QueueFrame
<1>4. StreamOK'
  <2>1. wire \in Seq(Bytes)
    BY DEF IInv, TypeOK
  <2>2. wire \o << >> = wire
    BY <2>1, ConcatEmptySeq
  <2>3. stream' = wire
    BY <1>1, <2>2 DEF stream
  <2>4. /\ Len(wire) \in Nat /\ DOMAIN wire = 1 .. Len(wire)
        /\ DOMAIN stream = 1 .. Len(stream) /\ Len(stream) = Len(wire) + Len(ioSend)
        /\ \A j \in 1 .. Len(wire) : stream[j] = wire[j]
    BY StreamFacts DEF IInv
  <2>5. Len(ioSend) \in Nat
    BY LenProperties DEF IInv, TypeOK
  <2>6. DOMAIN wire \subseteq DOMAIN stream
    BY <2>4, <2>5
  <2>7. \A j \in DOMAIN wire : stream[j] = wire[j]
    BY <2>4
  <2> QED BY <1>1, <1>3, <2>3, <2>6, <2>7 DEF IInv, StreamOK
<1>5. ReadOK' /\ PlaceOK' /\ BacklogOK'
  BY <1>1 DEF IInv, ReadOK, PlaceOK, BacklogOK, BacklogBounded
<1> QED BY <1>2, <1>3, <1>4, <1>5 DEF IInv

\* Only canWrite, the message read and the place change.
LEMMA PlaceStep ==
    ASSUME IInv, UNCHANGED <<open, queue, counted, held, ioSend, wire, unchangedBySend>>,
           ReadOK', PlaceOK', BacklogOK',
           pc' \in {"idle", "room", "full", "copy", "next", "flush", "clear"},
           canWrite' \in 0 .. SEND_BUF, oMsg' \in 0 .. MaxMsgs, oPos' \in Nat, since' \in Nat
    PROVE  IInv'
<1>1. TypeOK'
  BY DEF IInv, TypeOK, unchangedBySend, senders
<1>2. IdsOK' /\ CountedOK' /\ UnitsAccounted' /\ QueueOK' /\ StreamOK'
  BY QueueFrame DEF unchangedBySend
<1> QED BY <1>1, <1>2 DEF IInv

LEMMA CallIInv == IInv /\ Call => IInv'
<1> SUFFICES ASSUME IInv, Call PROVE IInv'
  OBVIOUS
<1>1. /\ pc = "idle" /\ open /\ pc' = "room" /\ since' = 0
      /\ UNCHANGED <<open, queue, counted, held, buffers, unchangedBySend>>
  BY DEF Call
<1>2. ReadOK' /\ PlaceOK' /\ BacklogOK'
  BY <1>1 DEF IInv, ReadOK, PlaceOK, BacklogOK, BacklogBounded, stream, buffers,
              unchangedBySend
<1> QED BY <1>1, <1>2, PlaceStep DEF IInv, TypeOK, buffers

LEMMA HasRoomIInv == IInv /\ HasRoom => IInv'
<1> SUFFICES ASSUME IInv, HasRoom PROVE IInv'
  OBVIOUS
<1>1. /\ pc = "room" /\ Len(ioSend) < SEND_BUF
      /\ canWrite' = SEND_BUF - Len(ioSend) /\ pc' = "copy"
      /\ UNCHANGED <<open, queue, counted, held, oMsg, oPos, ioSend, wire, since,
                     unchangedBySend>>
  BY DEF HasRoom
<1>2. SEND_BUF - Len(ioSend) \in 0 .. SEND_BUF
  <2>1. Len(ioSend) \in Nat /\ SEND_BUF \in Nat
    BY SendAssumption, LenProperties DEF IInv, TypeOK
  <2> QED BY <1>1, <2>1
<1>3. ReadOK' /\ BacklogOK'
  BY <1>1 DEF IInv, ReadOK, BacklogOK, BacklogBounded, stream, unchangedBySend
<1>4. PlaceOK'
  BY <1>1, <1>2 DEF IInv, PlaceOK
<1> QED BY <1>1, <1>2, <1>3, <1>4, PlaceStep DEF IInv, TypeOK

LEMMA NoRoomIInv == IInv /\ NoRoom => IInv'
<1> SUFFICES ASSUME IInv, NoRoom PROVE IInv'
  OBVIOUS
<1>1. /\ pc = "room" /\ canWrite' = 0 /\ pc' = "full"
      /\ UNCHANGED <<open, queue, counted, held, oMsg, oPos, ioSend, wire, since,
                     unchangedBySend>>
  BY DEF NoRoom
<1>2. canWrite' \in 0 .. SEND_BUF
  BY <1>1, SendAssumption
<1>3. ReadOK' /\ BacklogOK' /\ PlaceOK'
  BY <1>1 DEF IInv, ReadOK, PlaceOK, BacklogOK, BacklogBounded, stream, unchangedBySend
<1> QED BY <1>1, <1>2, <1>3, PlaceStep DEF IInv, TypeOK

LEMMA NextMessageIInv == IInv /\ NextMessage => IInv'
<1> SUFFICES ASSUME IInv, NextMessage PROVE IInv'
  OBVIOUS
<1>1. /\ pc = "next" /\ oMsg' = front /\ oPos' = 0 /\ pc' = "room"
      /\ UNCHANGED <<open, queue, counted, held, canWrite, ioSend, wire, since,
                     unchangedBySend>>
  BY DEF NextMessage
<1>2. oMsg = 0 /\ open
  BY <1>1 DEF IInv, PlaceOK
<1>3. /\ queue = << >> => oMsg' = 0
      /\ queue # << >> => oMsg' = queue[1] /\ queue[1] \in Ids /\ oMsg' # 0
  <2>1. CASE queue = << >>
    BY <1>1, <2>1 DEF front
  <2>2. CASE queue # << >>
    <3>1. 1 \in 1 .. Len(queue)
      BY <2>2, EmptySeq, LinkedFacts DEF IInv, TypeOK
    <3>2. Head(queue) = queue[1]
      BY <2>2, <3>1 DEF IInv, TypeOK
    <3>3. queue[1] \in Ids /\ queue[1] # 0
      BY <3>1, LinkedFacts DEF Ids
    <3> QED BY <1>1, <2>2, <3>2, <3>3 DEF front
  <2> QED BY <2>1, <2>2
<1>4. oMsg' \in 0 .. MaxMsgs
  <2>1. 0 \in 0 .. MaxMsgs /\ Ids \subseteq 0 .. MaxMsgs
    BY SendAssumption DEF Ids
  <2> QED BY <1>3, <2>1
<1>5. ReadOK'
  <2>1. Len(stream) = IF queue = << >> THEN pushed ELSE at[queue[1]]
    BY <1>2 DEF IInv, ReadOK
  <2>2. stream' = stream /\ at' = at /\ len' = len /\ pushed' = pushed /\ queue' = queue
    BY <1>1 DEF stream, unchangedBySend
  <2>3. CASE queue = << >>
    BY <1>3, <2>1, <2>2, <2>3 DEF ReadOK
  <2>4. CASE queue # << >>
    <3>1. oMsg' = queue[1] /\ oMsg' # 0 /\ oPos' = 0 /\ queue[1] \in Ids
      BY <1>1, <1>3, <2>4
    <3>2. at[queue[1]] \in Nat /\ len[queue[1]] \in Nat
      BY <3>1 DEF IInv, TypeOK
    <3>3. 0 <= len[queue[1]] /\ at[queue[1]] = at[queue[1]] + 0 /\ 1 .. 0 = {}
      BY <3>2
    <3> QED BY <2>1, <2>2, <2>4, <3>1, <3>3 DEF ReadOK
  <2> QED BY <2>3, <2>4
<1>6. PlaceOK' /\ BacklogOK'
  BY <1>1, <1>2 DEF IInv, PlaceOK, BacklogOK, BacklogBounded
<1> QED BY <1>1, <1>4, <1>5, <1>6, PlaceStep DEF IInv, TypeOK

LEMMA NoMessageIInv == IInv /\ NoMessage => IInv'
<1> SUFFICES ASSUME IInv, NoMessage PROVE IInv'
  OBVIOUS
<1>1. /\ pc = "next" /\ ~hasData
      /\ pc' = "idle" \/ pc' = "flush"
      /\ UNCHANGED <<open, queue, counted, held, buffers, since, unchangedBySend>>
  BY DEF NoMessage
<1>2. Len(queue) = 0 /\ since \in Nat /\ LIMIT \in Nat
  <2>1. Len(queue) \in Nat /\ since \in Nat /\ LIMIT \in Nat
    BY SendAssumption, LinkedFacts DEF IInv, TypeOK
  <2> QED BY <1>1, <2>1 DEF hasData, size
<1>3. ReadOK'
  BY <1>1 DEF IInv, ReadOK, stream, buffers, unchangedBySend
<1>4. PlaceOK'
  BY <1>1 DEF IInv, PlaceOK, buffers
<1>5. BacklogOK'
  <2>1. Len(queue') = 0 /\ since' = since
    BY <1>1, <1>2
  <2> QED BY <1>2, <2>1 DEF BacklogOK, BacklogBounded
<1> QED BY <1>1, <1>3, <1>4, <1>5, PlaceStep DEF IInv, TypeOK, buffers

\* A call of SendToKernelBuf from pc, which goes on at next.
LEMMA KernelIInv ==
    ASSUME IInv, NEW next, <<pc, next>> \in {<<"full", "copy">>, <<"flush", "idle">>},
           KernelError \/ KernelBusy \/ KernelAccepts(next),
           UNCHANGED <<since, unchangedBySend>>
    PROVE  IInv'
<1>0. pc \in {"full", "flush"} /\ next \in {"copy", "idle"} /\ open
  BY DEF IInv, PlaceOK
<1>1. CASE KernelError
  <2>1. /\ open' = FALSE /\ pc' = "clear"
        /\ UNCHANGED <<queue, counted, held, canWrite, oMsg, oPos, ioSend, wire>>
    BY <1>1 DEF KernelError, Close
  <2>2. TypeOK'
    BY <2>1 DEF IInv, TypeOK, unchangedBySend, senders
  <2>3. IdsOK' /\ CountedOK' /\ UnitsAccounted' /\ QueueOK' /\ StreamOK'
    BY <2>1, QueueFrame DEF unchangedBySend
  <2>4. ReadOK' /\ PlaceOK' /\ BacklogOK'
    BY <2>1 DEF IInv, ReadOK, PlaceOK, BacklogOK, BacklogBounded
  <2> QED BY <2>2, <2>3, <2>4 DEF IInv
<1>2. CASE KernelBusy
  <2>1. /\ \/ open' = FALSE /\ pc' = "clear"
           \/ open' = open /\ pc' = "idle" /\ ~ (size > LIMIT)
        /\ UNCHANGED <<queue, counted, held, canWrite, oMsg, oPos, ioSend, wire>>
    BY <1>2 DEF KernelBusy, Close
  <2>2. TypeOK'
    BY <2>1 DEF IInv, TypeOK, unchangedBySend, senders
  <2>3. IdsOK' /\ CountedOK' /\ UnitsAccounted' /\ QueueOK' /\ StreamOK'
    BY <2>1, QueueFrame DEF unchangedBySend
  <2>4. ReadOK' /\ PlaceOK'
    BY <2>1, <1>0 DEF IInv, ReadOK, PlaceOK, stream, unchangedBySend
  <2>5. BacklogOK'
    <3>1. Len(queue) \in Nat /\ since \in Nat /\ LIMIT \in Nat
      BY SendAssumption, LinkedFacts DEF IInv, TypeOK
    <3>2. ~ (size > LIMIT) => Len(queue) <= LIMIT + since
      BY <3>1 DEF size
    <3> QED BY <2>1, <3>2 DEF BacklogOK, BacklogBounded
  <2> QED BY <2>2, <2>3, <2>4, <2>5 DEF IInv
<1>3. CASE KernelAccepts(next)
  <2>1. PICK n \in 1 .. Len(ioSend) :
           /\ wire' = wire \o SubSeq(ioSend, 1, n)
           /\ ioSend' = SubSeq(ioSend, n + 1, Len(ioSend))
    BY <1>3 DEF KernelAccepts
  <2>2. pc' = next /\ UNCHANGED <<open, queue, counted, held, canWrite, oMsg, oPos>>
    BY <1>3 DEF KernelAccepts
  <2>3. wire \in Seq(Bytes) /\ ioSend \in Seq(Bytes) /\ Len(ioSend) <= SEND_BUF
    BY DEF IInv, TypeOK
  <2>4. Len(ioSend) \in Nat /\ SEND_BUF \in Nat
    BY <2>3, SendAssumption, LenProperties
  <2>5. /\ wire' \in Seq(Bytes) /\ ioSend' \in Seq(Bytes)
        /\ Len(ioSend') = Len(ioSend) - n /\ wire' \o ioSend' = wire \o ioSend
    <3>1. wire' = Taken(wire, ioSend, n) /\ ioSend' = Rest(ioSend, n)
      BY <2>1 DEF Taken, Rest
    <3> QED BY <2>3, <3>1, TakenStays
  <2>6. Len(ioSend') <= SEND_BUF /\ Len(ioSend') \in Nat
    BY <2>3, <2>4, <2>5
  <2>7. stream' = stream
    BY <2>5 DEF stream
  <2>8. TypeOK'
    BY <1>0, <2>2, <2>5, <2>6 DEF IInv, TypeOK, unchangedBySend, senders
  <2>9. IdsOK' /\ CountedOK' /\ UnitsAccounted' /\ QueueOK' /\ Linked' = Linked
    BY <2>2, QueueFrame DEF unchangedBySend
  <2>10. StreamOK'
    BY <2>7, <2>9 DEF IInv, StreamOK, unchangedBySend
  <2>11. ReadOK'
    BY <2>2, <2>7 DEF IInv, ReadOK, unchangedBySend
  <2>12. PlaceOK'
    <3>1. next = "copy" => canWrite = 0
      BY DEF IInv, PlaceOK
    <3>2. 0 <= SEND_BUF - Len(ioSend')
      BY <2>4, <2>6
    <3> QED BY <1>0, <2>2, <3>1, <3>2 DEF IInv, PlaceOK
  <2>13. BacklogOK'
    <3>1. Len(queue) \in Nat /\ since \in Nat /\ LIMIT \in Nat
      BY SendAssumption, LinkedFacts DEF IInv, TypeOK
    <3>2. next = "idle" => Len(queue) <= LIMIT + since
      BY <3>1 DEF IInv, BacklogOK
    <3> QED BY <1>0, <2>2, <3>2 DEF BacklogOK, BacklogBounded
  <2> QED BY <2>8, <2>9, <2>10, <2>11, <2>12, <2>13 DEF IInv
<1> QED BY <1>1, <1>2, <1>3

LEMMA SendFullIInv == IInv /\ SendFull => IInv'
BY KernelIInv DEF SendFull

LEMMA FlushIInv == IInv /\ Flush => IInv'
BY KernelIInv DEF Flush

LEMMA CopyIInv == IInv /\ Copy => IInv'
<1> SUFFICES ASSUME IInv, Copy PROVE IInv'
  OBVIOUS
<1> DEFINE w == Smaller(canRead, canWrite)
           c == [k \in 1 .. w |-> <<oMsg, oPos + k>>]
<1>1. /\ pc = "copy" /\ canRead > 0
      /\ ioSend' = ioSend \o c /\ oPos' = oPos + w /\ pc' = "room"
      /\ UNCHANGED <<open, queue, counted, held, canWrite, oMsg, wire, since, unchangedBySend>>
  BY DEF Copy
<1>2. open /\ oMsg # 0 /\ canRead = len[oMsg] - oPos
  BY <1>1 DEF IInv, PlaceOK, canRead
<1>3. /\ queue # << >> /\ oMsg = queue[1] /\ oPos <= len[oMsg]
      /\ Len(stream) = at[oMsg] + oPos
      /\ \A j \in 1 .. oPos : at[oMsg] + j <= Len(stream)
                              /\ stream[at[oMsg] + j] = <<oMsg, j>>
  BY <1>2 DEF IInv, ReadOK
<1>4. oMsg \in Linked /\ oMsg \in Ids
  <2>1. 1 \in 1 .. Len(queue)
    BY <1>3, EmptySeq, LinkedFacts DEF IInv, TypeOK
  <2> QED BY <1>3, <2>1, LinkedFacts
<1>5. /\ len[oMsg] \in Nat /\ at[oMsg] \in Nat /\ oPos \in Nat
      /\ canWrite \in Nat /\ SEND_BUF \in Nat
  BY <1>4, SendAssumption DEF IInv, TypeOK
<1>6. w \in Nat /\ w <= len[oMsg] - oPos /\ w <= canWrite
  BY <1>1, <1>2, <1>5 DEF Smaller
<1>7. c \in Seq(Bytes) /\ Len(c) = w /\ \A k \in 1 .. w : c[k] = <<oMsg, oPos + k>>
  <2> HIDE DEF w
  <2>1. \A k \in 1 .. w : <<oMsg, oPos + k>> \in Bytes
    BY <1>4, <1>5, <1>6 DEF Bytes
  <2> QED BY <1>6, <2>1
<1> HIDE DEF w, c
<1>8. wire \in Seq(Bytes) /\ ioSend \in Seq(Bytes) /\ Len(ioSend) \in Nat
  BY LenProperties DEF IInv, TypeOK
<1>9. /\ ioSend' \in Seq(Bytes) /\ Len(ioSend') = Len(ioSend) + w
  BY <1>1, <1>7, <1>8, ConcatProperties
<1>10. Len(ioSend') <= SEND_BUF
  <2>1. canWrite <= SEND_BUF - Len(ioSend)
    BY <1>1 DEF IInv, PlaceOK
  <2> QED BY <1>5, <1>6, <1>8, <1>9, <2>1
<1>11. stream' = stream \o c
  <2>1. (wire \o ioSend) \o c = wire \o (ioSend \o c)
    BY <1>7, <1>8, Regroup
  <2> QED BY <1>1, <2>1 DEF stream
<1>12. stream \in Seq(Bytes) /\ Len(stream) \in Nat /\ DOMAIN stream = 1 .. Len(stream)
  BY StreamFacts DEF IInv
<1>13. /\ stream' \in Seq(Bytes) /\ Len(stream') = Len(stream) + w
       /\ \A j \in 1 .. Len(stream) + w :
             stream'[j] = IF j <= Len(stream) THEN stream[j] ELSE c[j - Len(stream)]
  BY <1>7, <1>11, <1>12, ConcatProperties
<1>14. DOMAIN stream' = 1 .. Len(stream) + w
  BY <1>13, LenProperties
<1>15. TypeOK'
  <2>1. oPos' \in Nat
    BY <1>1, <1>5, <1>6
  <2> QED BY <1>1, <1>9, <1>10, <2>1 DEF IInv, TypeOK, unchangedBySend, senders
<1>16. IdsOK' /\ CountedOK' /\ UnitsAccounted' /\ QueueOK' /\ Linked' = Linked
  BY <1>1, QueueFrame DEF unchangedBySend
<1>17. StreamOK'
  <2>1. ASSUME NEW j \in 1 .. Len(stream) + w
        PROVE  stream'[j][1] \in Linked /\ j = at[stream'[j][1]] + stream'[j][2]
    <3>1. CASE j <= Len(stream)
      <4>1. stream'[j] = stream[j] /\ j \in DOMAIN stream
        BY <1>12, <1>13, <3>1
      <4> QED BY <4>1 DEF IInv, StreamOK
    <3>2. CASE ~ (j <= Len(stream))
      <4>1. j - Len(stream) \in 1 .. w
        BY <1>6, <1>12, <3>2
      <4>2. stream'[j] = <<oMsg, oPos + (j - Len(stream))>>
        BY <1>7, <1>13, <3>2, <4>1
      <4>3. at[oMsg] + (oPos + (j - Len(stream))) = j
        BY <1>3, <1>5
      <4> QED BY <1>4, <4>2, <4>3
    <3> QED BY <3>1, <3>2
  <2>2. at' = at
    BY <1>1 DEF unchangedBySend
  <2> QED BY <1>14, <1>16, <2>1, <2>2 DEF StreamOK
<1>18. ReadOK'
  <2>1. oMsg' = oMsg /\ oPos' = oPos + w /\ queue' = queue /\ at' = at /\ len' = len
    BY <1>1 DEF unchangedBySend
  <2>2. Len(stream') = at[oMsg] + (oPos + w) /\ oPos + w <= len[oMsg]
    BY <1>3, <1>5, <1>6, <1>13
  <2>3. ASSUME NEW j \in 1 .. oPos + w
        PROVE  at[oMsg] + j <= Len(stream') /\ stream'[at[oMsg] + j] = <<oMsg, j>>
    <3>1. at[oMsg] + j <= Len(stream') /\ at[oMsg] + j \in 1 .. Len(stream) + w
      <4>1. Len(stream) = at[oMsg] + oPos
        BY <1>3
      <4>2. at[oMsg] + j <= at[oMsg] + (oPos + w) /\ at[oMsg] + j \in 1 .. at[oMsg] + oPos + w
        BY <1>5, <1>6
      <4> QED BY <2>2, <4>1, <4>2
    <3>2. CASE j \in 1 .. oPos
      <4>1. at[oMsg] + j <= Len(stream) /\ stream[at[oMsg] + j] = <<oMsg, j>>
        BY <1>3, <3>2
      <4>2. at[oMsg] + j \in 1 .. Len(stream)
        BY <1>3, <1>5, <3>1, <4>1
      <4>3. stream'[at[oMsg] + j] = stream[at[oMsg] + j]
        <5>1. at[oMsg] + j \in 1 .. Len(stream) + w /\ at[oMsg] + j <= Len(stream)
          BY <3>1, <4>1
        <5> QED BY <1>13, <5>1
      <4> QED BY <3>1, <4>1, <4>3
    <3>3. CASE j \notin 1 .. oPos
      <4>1. /\ ~ (at[oMsg] + j <= Len(stream))
            /\ (at[oMsg] + j) - Len(stream) = j - oPos
            /\ j - oPos \in 1 .. w /\ oPos + (j - oPos) = j
        BY <1>3, <1>5, <1>6, <3>3
      <4>2. stream'[at[oMsg] + j] = c[j - oPos]
        BY <1>13, <3>1, <4>1
      <4>3. c[j - oPos] = <<oMsg, oPos + (j - oPos)>>
        BY <1>7, <4>1
      <4> QED BY <3>1, <4>1, <4>2, <4>3
    <3> QED BY <3>2, <3>3
  <2> QED BY <1>2, <1>3, <2>1, <2>2, <2>3 DEF ReadOK
<1>19. PlaceOK' /\ BacklogOK'
  BY <1>1, <1>2 DEF IInv, PlaceOK, BacklogOK, BacklogBounded
<1> QED BY <1>15, <1>16, <1>17, <1>18, <1>19 DEF IInv

LEMMA CopiedIInv == IInv /\ Copied => IInv'
<1> SUFFICES ASSUME IInv, Copied PROVE IInv'
  OBVIOUS
<1>1. /\ pc = "copy" /\ canRead <= 0 /\ pc' = "next"
      /\ UNCHANGED <<open, counted, canWrite, ioSend, wire, since, unchangedBySend>>
  BY DEF Copied
<1>2. CASE oMsg = 0
  <2>1. UNCHANGED <<queue, held, oMsg, oPos>>
    BY <1>2 DEF Copied
  <2>2. ReadOK' /\ PlaceOK' /\ BacklogOK'
    BY <1>1, <1>2, <2>1 DEF IInv, ReadOK, PlaceOK, BacklogOK, BacklogBounded, stream,
                            unchangedBySend
  <2> QED BY <1>1, <2>1, <2>2, PlaceStep DEF IInv, TypeOK
<1>3. CASE oMsg # 0
  <2>1. PopAndFree /\ oMsg' = 0 /\ oPos' = 0
    BY <1>3 DEF Copied
  <2>2. /\ queue' \in Seq(Ids) /\ held' \subseteq Ids
        /\ IdsOK' /\ CountedOK' /\ UnitsAccounted' /\ QueueOK' /\ Linked' = Linked
        /\ at[queue[1]] + len[queue[1]]
             = IF queue' = << >> THEN pushed ELSE at[queue'[1]]
    BY <1>1, <2>1, PopKeeps DEF unchangedBySend
  <2>3. TypeOK'
    <3>1. 0 \in 0 .. MaxMsgs /\ 0 \in Nat
      BY SendAssumption
    <3> QED BY <1>1, <2>1, <2>2, <3>1 DEF IInv, TypeOK, unchangedBySend, senders
  <2>4. StreamOK'
    BY <1>1, <2>2 DEF IInv, StreamOK, stream, unchangedBySend
  <2>5. ReadOK'
    <3>1. open
      BY <1>1 DEF IInv, PlaceOK
    <3>2. /\ queue # << >> /\ oMsg = queue[1] /\ oPos <= len[oMsg]
          /\ Len(stream) = at[oMsg] + oPos
      BY <1>3, <3>1 DEF IInv, ReadOK
    <3>3. oMsg \in Ids
      BY <1>3 DEF IInv, TypeOK, Ids
    <3>4. oPos = len[oMsg]
      <4>1. oPos \in Nat /\ len[oMsg] \in Nat
        BY <3>3 DEF IInv, TypeOK
      <4>2. len[oMsg] - oPos <= 0
        BY <1>1, <1>3 DEF canRead
      <4> QED BY <3>2, <4>1, <4>2
    <3>5. Len(stream) = IF queue' = << >> THEN pushed ELSE at[queue'[1]]
      BY <2>2, <3>2, <3>4
    <3> QED BY <1>1, <2>1, <3>5 DEF ReadOK, stream, unchangedBySend
  <2>6. PlaceOK' /\ BacklogOK'
    BY <1>1, <2>1 DEF IInv, PlaceOK, BacklogOK, BacklogBounded
  <2> QED BY <2>2, <2>3, <2>4, <2>5, <2>6 DEF IInv
<1> QED BY <1>2, <1>3

------------------------------------------------------------------------------
(* The specification.                                                      *)

LEMMA InitIInv == Init => IInv
<1> SUFFICES ASSUME Init PROVE IInv
  OBVIOUS
<1>1. /\ open = TRUE /\ queue = << >> /\ counted = 0 /\ held = {} /\ pc = "idle"
      /\ canWrite = 0 /\ oMsg = 0 /\ oPos = 0 /\ ioSend = << >> /\ wire = << >>
      /\ sender = [s \in Senders |-> "idle"] /\ msg = [s \in Senders |-> 0]
      /\ len = [m \in Ids |-> 0] /\ at = [m \in Ids |-> 0]
      /\ pushed = 0 /\ sent = 0 /\ since = 0
  BY DEF Init
<1>2. /\ 0 \in 0 .. MaxMsgs /\ 0 \in 0 .. SEND_BUF /\ 0 \in Nat
      /\ SEND_BUF \in Nat /\ LIMIT \in Nat
  BY SendAssumption
<1>3. /\ << >> \in Seq(Ids) /\ << >> \in Seq(Bytes) /\ Len(<< >>) = 0
      /\ DOMAIN << >> = {}
  BY EmptySeq
<1>4. TypeOK
  BY <1>1, <1>2, <1>3 DEF TypeOK
<1>5. Busy = {}
  BY <1>1 DEF Busy
<1>6. IdsOK
  BY <1>1, <1>3, <1>5 DEF IdsOK, Elems
<1>7. CountedOK
  BY <1>1 DEF CountedOK
<1>8. UnitsAccounted
  BY <1>1, <1>3 DEF UnitsAccounted
<1>9. QueueOK
  BY <1>1, <1>3 DEF QueueOK
<1>10. stream = << >>
  BY <1>1, <1>3, ConcatEmptySeq DEF stream
<1>11. StreamOK
  BY <1>3, <1>10 DEF StreamOK
<1>12. ReadOK
  BY <1>1, <1>3, <1>10 DEF ReadOK
<1>13. PlaceOK
  BY <1>1 DEF PlaceOK
<1>14. BacklogOK
  BY <1>1, <1>2, <1>3 DEF BacklogOK, BacklogBounded
<1> QED BY <1>4, <1>6, <1>7, <1>8, <1>9, <1>11, <1>12, <1>13, <1>14 DEF IInv

LEMMA StutterIInv == IInv /\ UNCHANGED vars => IInv'
<1> SUFFICES ASSUME IInv, UNCHANGED vars PROVE IInv'
  OBVIOUS
<1>1. /\ UNCHANGED <<open, queue, counted, held, ioSend, wire, unchangedBySend>>
      /\ UNCHANGED <<pc, canWrite, oMsg, oPos, since>>
  BY DEF vars, unchangedBySend, senders
<1>2. ReadOK' /\ PlaceOK' /\ BacklogOK'
  BY <1>1 DEF IInv, ReadOK, PlaceOK, BacklogOK, BacklogBounded, stream, unchangedBySend
<1> QED BY <1>1, <1>2, PlaceStep DEF IInv, TypeOK

LEMMA NextIInv == IInv /\ [Next]_vars => IInv'
<1> SUFFICES ASSUME IInv, [Next]_vars PROVE IInv'
  OBVIOUS
<1>1. CASE UNCHANGED vars
  BY <1>1, StutterIInv
<1>2. CASE ProcessorSend
  BY <1>2, CallIInv, HasRoomIInv, NoRoomIInv, SendFullIInv, CopyIInv, CopiedIInv,
     NextMessageIInv, NoMessageIInv, FlushIInv DEF ProcessorSend
<1>3. CASE \E s \in Senders : Sender(s)
  BY <1>3, SenderCheckIInv, SenderAllocIInv, SenderCountIInv, SenderLinkIInv DEF Sender
<1>4. CASE SendData \/ CloseByRecv \/ ClearQueue \/ ClearBuffer
  BY <1>4, SendDataIInv, CloseByRecvIInv, ClearQueueIInv, ClearBufferIInv
<1> QED BY <1>1, <1>2, <1>3, <1>4 DEF Next

\* The inductive invariant of the send path: where each message in flight is,
\* and what the buffers, the backlog and the kernel hold of it.
THEOREM InductiveInvariant == Spec => []IInv
BY InitIInv, NextIInv, PTL DEF Spec

\* The bytes the kernel got are at their places in the concatenation of the
\* messages, in the order SendData queued them, whatever part of _sendBuf each
\* send took.
THEOREM StreamStaysInOrder == Spec => []StreamInOrder
<1>1. IInv => StreamInOrder
  <2> SUFFICES ASSUME IInv, NEW j \in DOMAIN wire
               PROVE  j = at[wire[j][1]] + wire[j][2]
    BY DEF StreamInOrder
  <2>1. Len(ioSend) \in Nat
    BY LenProperties DEF IInv, TypeOK
  <2>2. j \in DOMAIN stream /\ stream[j] = wire[j]
    BY <2>1, StreamFacts DEF IInv
  <2> QED BY <2>2 DEF IInv, StreamOK
<1> QED BY <1>1, InductiveInvariant, PTL

\* The state is well typed, and the message ProcessorSend reads is the first of
\* the queue, the one its later pop frees, although other threads push meanwhile.
THEOREM FrontIsCopied == Spec => []CopiesFront
<1>1. IInv => CopiesFront
  <2> SUFFICES ASSUME IInv, oMsg # 0, pc # "clear"
               PROVE  oMsg \in held /\ queue # << >> /\ oMsg = Head(queue)
    BY DEF CopiesFront, IInv
  <2>1. open
    BY DEF IInv, PlaceOK
  <2>2. queue # << >> /\ oMsg = queue[1]
    BY <2>1 DEF IInv, ReadOK
  <2>3. 1 \in DOMAIN queue
    BY <2>2, EmptySeq, LinkedFacts DEF IInv, TypeOK
  <2>4. Head(queue) = queue[1]
    BY <2>2 DEF IInv, TypeOK
  <2>5. oMsg \in held
    BY <2>2, <2>3 DEF IInv, UnitsAccounted
  <2> QED BY <2>2, <2>4, <2>5
<1> QED BY <1>1, InductiveInvariant, PTL

\* The pool units in use are those of the queued messages and of the ones that
\* senders are about to queue: none is leaked, none freed while it is queued,
\* whenever the socket is closed.
THEOREM UnitsAreAccounted == Spec => []UnitsAccounted
<1>1. IInv => UnitsAccounted
  BY DEF IInv
<1> QED BY <1>1, InductiveInvariant, PTL

\* A peer that does not read is closed before its queue grows past the limit, but
\* for what was queued since ProcessorSend last looked.
THEOREM BacklogStaysBounded == Spec => []BacklogBounded
<1>1. IInv => BacklogBounded
  BY DEF IInv, BacklogOK
<1> QED BY <1>1, InductiveInvariant, PTL

\* While the socket is open, a unit is freed only when every byte of its message
\* has been copied for the kernel or taken by it.
THEOREM FreedOnceCopied == Spec => FreedWhenCopied
<1> DEFINE A == \A m \in held \ held' :
                  ~open \/ \A k \in 1 .. len[m] :
                              \E i \in DOMAIN (wire \o ioSend) : (wire \o ioSend)[i] = <<m, k>>
<1>1. IInv /\ [Next]_vars => [A]_vars
  <2> SUFFICES ASSUME IInv, Next, NEW m \in held \ held', open, NEW k \in 1 .. len[m]
               PROVE  \E i \in DOMAIN stream : stream[i] = <<m, k>>
    BY DEF stream
  <2>1. pc # "clear"
    BY DEF IInv, PlaceOK
  <2>2. Copied /\ oMsg # 0
    <3>1. held' # held /\ m \in held /\ m \notin held'
      OBVIOUS
    <3>2. ~SendData /\ ~CloseByRecv /\ ~ClearQueue /\ ~ClearBuffer
      BY <2>1, <3>1 DEF SendData, CloseByRecv, ClearQueue, ClearBuffer
    <3>3. ~ (\E s \in Senders : Sender(s))
      BY <3>1 DEF Sender, SenderCheck, SenderAlloc, SenderCount, SenderLink
    <3>4. /\ ~Call /\ ~HasRoom /\ ~NoRoom /\ ~SendFull /\ ~Copy /\ ~NextMessage
          /\ ~NoMessage /\ ~Flush
      BY <3>1 DEF Call, HasRoom, NoRoom, SendFull, Copy, NextMessage, NoMessage, Flush,
                  KernelError, KernelBusy, KernelAccepts
    <3> QED BY <3>1, <3>2, <3>3, <3>4 DEF Next, ProcessorSend, Copied
  <2>3. m = Head(queue) /\ queue # << >> /\ canRead <= 0
    BY <2>2 DEF Copied, PopAndFree
  <2>4. /\ oMsg = queue[1] /\ oPos <= len[oMsg]
        /\ \A j \in 1 .. oPos : at[oMsg] + j <= Len(stream)
                                /\ stream[at[oMsg] + j] = <<oMsg, j>>
    BY <2>2 DEF IInv, ReadOK
  <2>5. oMsg = m /\ oMsg \in Ids
    BY <2>2, <2>3, <2>4 DEF IInv, TypeOK, Ids
  <2>6. len[oMsg] \in Nat /\ at[oMsg] \in Nat /\ oPos \in Nat
    BY <2>5 DEF IInv, TypeOK
  <2>7. k \in 1 .. oPos
    BY <2>2, <2>3, <2>5, <2>6 DEF canRead
  <2>8. at[oMsg] + k \in DOMAIN stream
    BY <2>4, <2>6, <2>7, StreamFacts DEF IInv
  <2> QED BY <2>4, <2>5, <2>7, <2>8
<1>2. Spec => [][A]_vars
  <2>1. Spec => [][Next]_vars
    BY DEF Spec
  <2> QED BY <1>1, <2>1, InductiveInvariant, PTL
<1> QED BY <1>2 DEF FreedWhenCopied
==============================================================================
