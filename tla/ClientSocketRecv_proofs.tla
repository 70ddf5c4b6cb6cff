----------------------- MODULE ClientSocketRecv_proofs -----------------------
(***************************************************************************)
(* Proofs about ClientSocketRecv, for every size of head, package and      *)
(* buffer, all message lengths and every way the stream is cut.            *)
(*                                                                         *)
(* The argument: the bytes taken and not yet delivered are in the buffer,  *)
(* in order, and begin where the next message begins; so the length field  *)
(* read there is that message's.                                           *)
(***************************************************************************)
EXTENDS ClientSocketRecv, TLAPS

\* The last byte of the messages delivered, and of the messages of the peer.
Done == IF delivered = << >> THEN 0 ELSE Last(sent[Len(delivered)])
StreamEnd == IF sent = << >> THEN 0 ELSE Last(sent[Len(sent)])

\* The peer's messages follow each other without gaps.
SentOK ==
    /\ \A i \in 1 .. Len(sent) : i = 1 => sent[i].at = 1
    /\ \A i \in 1 .. Len(sent) - 1 : sent[i + 1].at = Last(sent[i]) + 1
    /\ \A i, j \in 1 .. Len(sent) : i < j => Last(sent[i]) < sent[j].at
    /\ sentEnd <= StreamEnd
    /\ ~peerClosed => sentEnd = StreamEnd

\* The first messages were delivered.
Packages == UNION {[0 .. n - 1 -> Nat] : n \in Nat}
DeliveredOK ==
    /\ delivered \in Seq(Packages)
    /\ Len(delivered) <= Len(sent)
    /\ \A i \in 1 .. Len(delivered) : delivered[i] = Bytes(sent[i])

\* The bytes between the delivered ones and taken are in the buffer.
BufferOK ==
    /\ parsing => /\ open
                  /\ taken - (end - pos) = Done
                  /\ \A k \in pos .. end - 1 : recvBuf[k] = taken - end + k + 1
    /\ open /\ ~parsing =>
          /\ taken - retainSize = Done
          /\ \A k \in 0 .. retainSize - 1 : recvBuf[k] = taken - retainSize + k + 1

Inv ==
    /\ TypeOK /\ SentOK /\ DeliveredOK /\ BufferOK
    /\ RoomForRecv /\ CompleteDelivered

------------------------------------------------------------------------------

\* A message in the model has a positive length.
LEMMA MessageFacts ==
    ASSUME RecvAssumption, NEW m \in Message
    PROVE  /\ m.at \in Nat /\ m.len \in Nat /\ m.at >= 1 /\ m.len >= HEAD /\ m.len >= 1
           /\ Last(m) \in Nat /\ Last(m) = m.at + m.len - 1
           /\ m.len \in Lengths
<1>1. m.at \in 1 .. MaxBytes /\ m.len \in Lengths
  BY DEF Message
<1>2. m.len \in Nat /\ m.len >= HEAD
  BY <1>1 DEF RecvAssumption
<1>3. m.at \in Nat /\ m.at >= 1
  BY <1>1 DEF RecvAssumption
<1>4. m.len >= 1
  BY <1>2 DEF RecvAssumption
<1> QED BY <1>1, <1>2, <1>3, <1>4 DEF Last

\* Done and StreamEnd are numbers.
LEMMA EndFacts ==
    ASSUME RecvAssumption, TypeOK, DeliveredOK
    PROVE  /\ Len(sent) \in Nat /\ Len(delivered) \in Nat
           /\ DOMAIN sent = 1 .. Len(sent)
           /\ Done \in Nat /\ StreamEnd \in Nat
<1>1. sent \in Seq(Message) /\ delivered \in Seq(Packages) /\ Len(delivered) <= Len(sent)
  BY DEF TypeOK, DeliveredOK
<1>2. ASSUME NEW j \in 1 .. Len(sent) PROVE Last(sent[j]) \in Nat
  BY <1>1, MessageFacts
<1>3. Done \in Nat
  BY <1>1, <1>2 DEF Done
<1>4. StreamEnd \in Nat
  BY <1>1, <1>2 DEF StreamEnd
<1> QED BY <1>1, <1>3, <1>4

\* While bytes are unread, the next message begins at the first of them.
LEMMA NextMessage ==
    ASSUME RecvAssumption, TypeOK, SentOK, DeliveredOK, Done < taken
    PROVE  /\ Len(delivered) + 1 \in 1 .. Len(sent)
           /\ sent[Len(delivered) + 1] \in Message
           /\ sent[Len(delivered) + 1].at = Done + 1
<1>1. Done < StreamEnd
  <2>1. Done \in Int /\ StreamEnd \in Int
    BY EndFacts
  <2> QED BY <2>1 DEF TypeOK, SentOK
<1>2. Len(delivered) < Len(sent)
  <2>1. Len(delivered) # Len(sent)
    <3>1. SUFFICES ASSUME Len(delivered) = Len(sent) PROVE FALSE
      OBVIOUS
    <3>2. Done = StreamEnd
      BY <3>1 DEF Done, StreamEnd, TypeOK, DeliveredOK
    <3> QED BY <1>1, <3>2, MessageFacts DEF StreamEnd, TypeOK
  <2> QED BY <2>1 DEF TypeOK, DeliveredOK
<1>3. Len(delivered) + 1 \in 1 .. Len(sent)
  BY <1>2 DEF TypeOK, DeliveredOK
<1>4. sent[Len(delivered) + 1] \in Message
  BY <1>3 DEF TypeOK
<1>5. sent[Len(delivered) + 1].at = Done + 1
  <2>1. CASE delivered = << >>
    BY <1>3, <2>1 DEF SentOK, Done
  <2>2. CASE delivered # << >>
    <3>1. Len(delivered) \in 1 .. Len(sent) - 1
      BY <1>2, <2>2 DEF TypeOK, DeliveredOK
    <3> QED BY <2>2, <3>1 DEF SentOK, Done
  <2> QED BY <2>1, <2>2
<1> QED BY <1>3, <1>4, <1>5

\* The length read where bytes are unread is the next message's.
LEMMA HeadLength ==
    ASSUME RecvAssumption, TypeOK, SentOK, DeliveredOK, BufferOK, parsing, HeadComplete
    PROVE  /\ Len(delivered) + 1 \in 1 .. Len(sent)
           /\ sent[Len(delivered) + 1] \in Message
           /\ sent[Len(delivered) + 1].at = Done + 1
           /\ HeadLengths = {sent[Len(delivered) + 1].len}
<1> DEFINE d == Len(delivered) + 1
<1>1. pos \in pos .. end - 1 /\ recvBuf[pos] = Done + 1 /\ Done < taken
  <2>1. pos \in pos .. end - 1
    BY DEF HeadComplete, canRead, TypeOK, RecvAssumption
  <2>2. recvBuf[pos] = taken - end + pos + 1 /\ taken - (end - pos) = Done
    BY <2>1 DEF BufferOK
  <2> QED BY <2>1, <2>2 DEF TypeOK
<1>2. d \in 1 .. Len(sent) /\ sent[d] \in Message /\ sent[d].at = Done + 1
  BY <1>1, NextMessage
<1>3. \A i \in DOMAIN sent : sent[i].at = sent[d].at => i = d
  <2>1. SUFFICES ASSUME NEW i \in 1 .. Len(sent), sent[i].at = sent[d].at, i # d
                 PROVE FALSE
    BY DEF TypeOK
  <2>2. sent[i] \in Message
    BY DEF TypeOK
  <2>3. CASE i < d
    BY <1>2, <2>1, <2>2, <2>3, MessageFacts DEF SentOK
  <2>4. CASE d < i
    BY <1>2, <2>1, <2>2, <2>4, MessageFacts DEF SentOK
  <2> QED BY <1>2, <2>1, <2>3, <2>4
<1>4. {m \in {sent[i] : i \in DOMAIN sent} : m.at = recvBuf[pos]} = {sent[d]}
  <2>1. d \in DOMAIN sent
    BY <1>2 DEF TypeOK
  <2>2. sent[d].at = recvBuf[pos]
    BY <1>1, <1>2
  <2> HIDE DEF d
  <2> QED BY <1>3, <2>1, <2>2
<1>5. HeadLengths = {sent[d].len}
  BY <1>4 DEF HeadLengths
<1> QED BY <1>2, <1>5

------------------------------------------------------------------------------

\* No message that is not delivered ends in less than a head behind Done, nor
\* before the end of the next one.
LEMMA Undelivered ==
    ASSUME RecvAssumption, TypeOK, SentOK, DeliveredOK, NEW n \in Nat,
           n = taken - Done,
           \/ n < HEAD
           \/ Done < taken /\ n < sent[Len(delivered) + 1].len
    PROVE  \A i \in DOMAIN sent : Last(sent[i]) <= taken => i <= Len(delivered)
<1> SUFFICES ASSUME NEW i \in 1 .. Len(sent), Last(sent[i]) <= taken, i > Len(delivered)
             PROVE FALSE
  BY EndFacts
<1> DEFINE d == Len(delivered) + 1
<1>1. sent[i] \in Message
  BY DEF TypeOK
<1>2. Len(delivered) \in Nat /\ d \in 1 .. Len(sent) /\ i \in Nat /\ d <= i
  BY DEF TypeOK, DeliveredOK
<1>3. sent[d] \in Message
  BY <1>2 DEF TypeOK
<1>4. Last(sent[d]) <= Last(sent[i])
  <2>1. CASE d = i
    BY <1>1, <2>1, MessageFacts
  <2>2. CASE d # i
    <3>1. Last(sent[d]) < sent[i].at
      BY <1>2, <2>2 DEF SentOK
    <3>2. /\ Last(sent[d]) \in Nat /\ Last(sent[i]) \in Nat
          /\ sent[i].at \in Nat /\ sent[i].len \in Nat /\ sent[i].len >= 1
          /\ Last(sent[i]) = sent[i].at + sent[i].len - 1
      BY <1>1, <1>3, MessageFacts
    <3> HIDE DEF d
    <3> QED BY <3>1, <3>2
  <2> QED BY <2>1, <2>2
<1>5. sent[d].at = Done + 1
  <2>1. CASE delivered = << >>
    BY <1>2, <2>1 DEF SentOK, Done
  <2>2. CASE delivered # << >>
    <3>1. Len(delivered) \in 1 .. Len(sent) - 1
      BY <1>2, <2>2 DEF TypeOK, DeliveredOK
    <3> QED BY <2>2, <3>1 DEF SentOK, Done
  <2> QED BY <2>1, <2>2
<1>6. n < sent[d].len
  <2>1. sent[d].len \in Nat /\ HEAD <= sent[d].len
    BY <1>3, MessageFacts
  <2>2. CASE n < HEAD
    BY <2>1, <2>2 DEF RecvAssumption
  <2> QED BY <2>2
<1>7. Done \in Int /\ taken \in Nat
  BY EndFacts DEF TypeOK
<1>8. Last(sent[d]) = Done + sent[d].len /\ sent[d].len \in Nat /\ Last(sent[i]) \in Nat
  <2>1. Last(sent[d]) = sent[d].at + sent[d].len - 1 /\ sent[d].len \in Nat
    BY <1>3, MessageFacts
  <2>2. Last(sent[i]) \in Nat
    BY <1>1, MessageFacts
  <2>3. Done + 1 + sent[d].len - 1 = Done + sent[d].len
    BY <1>7, <2>1
  <2>4. Last(sent[d]) = Done + 1 + sent[d].len - 1
    BY <1>5, <2>1, Zenon
  <2> QED BY <2>1, <2>2, <2>3, <2>4, Zenon
<1> QED BY <1>4, <1>6, <1>7, <1>8

------------------------------------------------------------------------------

LEMMA InitInv == ASSUME RecvAssumption, Init PROVE Inv
<1>1. TypeOK
  <2>1. RECV_BUF \in Nat /\ recvBuf \in [0 .. RECV_BUF - 1 -> Nat]
    BY DEF RecvAssumption, Init
  <2>2. sent \in Seq(Message) /\ 0 \in 0 .. RECV_BUF
    BY <2>1 DEF Init
  <2>3. /\ sentEnd \in Nat /\ arrived \in 0 .. sentEnd /\ taken \in 0 .. arrived
        /\ end \in 0 .. RECV_BUF /\ pos \in 0 .. end /\ retainSize \in 0 .. RECV_BUF
    BY <2>1 DEF Init
  <2>4. peerClosed \in BOOLEAN /\ open \in BOOLEAN /\ parsing \in BOOLEAN
    BY DEF Init
  <2> QED BY <2>1, <2>2, <2>3, <2>4 DEF TypeOK
<1>2. SentOK
  BY DEF Init, SentOK, StreamEnd
<1>3. DeliveredOK
  BY DEF Init, DeliveredOK
<1>4. BufferOK
  BY DEF Init, BufferOK, Done
<1>5. RoomForRecv /\ CompleteDelivered
  BY DEF Init, RoomForRecv, CompleteDelivered, RecvAssumption
<1> QED BY <1>1, <1>2, <1>3, <1>4, <1>5 DEF Inv

LEMMA PeerSendInv == ASSUME RecvAssumption, Inv, PeerSend PROVE Inv'
<1> USE DEF Inv
<1>1. PICK n \in Lengths :
         /\ sentEnd + n <= MaxBytes
         /\ sent' = Append(sent, [at |-> sentEnd + 1, len |-> n])
         /\ sentEnd' = sentEnd + n
  BY DEF PeerSend
<1> DEFINE m == [at |-> sentEnd + 1, len |-> n]
           L == Len(sent)
<1>2. n \in Nat /\ n >= HEAD /\ n >= 1 /\ HEAD \in Nat
  BY DEF RecvAssumption
<1>3. sentEnd \in Nat /\ sentEnd + 1 \in 1 .. MaxBytes /\ MaxBytes \in Nat
  BY <1>1, <1>2 DEF TypeOK, RecvAssumption
<1>4. m \in Message
  BY <1>3 DEF Message
<1>5. Last(m) = sentEnd + n
  BY <1>2, <1>3 DEF Last
<1>6. /\ L \in Nat /\ Len(sent') = L + 1 /\ sent' \in Seq(Message)
      /\ sent'[L + 1] = m
      /\ \A i \in 1 .. L : sent'[i] = sent[i]
  BY <1>1, <1>4 DEF TypeOK
<1>7. /\ UNCHANGED <<peerClosed, arrived, taken, open, recvBuf, pos, end, retainSize,
                     parsing, delivered>>
      /\ ~peerClosed
  BY DEF PeerSend
<1>8. sentEnd = StreamEnd
  BY <1>7 DEF SentOK
<1>9. \A i \in 1 .. L : Last(sent[i]) <= sentEnd
  <2>1. SUFFICES ASSUME NEW i \in 1 .. L PROVE Last(sent[i]) <= sentEnd
    OBVIOUS
  <2>2. L \in 1 .. L /\ sent # << >> /\ sentEnd = Last(sent[L])
    BY <1>6, <1>8, <2>1 DEF StreamEnd, TypeOK
  <2>3. sent[i] \in Message /\ sent[L] \in Message
    BY <2>1, <2>2 DEF TypeOK
  <2>4. CASE i = L
    BY <1>3, <2>2, <2>4
  <2>5. CASE i < L
    <3>1. Last(sent[i]) < sent[L].at
      BY <2>1, <2>2, <2>5 DEF SentOK
    <3>2. /\ Last(sent[i]) \in Nat /\ sent[L].at \in Nat /\ sent[L].len \in Nat
          /\ sent[L].len >= 1 /\ Last(sent[L]) = sent[L].at + sent[L].len - 1
      BY <2>3, MessageFacts
    <3> QED BY <2>2, <3>1, <3>2
  <2> QED BY <1>6, <2>1, <2>4, <2>5
<1>10. TypeOK'
  BY <1>1, <1>2, <1>6, <1>7 DEF TypeOK
<1>11. SentOK'
  <2>1. \A i \in 1 .. L + 1 : i = 1 => sent'[i].at = 1
    <3>1. CASE L = 0
      BY <1>6, <1>8, <3>1 DEF StreamEnd, TypeOK
    <3>2. CASE L # 0
      BY <1>6, <3>2 DEF SentOK
    <3> QED BY <3>1, <3>2
  <2>2. \A i \in 1 .. L : sent'[i + 1].at = Last(sent'[i]) + 1
    <3>1. SUFFICES ASSUME NEW i \in 1 .. L PROVE sent'[i + 1].at = Last(sent[i]) + 1
      BY <1>6
    <3>2. CASE i = L
      <4>1. sentEnd = Last(sent[L])
        BY <1>6, <1>8, <3>2 DEF StreamEnd, TypeOK
      <4> QED BY <1>6, <3>2, <4>1
    <3>3. CASE i # L
      <4>1. i \in 1 .. L - 1 /\ i + 1 \in 1 .. L
        BY <1>6, <3>1, <3>3
      <4> QED BY <1>6, <4>1 DEF SentOK
    <3> QED BY <3>2, <3>3
  <2>3. \A i, j \in 1 .. L + 1 : i < j => Last(sent'[i]) < sent'[j].at
    <3>1. SUFFICES ASSUME NEW i \in 1 .. L + 1, NEW j \in 1 .. L + 1, i < j
                   PROVE Last(sent'[i]) < sent'[j].at
      OBVIOUS
    <3>2. i \in 1 .. L /\ sent'[i] = sent[i] /\ Last(sent[i]) \in Nat
      <4>1. i \in 1 .. L
        BY <1>6, <3>1
      <4>2. sent[i] \in Message
        BY <4>1 DEF TypeOK
      <4> QED BY <1>6, <4>1, <4>2, MessageFacts
    <3>3. CASE j = L + 1
      BY <1>3, <1>6, <1>9, <3>2, <3>3
    <3>4. CASE j # L + 1
      <4>1. j \in 1 .. L
        BY <1>6, <3>4
      <4> QED BY <1>6, <3>1, <3>2, <4>1 DEF SentOK
    <3> QED BY <3>3, <3>4
  <2>4. sentEnd' = StreamEnd'
    BY <1>1, <1>5, <1>6 DEF StreamEnd
  <2> QED BY <1>1, <1>2, <1>3, <1>6, <2>1, <2>2, <2>3, <2>4 DEF SentOK
<1>12. Len(delivered) \in 0 .. L
  BY <1>6, EndFacts DEF DeliveredOK
<1>13. Done' = Done
  <2>1. CASE delivered = << >>
    BY <1>7, <2>1 DEF Done
  <2>2. CASE delivered # << >>
    BY <1>6, <1>7, <1>12, <2>2 DEF Done, DeliveredOK
  <2> QED BY <2>1, <2>2
<1>14. DeliveredOK'
  BY <1>6, <1>7, <1>12 DEF DeliveredOK
<1>15. BufferOK'
  BY <1>7, <1>13 DEF BufferOK
<1>16. RoomForRecv'
  BY <1>7 DEF RoomForRecv
<1>17. CompleteDelivered'
  <2>1. SUFFICES ASSUME open, ~parsing, NEW i \in 1 .. L + 1, Last(sent'[i]) <= taken
                 PROVE i <= Len(delivered)
    BY <1>6, <1>7 DEF CompleteDelivered
  <2>2. CASE i = L + 1
    BY <1>2, <1>5, <1>6, <2>1, <2>2 DEF TypeOK
  <2>3. CASE i # L + 1
    <3>1. i \in 1 .. L
      BY <1>6, <2>3
    <3>2. i \in DOMAIN sent /\ sent'[i] = sent[i]
      BY <1>6, <3>1, EndFacts
    <3> QED BY <2>1, <3>2 DEF CompleteDelivered
  <2> QED BY <2>2, <2>3
<1> QED BY <1>10, <1>11, <1>14, <1>15, <1>16, <1>17

LEMMA ArriveInv == ASSUME RecvAssumption, Inv, Arrive PROVE Inv'
<1>1. /\ arrived' \in arrived + 1 .. sentEnd
      /\ UNCHANGED <<sent, sentEnd, peerClosed, taken, open, recvBuf, pos, end,
                     retainSize, parsing, delivered>>
  BY DEF Arrive
<1>2. TypeOK'
  BY <1>1 DEF Inv, TypeOK
<1>3. SentOK' /\ DeliveredOK' /\ BufferOK'
  BY <1>1 DEF Inv, SentOK, DeliveredOK, BufferOK, Done, StreamEnd
<1>4. RoomForRecv' /\ CompleteDelivered'
  BY <1>1 DEF Inv, RoomForRecv, CompleteDelivered
<1> QED BY <1>2, <1>3, <1>4 DEF Inv

LEMMA PeerCloseInv == ASSUME RecvAssumption, Inv, PeerClose PROVE Inv'
<1>1. /\ peerClosed' = TRUE
      /\ sentEnd' \in arrived .. sentEnd
      /\ UNCHANGED <<sent, arrived, taken, open, recvBuf, pos, end, retainSize, parsing,
                     delivered>>
  BY DEF PeerClose
<1>2. TypeOK'
  BY <1>1 DEF Inv, TypeOK
<1>3. SentOK'
  <2>1. StreamEnd \in Nat /\ StreamEnd' = StreamEnd /\ sentEnd \in Nat /\ arrived \in Nat
    BY <1>1, EndFacts DEF Inv, StreamEnd, TypeOK
  <2> QED BY <1>1, <2>1 DEF Inv, SentOK
<1>4. DeliveredOK' /\ BufferOK'
  BY <1>1 DEF Inv, DeliveredOK, BufferOK, Done
<1>5. RoomForRecv' /\ CompleteDelivered'
  BY <1>1 DEF Inv, RoomForRecv, CompleteDelivered
<1> QED BY <1>2, <1>3, <1>4, <1>5 DEF Inv

\* Whoever closes leaves nothing to check but the types.
LEMMA CloseInv ==
    ASSUME RecvAssumption, Inv, Close, UNCHANGED retainSize
    PROVE  Inv'
<1>1. TypeOK'
  <2>1. /\ UNCHANGED <<sent, sentEnd, peerClosed, arrived, taken, recvBuf, retainSize>>
        /\ open' = FALSE /\ parsing' = FALSE /\ pos' = 0 /\ end' = 0
    BY DEF Close, peer
  <2>2. RECV_BUF \in Nat
    BY DEF RecvAssumption
  <2>3. end' \in 0 .. RECV_BUF /\ pos' \in 0 .. end'
    BY <2>1, <2>2
  <2> QED BY <2>1, <2>3 DEF Inv, TypeOK
<1>2. SentOK' /\ DeliveredOK' /\ BufferOK'
  BY DEF Inv, SentOK, DeliveredOK, BufferOK, StreamEnd, Close, peer
<1>3. RoomForRecv' /\ CompleteDelivered'
  BY DEF RoomForRecv, CompleteDelivered, Close
<1> QED BY <1>1, <1>2, <1>3 DEF Inv

LEMMA RecvInv == ASSUME RecvAssumption, Inv, Recv PROVE Inv'
<1> DEFINE n == Smaller(arrived - taken, Room)
<1>1. /\ n \in Nat /\ n > 0 /\ n <= arrived - taken /\ n <= RECV_BUF - retainSize
      /\ taken \in Nat /\ arrived \in Nat /\ retainSize \in Nat /\ RECV_BUF \in Nat
  BY DEF Recv, Smaller, Room, Inv, TypeOK, RecvAssumption
<1>2. /\ open /\ ~parsing
      /\ taken' = taken + n /\ pos' = 0 /\ end' = n + retainSize /\ retainSize' = 0
      /\ parsing' = TRUE
      /\ UNCHANGED <<sent, sentEnd, peerClosed, arrived, open, delivered>>
  BY DEF Recv, peer
<1>3. /\ recvBuf' \in [0 .. RECV_BUF - 1 -> Nat]
      /\ \A j \in 0 .. RECV_BUF - 1 :
            recvBuf'[j] = IF j \in retainSize .. retainSize + n - 1
                          THEN taken + (j - retainSize) + 1 ELSE recvBuf[j]
  <2>1. recvBuf' = [j \in 0 .. RECV_BUF - 1 |->
                      IF j \in retainSize .. retainSize + n - 1
                      THEN taken + (j - retainSize) + 1 ELSE recvBuf[j]]
    BY DEF Recv
  <2>2. recvBuf \in [0 .. RECV_BUF - 1 -> Nat]
    BY DEF Inv, TypeOK
  <2> HIDE DEF n
  <2> QED BY <1>1, <2>1, <2>2
<1> HIDE DEF n
<1>4. TypeOK'
  BY <1>1, <1>2, <1>3 DEF Inv, TypeOK
<1>5. SentOK' /\ DeliveredOK'
  BY <1>2 DEF Inv, SentOK, DeliveredOK, StreamEnd
<1>6. BufferOK'
  <2>1. Done' = Done
    BY <1>2 DEF Done
  <2>2. /\ taken - retainSize = Done
        /\ \A j \in 0 .. retainSize - 1 : recvBuf[j] = taken - retainSize + j + 1
    BY <1>2 DEF Inv, BufferOK
  <2>3. taken' - (end' - pos') = Done
    BY <1>1, <1>2, <2>2
  <2>4. \A j \in 0 .. n + retainSize - 1 :
           recvBuf'[j] = taken + n - (n + retainSize) + j + 1
    <3>1. SUFFICES ASSUME NEW j \in 0 .. n + retainSize - 1
                   PROVE recvBuf'[j] = taken + n - (n + retainSize) + j + 1
      OBVIOUS
    <3>2. j \in 0 .. RECV_BUF - 1
      BY <1>1
    <3>3. CASE j < retainSize
      <4>1. recvBuf'[j] = recvBuf[j]
        BY <1>1, <1>3, <3>2, <3>3
      <4>2. j \in 0 .. retainSize - 1
        BY <1>1, <3>2, <3>3
      <4>3. recvBuf[j] = taken - retainSize + j + 1
        BY <2>2, <4>2
      <4> QED BY <1>1, <3>2, <4>1, <4>3
    <3>4. CASE j >= retainSize
      BY <1>1, <1>3, <3>2, <3>4
    <3> QED BY <1>1, <3>3, <3>4
  <2>5. \A j \in pos' .. end' - 1 : recvBuf'[j] = taken' - end' + j + 1
    <3>1. pos' = 0 /\ end' = n + retainSize /\ taken' = taken + n
      BY <1>2
    <3>2. SUFFICES ASSUME NEW j \in 0 .. n + retainSize - 1
                   PROVE recvBuf'[j] = taken + n - (n + retainSize) + j + 1
      BY <1>1, <3>1
    <3> QED BY <2>4
  <2> QED BY <1>2, <2>1, <2>3, <2>5 DEF BufferOK
<1>7. RoomForRecv' /\ CompleteDelivered'
  BY <1>2 DEF RoomForRecv, CompleteDelivered
<1> QED BY <1>4, <1>5, <1>6, <1>7 DEF Inv

LEMMA OnMsgHandleInv == ASSUME RecvAssumption, Inv, OnMsgHandle PROVE Inv'
<1> DEFINE d == Len(delivered) + 1
           m == sent[d]
           package == [k \in 0 .. m.len - 1 |-> recvBuf[pos + k]]
<1>1. /\ d \in 1 .. Len(sent) /\ m \in Message /\ m.at = Done + 1
      /\ HeadLengths = {m.len}
  BY HeadLength DEF Inv, OnMsgHandle
<1>2. /\ parsing /\ m.len <= canRead
      /\ delivered' = Append(delivered, package)
      /\ pos' = pos + m.len
      /\ UNCHANGED <<sent, sentEnd, peerClosed, arrived, taken, open, recvBuf, end,
                     retainSize, parsing>>
  BY <1>1 DEF OnMsgHandle, Complete, peer
<1>3. /\ m.len \in Nat /\ m.at \in Nat /\ m.len >= 1 /\ Last(m) = m.at + m.len - 1
      /\ Done \in Nat /\ Len(delivered) \in Nat
  BY <1>1, MessageFacts, EndFacts DEF Inv
<1>4. /\ pos \in Nat /\ end \in Nat /\ end <= RECV_BUF /\ pos + m.len <= end
      /\ taken \in Nat /\ RECV_BUF \in Nat
      /\ recvBuf \in [0 .. RECV_BUF - 1 -> Nat]
  BY <1>2, <1>3 DEF canRead, Inv, TypeOK, RecvAssumption
<1>5. /\ open /\ taken - (end - pos) = Done
      /\ \A k \in pos .. end - 1 : recvBuf[k] = taken - end + k + 1
  BY <1>2 DEF Inv, BufferOK
<1> HIDE DEF m
<1>6. package = [k \in 0 .. m.len - 1 |-> m.at + k]
  <2>1. ASSUME NEW k \in 0 .. m.len - 1 PROVE recvBuf[pos + k] = m.at + k
    <3>1. pos + k \in pos .. end - 1
      BY <1>3, <1>4
    <3>2. recvBuf[pos + k] = taken - end + (pos + k) + 1
      BY <1>5, <3>1
    <3> QED BY <1>1, <1>3, <1>4, <1>5, <3>2
  <2> QED BY <2>1
<1>7. package \in Packages
  <2>1. package \in [0 .. m.len - 1 -> Nat]
    BY <1>3, <1>6
  <2> QED BY <1>3, <2>1 DEF Packages
<1> HIDE DEF package
<1>8. /\ delivered' \in Seq(Packages) /\ Len(delivered') = d
      /\ delivered'[d] = Bytes(m)
      /\ \A i \in 1 .. Len(delivered) : delivered'[i] = delivered[i]
  BY <1>2, <1>6, <1>7 DEF Inv, DeliveredOK, Bytes
<1>9. Done' = Done + m.len
  <2>1. delivered' # << >>
    BY <1>3, <1>8
  <2>2. Done' = Last(m)
    BY <1>2, <1>8, <2>1 DEF Done, m
  <2> QED BY <1>1, <1>3, <2>2
<1>10. TypeOK'
  BY <1>2, <1>3, <1>4 DEF Inv, TypeOK
<1>11. SentOK'
  BY <1>2 DEF Inv, SentOK, StreamEnd
<1>12. DeliveredOK'
  <2>1. ASSUME NEW i \in 1 .. d PROVE delivered'[i] = Bytes(sent'[i])
    <3>1. CASE i = d
      BY <1>2, <1>8, <3>1 DEF m
    <3>2. CASE i # d
      <4>1. i \in 1 .. Len(delivered)
        BY <1>3, <3>2
      <4> QED BY <1>2, <1>8, <4>1 DEF Inv, DeliveredOK
    <3> QED BY <3>1, <3>2
  <2> QED BY <1>1, <1>2, <1>8, <2>1 DEF DeliveredOK
<1>13. BufferOK'
  <2>1. taken' - (end' - pos') = Done'
    <3>1. taken - (end - pos) = Done /\ pos' = pos + m.len /\ end' = end /\ taken' = taken
      BY <1>2, <1>5
    <3>2. m.len \in Nat /\ Done \in Nat /\ pos \in Nat /\ end \in Nat /\ taken \in Nat
      BY <1>3, <1>4
    <3> QED BY <1>9, <3>1, <3>2
  <2>2. \A k \in pos' .. end' - 1 : recvBuf'[k] = taken' - end' + k + 1
    BY <1>2, <1>3, <1>4, <1>5
  <2> QED BY <1>2, <1>5, <2>1, <2>2 DEF BufferOK
<1>14. RoomForRecv' /\ CompleteDelivered'
  BY <1>2 DEF RoomForRecv, CompleteDelivered
<1> QED BY <1>10, <1>11, <1>12, <1>13, <1>14 DEF Inv

LEMMA RetainInv == ASSUME RecvAssumption, Inv, Retain PROVE Inv'
<1> DEFINE n == canRead
           next == sent[Len(delivered) + 1]
<1>1. /\ n = end - pos /\ n \in Nat /\ n <= RECV_BUF /\ pos \in Nat /\ end \in Nat
      /\ taken \in Nat /\ RECV_BUF \in Nat /\ pos + n = end /\ end <= RECV_BUF
      /\ HEAD \in Nat /\ PACKAGE_MAX \in Nat /\ HEAD <= PACKAGE_MAX
      /\ recvBuf \in [0 .. RECV_BUF - 1 -> Nat]
  BY DEF Inv, TypeOK, canRead, RecvAssumption
<1>2. /\ parsing /\ parsing' = FALSE
      /\ pos' = 0 /\ end' = n /\ retainSize' = n
      /\ UNCHANGED <<sent, sentEnd, peerClosed, arrived, taken, open, delivered>>
  BY DEF Retain, peer
<1>3. /\ open /\ taken - (end - pos) = Done
      /\ \A k \in pos .. end - 1 : recvBuf[k] = taken - end + k + 1
  BY <1>2 DEF Inv, BufferOK
<1>4. /\ recvBuf' \in [0 .. RECV_BUF - 1 -> Nat]
      /\ \A k \in 0 .. n - 1 : recvBuf'[k] = recvBuf[pos + k]
  <2>1. recvBuf' = [k \in 0 .. RECV_BUF - 1 |->
                      IF k < n THEN recvBuf[pos + k] ELSE recvBuf[k]]
    BY DEF Retain, moveDataToFront
  <2> HIDE DEF n
  <2>2. ASSUME NEW k \in 0 .. RECV_BUF - 1
        PROVE  (IF k < n THEN recvBuf[pos + k] ELSE recvBuf[k]) \in Nat
    <3>1. CASE k < n
      <4>1. pos + k \in 0 .. RECV_BUF - 1
        BY <1>1, <3>1
      <4> QED BY <1>1, <3>1, <4>1
    <3>2. CASE ~(k < n)
      BY <1>1, <3>2
    <3> QED BY <3>1, <3>2
  <2>3. recvBuf' \in [0 .. RECV_BUF - 1 -> Nat]
    BY <2>1, <2>2
  <2>4. ASSUME NEW k \in 0 .. n - 1 PROVE recvBuf'[k] = recvBuf[pos + k]
    <3>1. k \in 0 .. RECV_BUF - 1 /\ k < n
      BY <1>1
    <3> QED BY <2>1, <3>1
  <2> QED BY <2>3, <2>4
<1>5. /\ Done \in Nat /\ n = taken - Done
  BY <1>1, <1>3, EndFacts DEF Inv
\* What is kept is less than a head, or less than the next message.
<1>6. /\ n < PACKAGE_MAX
      /\ n < HEAD \/ (Done < taken /\ n < next.len)
  <2>1. CASE ~HeadComplete
    <3>1. n < HEAD
      BY <1>1, <2>1 DEF HeadComplete
    <3> QED BY <1>1, <3>1
  <2>2. CASE HeadComplete
    <3>1. HeadLengths = {next.len} /\ next \in Message
      BY <1>2, <2>2, HeadLength DEF Inv
    <3>2. next.len <= PACKAGE_MAX /\ ~(next.len <= n)
      BY <2>2, <3>1 DEF Retain, Accepted, Complete
    <3>3. next.len \in Nat
      BY <3>1, MessageFacts
    <3>4. n >= HEAD /\ HEAD # 0
      BY <2>2 DEF HeadComplete, RecvAssumption
    <3> HIDE DEF n, next
    <3>5. n < next.len /\ n < PACKAGE_MAX
      BY <1>1, <3>2, <3>3
    <3>6. Done < taken
      BY <1>1, <1>5, <3>4
    <3> QED BY <3>5, <3>6
  <2> QED BY <2>1, <2>2
<1> HIDE DEF n
<1>7. TypeOK'
  <2>1. end' \in 0 .. RECV_BUF /\ pos' \in 0 .. end' /\ retainSize' \in 0 .. RECV_BUF
    BY <1>1, <1>2
  <2>2. recvBuf' \in [0 .. RECV_BUF - 1 -> Nat]
    BY <1>4
  <2> QED BY <1>2, <2>1, <2>2 DEF Inv, TypeOK
<1>8. SentOK' /\ DeliveredOK'
  BY <1>2 DEF Inv, SentOK, DeliveredOK, StreamEnd
<1>9. BufferOK'
  <2>1. Done' = Done
    BY <1>2 DEF Done
  <2>2. ASSUME NEW k \in 0 .. n - 1 PROVE recvBuf'[k] = taken - n + k + 1
    <3>1. pos + k \in pos .. end - 1
      BY <1>1
    <3>2. recvBuf'[k] = taken - end + (pos + k) + 1
      BY <1>3, <1>4, <3>1
    <3> QED BY <1>1, <3>2
  <2>3. \A k \in 0 .. retainSize' - 1 : recvBuf'[k] = taken' - retainSize' + k + 1
    BY <1>2, <2>2
  <2>4. taken' - retainSize' = Done'
    BY <1>1, <1>2, <1>5, <2>1
  <2> QED BY <1>2, <2>3, <2>4 DEF BufferOK
<1>10. RoomForRecv'
  BY <1>2, <1>6 DEF RoomForRecv
<1>11. \A i \in DOMAIN sent : Last(sent[i]) <= taken => i <= Len(delivered)
  BY <1>1, <1>5, <1>6, Undelivered DEF Inv
<1>12. CompleteDelivered'
  BY <1>2, <1>11 DEF CompleteDelivered
<1> QED BY <1>7, <1>8, <1>9, <1>10, <1>12 DEF Inv

------------------------------------------------------------------------------

LEMMA NextInv == ASSUME RecvAssumption, Inv, [Next]_vars PROVE Inv'
<1>1. CASE PeerSend
  BY <1>1, PeerSendInv
<1>2. CASE Arrive
  BY <1>2, ArriveInv
<1>3. CASE PeerClose
  BY <1>3, PeerCloseInv
<1>4. CASE Recv
  BY <1>4, RecvInv
<1>5. CASE RecvNothing \/ RecvError \/ TooLong
  BY <1>5, CloseInv DEF RecvNothing, RecvError, TooLong
<1>6. CASE OnMsgHandle
  BY <1>6, OnMsgHandleInv
<1>7. CASE Retain
  BY <1>7, RetainInv
<1>8. CASE UNCHANGED vars
  <2> USE <1>8 DEF vars
  <2>1. TypeOK'
    BY DEF Inv, TypeOK
  <2>2. SentOK' /\ DeliveredOK' /\ BufferOK'
    BY DEF Inv, SentOK, DeliveredOK, BufferOK, Done, StreamEnd
  <2>3. RoomForRecv' /\ CompleteDelivered'
    BY DEF Inv, RoomForRecv, CompleteDelivered
  <2> QED BY <2>1, <2>2, <2>3 DEF Inv
<1> QED BY <1>1, <1>2, <1>3, <1>4, <1>5, <1>6, <1>7, <1>8 DEF Next, ProcessorRecv

\* The invariant behind the theorems below.
THEOREM RecvInvariant == Spec => []Inv
<1>1. Init => Inv
  BY InitInv, RecvAssumption
<1>2. Inv /\ [Next]_vars => Inv'
  BY NextInv, RecvAssumption
<1> QED BY <1>1, <1>2, PTL DEF Spec

\* Positions and sizes stay inside the buffer, and recv has returned no byte that
\* had not arrived.
THEOREM RecvTypeOK == Spec => []TypeOK
<1>1. Inv => TypeOK
  BY DEF Inv
<1> QED BY <1>1, RecvInvariant, PTL

\* recv is never called without room, however the stream is cut.
THEOREM RecvRoom == Spec => []RoomForRecv
<1>1. Inv => RoomForRecv
  BY DEF Inv
<1> QED BY <1>1, RecvInvariant, PTL

\* ProcessorRecv leaves no complete package in the buffer.
THEOREM RecvCompleteDelivered == Spec => []CompleteDelivered
<1>1. Inv => CompleteDelivered
  BY DEF Inv
<1> QED BY <1>1, RecvInvariant, PTL

------------------------------------------------------------------------------

\* What the peer's messages are to the channel.
sentBytes == [i \in DOMAIN sent |-> Bytes(sent[i])]

LEMMA SentBytes ==
    ASSUME TypeOK
    PROVE  /\ sentBytes \in Seq({Bytes(m) : m \in Message})
           /\ Len(sentBytes) = Len(sent)
           /\ \A i \in 1 .. Len(sent) : sentBytes[i] = Bytes(sent[i])
BY DEF TypeOK, sentBytes

\* A step of the receive path sends, delivers, or does neither.
LEMMA ChannelStep ==
    ASSUME RecvAssumption, Inv, Inv', [Next]_vars
    PROVE  [Channel!Next]_<<sentBytes, delivered>>
<1>1. CASE PeerSend
  <2>1. PICK n \in Lengths :
           /\ sentEnd + n <= MaxBytes
           /\ sent' = Append(sent, [at |-> sentEnd + 1, len |-> n])
    BY <1>1 DEF PeerSend
  <2> DEFINE m == [at |-> sentEnd + 1, len |-> n]
  <2>2. n \in Nat /\ n >= 1 /\ sentEnd \in Nat /\ MaxBytes \in Nat
    BY DEF RecvAssumption, Inv, TypeOK
  <2>3. m \in Message
    BY <2>1, <2>2 DEF Message
  <2> HIDE DEF m
  <2>4. /\ Len(sent) \in Nat /\ Len(sent') = Len(sent) + 1
        /\ sent'[Len(sent) + 1] = m
        /\ \A i \in 1 .. Len(sent) : sent'[i] = sent[i]
    BY <2>1, <2>3 DEF Inv, TypeOK, m
  <2>5. /\ sentBytes' \in Seq({Bytes(x) : x \in Message})
        /\ Len(sentBytes') = Len(sent')
        /\ \A i \in 1 .. Len(sent') : sentBytes'[i] = Bytes(sent'[i])
    <3>1. sent' \in Seq(Message)
      BY DEF Inv, TypeOK
    <3> QED BY <3>1 DEF sentBytes
  <2>6. sentBytes' = Append(sentBytes, Bytes(m))
    <3>1. SUFFICES ASSUME NEW i \in 1 .. Len(sent) + 1
                   PROVE sentBytes'[i] = Append(sentBytes, Bytes(m))[i]
      BY <2>4, <2>5, SentBytes DEF Inv
    <3>2. CASE i = Len(sent) + 1
      BY <2>4, <2>5, <3>2, SentBytes DEF Inv
    <3>3. CASE i # Len(sent) + 1
      <4>1. i \in 1 .. Len(sent)
        BY <2>4, <3>3
      <4> QED BY <2>4, <2>5, <4>1, SentBytes DEF Inv
    <3> QED BY <3>2, <3>3
  <2>7. UNCHANGED delivered
    BY <1>1 DEF PeerSend
  <2> QED BY <2>3, <2>6, <2>7 DEF Channel!Next, Channel!Send, sentBytes
<1>2. CASE OnMsgHandle
  <2>1. /\ UNCHANGED sent /\ delivered' = Append(delivered, delivered'[Len(delivered) + 1])
        /\ Len(delivered') = Len(delivered) + 1 /\ Len(delivered) \in Nat
    BY <1>2 DEF OnMsgHandle, peer, Inv, DeliveredOK
  <2>2. Len(delivered) + 1 \in 1 .. Len(sent)
    BY <2>1 DEF Inv, DeliveredOK, TypeOK
  <2>3. delivered'[Len(delivered) + 1] = Bytes(sent[Len(delivered) + 1])
    BY <2>1, <2>2 DEF Inv, DeliveredOK
  <2>4. sentBytes[Len(delivered) + 1] = Bytes(sent[Len(delivered) + 1])
    BY <2>2, SentBytes DEF Inv
  <2>5. UNCHANGED sentBytes /\ Len(delivered) < Len(sentBytes)
    BY <2>1, <2>2, SentBytes DEF Inv, sentBytes, TypeOK
  <2> QED BY <2>1, <2>3, <2>4, <2>5 DEF Channel!Next, Channel!Deliver, sentBytes
<1>3. CASE Arrive \/ PeerClose \/ Recv \/ RecvNothing \/ RecvError \/ TooLong \/ Retain
           \/ UNCHANGED vars
  <2>1. UNCHANGED <<sent, delivered>>
    BY <1>3 DEF Arrive, PeerClose, Recv, RecvNothing, RecvError, TooLong, Retain, Close,
                peer, vars
  <2> QED BY <2>1 DEF sentBytes
<1> QED BY <1>1, <1>2, <1>3 DEF Next, ProcessorRecv

\* The receive path implements the channel: OnMsgHandle is given the peer's
\* messages whole, in order and once, for every cut of the stream.
THEOREM RecvImplementsChannel == Spec => ImplementsChannel
<1>1. Init => Channel!Init
  BY DEF Init, Channel!Init
<1>2. Inv /\ Inv' /\ [Next]_vars => [Channel!Next]_<<sentBytes, delivered>>
  BY ChannelStep, RecvAssumption
<1> QED BY <1>1, <1>2, RecvInvariant, PTL DEF Spec, ImplementsChannel, Channel!Spec, sentBytes
==============================================================================
