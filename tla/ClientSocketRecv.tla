--------------------------- MODULE ClientSocketRecv ---------------------------
(***************************************************************************)
(* The receiving half of CommonLib/ClientSocket.cpp: ProcessorRecv puts    *)
(* what recv returns behind the bytes it kept, hands every complete        *)
(* package to OnMsgHandle and moves the rest to the front of the buffer.   *)
(*                                                                         *)
(* A byte is its position in the stream the peer sends, so that a buffer   *)
(* shows which bytes it holds.  The peer's messages are records of their   *)
(* first byte and their length; TCP delivers the bytes in order, in        *)
(* portions of any size.  A length field is read correctly only where a    *)
(* message begins.                                                         *)
(***************************************************************************)
EXTENDS Integers, Sequences

CONSTANTS
    HEAD,           \* sizeof(MsgHead)
    PACKAGE_MAX,    \* PACKAGE_MAX_SIZE
    RECV_BUF,       \* SERVER_RECV_BUFFER_SIZE
    Lengths,        \* lengths of the peer's messages, some over PACKAGE_MAX
    Garbage,        \* what a length field shows where no message begins
    MaxBytes        \* bound on the stream

ASSUME RecvAssumption ==
    /\ HEAD \in Nat \ {0}
    /\ PACKAGE_MAX \in Nat /\ HEAD <= PACKAGE_MAX
    /\ RECV_BUF \in Nat /\ PACKAGE_MAX <= RECV_BUF
    /\ Lengths \subseteq {n \in Nat : n >= HEAD}
    /\ Garbage \subseteq Nat
    /\ MaxBytes \in Nat

VARIABLES
    sent,           \* the peer's messages: [at |-> first byte, len |-> length]
    sentEnd,        \* the last byte the peer sends
    peerClosed,     \* the peer has closed its side or is gone
    arrived,        \* the last byte in the kernel's receive buffer
    taken,          \* the last byte recv has returned
    open,           \* _clientSock # INVALID_SOCKET
    recvBuf,        \* _recvBuf
    pos, end,       \* _oRecv: read position and end of data in _recvBuf
    retainSize,     \* _retainSize
    parsing,        \* ProcessorRecv is in its loop
    delivered       \* the packages handed to OnMsgHandle

peer == <<sent, sentEnd, peerClosed, arrived>>
vars == <<sent, sentEnd, peerClosed, arrived, taken, open, recvBuf, pos, end,
          retainSize, parsing, delivered>>

Message == [at : 1 .. MaxBytes, len : Lengths]
Last(m) == m.at + m.len - 1                 \* the last byte of message m
Bytes(m) == [k \in 0 .. m.len - 1 |-> m.at + k]

Smaller(a, b) == IF a < b THEN a ELSE b

Init ==
    /\ sent = << >> /\ sentEnd = 0 /\ peerClosed = FALSE
    /\ arrived = 0 /\ taken = 0
    /\ open = TRUE
    /\ recvBuf = [k \in 0 .. RECV_BUF - 1 |-> 0]
    /\ pos = 0 /\ end = 0 /\ retainSize = 0
    /\ parsing = FALSE
    /\ delivered = << >>

------------------------------------------------------------------------------
(* The peer and the network.                                               *)

PeerSend ==
    /\ ~peerClosed
    /\ \E n \in Lengths :
          /\ sentEnd + n <= MaxBytes
          /\ sent' = Append(sent, [at |-> sentEnd + 1, len |-> n])
          /\ sentEnd' = sentEnd + n
    /\ UNCHANGED <<peerClosed, arrived, taken, open, recvBuf, pos, end, retainSize,
                   parsing, delivered>>

Arrive ==
    /\ \E n \in arrived + 1 .. sentEnd : arrived' = n
    /\ UNCHANGED <<sent, sentEnd, peerClosed, taken, open, recvBuf, pos, end,
                   retainSize, parsing, delivered>>

\* The peer closes, or dies with some of its bytes unsent.
PeerClose ==
    /\ ~peerClosed
    /\ peerClosed' = TRUE
    /\ \E n \in arrived .. sentEnd : sentEnd' = n
    /\ UNCHANGED <<sent, arrived, taken, open, recvBuf, pos, end, retainSize, parsing,
                   delivered>>

------------------------------------------------------------------------------
(* ProcessorRecv.                                                          *)

canRead == end - pos                        \* OBuffer::canRead
Room == RECV_BUF - retainSize               \* the length recv is called with

Close ==
    /\ open' = FALSE
    /\ pos' = 0 /\ end' = 0
    /\ parsing' = FALSE
    /\ UNCHANGED <<peer, taken, recvBuf, delivered>>

Recv ==
    LET n == Smaller(arrived - taken, Room) IN
    /\ open /\ ~parsing /\ n > 0
    /\ recvBuf' = [k \in 0 .. RECV_BUF - 1 |->
                     IF k \in retainSize .. retainSize + n - 1
                     THEN taken + (k - retainSize) + 1 ELSE recvBuf[k]]
    /\ taken' = taken + n
    /\ pos' = 0 /\ end' = n + retainSize
    /\ retainSize' = 0
    /\ parsing' = TRUE
    /\ UNCHANGED <<peer, open, delivered>>

\* recv returns 0 at the end of the stream, and also when it is given no room.
RecvNothing ==
    /\ open /\ ~parsing
    /\ \/ peerClosed /\ taken = sentEnd
       \/ arrived > taken /\ Room = 0
    /\ Close
    /\ UNCHANGED retainSize

RecvError ==
    /\ open /\ ~parsing
    /\ Close
    /\ UNCHANGED retainSize

\* Mistake: a head alone is not looked at.
HeadCompleteStrict == canRead > HEAD

HeadComplete == canRead >= HEAD

\* The values readUShort may return at the read position.
HeadLengths ==
    LET here == {m \in {sent[i] : i \in DOMAIN sent} : m.at = recvBuf[pos]}
    IN  IF here = {} THEN Garbage ELSE {m.len : m \in here}

\* Mistake: no limit.
AcceptedAny(len) == TRUE

Accepted(len) == len <= PACKAGE_MAX

\* Mistake: a package that ends with the data counts as incomplete.
CompleteStrict(len) == len < canRead

Complete(len) == len <= canRead

TooLong ==
    /\ parsing /\ HeadComplete
    /\ \E len \in HeadLengths : ~Accepted(len)
    /\ Close
    /\ UNCHANGED retainSize

OnMsgHandle ==
    /\ parsing /\ HeadComplete
    /\ \E len \in HeadLengths :
          /\ Accepted(len) /\ Complete(len)
          /\ delivered' = Append(delivered, [k \in 0 .. len - 1 |-> recvBuf[pos + k]])
          /\ pos' = pos + len
    /\ UNCHANGED <<peer, taken, open, recvBuf, end, retainSize, parsing>>

\* Mistake: the positions are reset and the bytes stay where they are.
moveDataToFrontNot == recvBuf

moveDataToFront ==
    [k \in 0 .. RECV_BUF - 1 |-> IF k < canRead THEN recvBuf[pos + k] ELSE recvBuf[k]]

Retain ==
    /\ parsing
    /\ HeadComplete => \E len \in HeadLengths : Accepted(len) /\ ~Complete(len)
    /\ recvBuf' = moveDataToFront
    /\ pos' = 0 /\ end' = canRead
    /\ retainSize' = canRead
    /\ parsing' = FALSE
    /\ UNCHANGED <<peer, taken, open, delivered>>

ProcessorRecv == Recv \/ RecvNothing \/ TooLong \/ OnMsgHandle \/ Retain

Next == PeerSend \/ Arrive \/ PeerClose \/ ProcessorRecv \/ RecvError

\* The handler thread calls ProcessorRecv for as long as select reports the
\* socket readable, and never stops in the middle of it.
Spec == Init /\ [][Next]_vars /\ WF_vars(ProcessorRecv)
------------------------------------------------------------------------------
(* Properties.                                                             *)

TypeOK ==
    /\ sent \in Seq(Message)
    /\ sentEnd \in Nat /\ arrived \in 0 .. sentEnd /\ taken \in 0 .. arrived
    /\ peerClosed \in BOOLEAN /\ open \in BOOLEAN /\ parsing \in BOOLEAN
    /\ recvBuf \in [0 .. RECV_BUF - 1 -> Nat]
    /\ end \in 0 .. RECV_BUF /\ pos \in 0 .. end
    /\ retainSize \in 0 .. RECV_BUF

\* Between two calls ProcessorRecv has kept less than one package, so that
\* recv always gets room: a recv without room would return 0 and close a
\* healthy connection.
RoomForRecv == open /\ ~parsing => retainSize < PACKAGE_MAX

\* Between two calls every message whose last byte was received has been
\* handed to OnMsgHandle, however the stream was cut into portions; in
\* particular none is lost when the end of the stream closes the socket.
CompleteDelivered ==
    open /\ ~parsing => \A i \in DOMAIN sent : Last(sent[i]) <= taken => i <= Len(delivered)

\* OnMsgHandle gets the peer's messages whole and in order.
Channel == INSTANCE MessageChannel WITH
    Messages <- {Bytes(m) : m \in Message},
    sent <- [i \in DOMAIN sent |-> Bytes(sent[i])],
    received <- delivered
ImplementsChannel == Channel!Spec

\* A message that has arrived is handed to OnMsgHandle unless the socket is
\* closed before: no message waits for the next one.
ArrivedIsDelivered ==
    \A i \in 1 .. MaxBytes :
        (i \in DOMAIN sent /\ Last(sent[i]) <= arrived) ~> (i <= Len(delivered) \/ ~open)
==============================================================================
