------------------------- MODULE ClientThreads_proofs -------------------------
(***************************************************************************)
(* Proofs about clients that several threads share: SelectClient_Thread    *)
(* and the managers of Client04.                                           *)
(*                                                                         *)
(* Of SelectClient_Thread: the descriptor is closed once, every pool unit  *)
(* in use is that of a queued message, and the messages keep their order,  *)
(* for every capacity, limit and number of messages.  The order needs the  *)
(* whole state of the four threads only while the descriptor is open: no   *)
(* thread clears anything before it is closed, and nothing is sent after.  *)
(*                                                                         *)
(* Of Client04: the managers' clients, for any number of them and threads. *)
(***************************************************************************)
EXTENDS SelectClient_Thread, Client04, TLAPS

\* Where a thread holds the mutex of Close.
Critical ==
    {"invalid", "clearRecv", "popRecv", "clearSend", "popSend", "clearBuffer", "unlock"}
Elsewhere == Places \ Critical

PlacesOK ==
    /\ pc \in [Threads -> Places]
    /\ back \in [Threads -> {"top", "done", "deleted"}]

\* Only the thread that holds the mutex is inside Close; and between closesocket
\* and the assignment of INVALID_SOCKET some thread is.
LockOK ==
    /\ \A t \in Threads : pc[t] \in Critical => mutex = t
    /\ sock /\ ~fd => \E t \in Threads : pc[t] = "invalid"

CloseInv == PlacesOK /\ LockOK /\ ClosedOnce

\* A step of thread t outside Close.
StepElsewhere(t) ==
    /\ pc[t] \in Elsewhere
    /\ \/ UNCHANGED <<pc, back>>
       \/ /\ \E p \in Elsewhere : pc' = [pc EXCEPT ![t] = p]
          /\ UNCHANGED back
       \/ /\ pc' = [pc EXCEPT ![t] = "close"]
          /\ \E b \in {"top", "done", "deleted"} : back' = [back EXCEPT ![t] = b]
    /\ UNCHANGED connection

LEMMA MainElsewhere ==
    ASSUME PlacesOK, Main \/ UseAfterDelete, ~Close("main")
    PROVE  \E t \in Threads : StepElsewhere(t)
<1>1. StepElsewhere("main")
  <2>1. CASE MainTop
    BY <2>1 DEF MainTop, At, Goto, CallClose, StepElsewhere, Elsewhere, Places, Critical
  <2>2. CASE OnRunHasData
    BY <2>2 DEF OnRunHasData, At, Goto, StepElsewhere, Elsewhere, Places, Critical
  <2>3. CASE OnRunPop
    BY <2>3 DEF OnRunPop, At, Goto, Crash, StepElsewhere, Elsewhere, Places, Critical
  <2>4. CASE Exit
    BY <2>4 DEF Exit, Goto, StepElsewhere, Elsewhere, Places, Critical
  <2>5. CASE UseAfterDelete
    BY <2>5 DEF UseAfterDelete, Crash, StepElsewhere, Elsewhere, Places, Critical
  <2> QED BY <2>1, <2>2, <2>3, <2>4, <2>5 DEF Main
<1> QED BY <1>1 DEF Threads

LEMMA InputElsewhere ==
    ASSUME PlacesOK, Input, ~Close("input")
    PROVE  StepElsewhere("input")
<1>1. CASE InputTop
  BY <1>1 DEF InputTop, At, Goto, CallClose, StepElsewhere, Elsewhere, Places, Critical
<1>2. CASE SendData
  BY <1>2 DEF SendData, At, Goto, StepElsewhere, Elsewhere, Places, Critical
<1> QED BY <1>1, <1>2 DEF Input

LEMMA ReceiverElsewhere ==
    ASSUME PlacesOK, Receiver, ~Close("recv")
    PROVE  StepElsewhere("recv")
<1> USE DEF At, Goto, CallClose, Crash, StepElsewhere, Elsewhere, Places, Critical
<1>1. CASE RecvTop
  BY <1>1 DEF RecvTop
<1>2. CASE RecvSelect
  BY <1>2 DEF RecvSelect
<1>3. CASE Recv
  BY <1>3 DEF Recv
<1>4. CASE ParseCanRead
  BY <1>4 DEF ParseCanRead
<1>5. CASE ReadUShort
  BY <1>5 DEF ReadUShort
<1>6. CASE ReadBytes
  BY <1>6 DEF ReadBytes
<1>7. CASE RecvLimit
  BY <1>7 DEF RecvLimit
<1> QED BY <1>1, <1>2, <1>3, <1>4, <1>5, <1>6, <1>7 DEF Receiver

LEMMA SenderElsewhere ==
    ASSUME PlacesOK, Sender, ~Close("send")
    PROVE  StepElsewhere("send")
<1> USE DEF At, Goto, CallClose, Crash, StepElsewhere, Elsewhere, Places, Critical
<1>1. CASE SendTop
  BY <1>1 DEF SendTop
<1>2. CASE Room
  BY <1>2 DEF Room
<1>3. CASE SendSelect
  BY <1>3 DEF SendSelect
<1>4. CASE SendToKernel
  BY <1>4 DEF SendToKernel
<1>5. CASE MoveReadPos
  BY <1>5 DEF MoveReadPos
<1>6. CASE CanRead
  BY <1>6 DEF CanRead
<1>7. CASE CopyMessage
  BY <1>7 DEF CopyMessage
<1>8. CASE Copied
  BY <1>8 DEF Copied
<1>9. CASE NextHasData
  BY <1>9 DEF NextHasData
<1>10. CASE FrontOfNone \/ FrontNotNull \/ FrontRead
  BY <1>10 DEF FrontOfNone, FrontNotNull, FrontRead
<1> QED BY <1>1, <1>2, <1>3, <1>4, <1>5, <1>6, <1>7, <1>8, <1>9, <1>10 DEF Sender

LEMMA ElsewhereKeepsClose ==
    ASSUME CloseInv, NEW t \in Threads, StepElsewhere(t)
    PROVE  CloseInv'
<1>1. UNCHANGED <<sock, fd, mutex, closes>>
  BY DEF StepElsewhere, connection
<1>2. \/ UNCHANGED <<pc, back>>
      \/ \E p \in Elsewhere : pc' = [pc EXCEPT ![t] = p]
  BY DEF StepElsewhere, Elsewhere, Places, Critical
<1>3. PlacesOK'
  BY DEF CloseInv, PlacesOK, StepElsewhere, Elsewhere, Places, Critical
<1>4. \A u \in Threads : pc'[u] \in Critical => pc[u] = pc'[u]
  BY <1>2 DEF CloseInv, PlacesOK, Elsewhere
<1>5. \A u \in Threads : pc[u] \in Critical => pc[u] = pc'[u]
  BY <1>2 DEF CloseInv, PlacesOK, StepElsewhere, Elsewhere
<1>6. LockOK'
  <2>1. \A u \in Threads : pc'[u] \in Critical => mutex' = u
    BY <1>1, <1>4 DEF CloseInv, LockOK
  <2>2. ASSUME sock', ~fd' PROVE \E u \in Threads : pc'[u] = "invalid"
    <3>1. PICK u \in Threads : pc[u] = "invalid"
      BY <1>1, <2>2 DEF CloseInv, LockOK
    <3> QED BY <1>5, <3>1 DEF Critical
  <2> QED BY <2>1, <2>2 DEF LockOK
<1>7. ClosedOnce'
  BY <1>1 DEF CloseInv, ClosedOnce
<1> QED BY <1>3, <1>6, <1>7 DEF CloseInv

\* Inside Close: the mutex is taken with the socket still open only when no other
\* thread is between closing it and marking it.
LEMMA CloseKeepsClose ==
    ASSUME CloseInv, NEW t \in Threads, Close(t)
    PROVE  CloseInv'
<1> USE DEF CloseInv, PlacesOK
<1>0. NoThread \notin Threads
  BY DEF NoThread, Threads
<1>1. CASE CloseAgain(t)
  <2>1. /\ pc[t] = "close" /\ pc' = [pc EXCEPT ![t] = back[t]]
        /\ back' = [back EXCEPT ![t] = "top"] /\ UNCHANGED connection
    BY <1>1 DEF CloseAgain, At, Return
  <2>2. UNCHANGED <<sock, fd, mutex, closes>>
    BY <2>1 DEF connection
  <2>3. PlacesOK'
    BY <2>1 DEF Places
  <2>4. back[t] \notin Critical /\ "close" \notin Critical
    BY DEF Critical
  <2>5. \A u \in Threads : pc[u] \in Critical \/ pc'[u] \in Critical => pc[u] = pc'[u]
    BY <2>1, <2>4
  <2>6. LockOK'
    BY <2>2, <2>5 DEF LockOK, Critical
  <2> QED BY <2>2, <2>3, <2>6 DEF ClosedOnce
<1>2. CASE CloseSocket(t)
  <2>1. /\ mutex = NoThread /\ sock /\ mutex' = t /\ fd' = FALSE /\ closes' = closes + 1
        /\ pc' = [pc EXCEPT ![t] = "invalid"] /\ UNCHANGED <<back, sock>>
    BY <1>2 DEF CloseSocket, At, Goto
  <2>2. \A u \in Threads : pc[u] \notin Critical
    BY <1>0, <2>1 DEF LockOK
  <2>3. fd
    BY <2>1, <2>2 DEF LockOK, Critical
  <2>4. PlacesOK'
    BY <2>1 DEF Places
  <2>5. LockOK'
    BY <2>1, <2>2 DEF LockOK
  <2>6. ClosedOnce'
    BY <2>1, <2>3 DEF ClosedOnce
  <2> QED BY <2>4, <2>5, <2>6
<1>3. CASE CloseInvalid(t)
  <2>1. /\ pc[t] = "invalid" /\ sock' = FALSE
        /\ pc' = [pc EXCEPT ![t] = "clearRecv"] /\ UNCHANGED <<back, fd, mutex, closes>>
    BY <1>3 DEF CloseInvalid, At, Goto
  <2>2. PlacesOK'
    BY <2>1 DEF Places
  <2>3. LockOK'
    BY <2>1 DEF LockOK, Critical
  <2> QED BY <2>1, <2>2, <2>3 DEF ClosedOnce
<1>4. CASE \/ ClearHasRecv(t) \/ ClearPopRecv(t) \/ ClearHasSend(t) \/ ClearPopSend(t)
           \/ ClearBuffer(t)
  <2>1. /\ pc[t] \in Critical \ {"invalid"}
        /\ pc' = pc \/ \E p \in Critical \ {"invalid"} : pc' = [pc EXCEPT ![t] = p]
        /\ UNCHANGED <<back, sock, fd, mutex, closes>>
    BY <1>4 DEF ClearHasRecv, ClearPopRecv, ClearHasSend, ClearPopSend, ClearBuffer, At,
                Goto, Crash, connection, Critical
  <2>2. PlacesOK'
    BY <2>1 DEF Places, Critical
  <2>3. LockOK'
    BY <2>1 DEF LockOK
  <2> QED BY <2>1, <2>2, <2>3 DEF ClosedOnce
<1>5. CASE CloseUnlock(t)
  <2>1. /\ pc[t] = "unlock" /\ mutex' = NoThread
        /\ pc' = [pc EXCEPT ![t] = back[t]] /\ back' = [back EXCEPT ![t] = "top"]
        /\ UNCHANGED <<sock, fd, closes>>
    BY <1>5 DEF CloseUnlock, At, Return
  <2>2. mutex = t /\ "unlock" \in Critical
    BY <2>1 DEF LockOK, Critical
  <2>3. PlacesOK'
    BY <2>1 DEF Places
  <2>4. back[t] \notin Critical
    BY DEF Critical
  <2>5. \A u \in Threads : pc'[u] \notin Critical
    BY <2>1, <2>2, <2>4 DEF LockOK
  <2>6. \A u \in Threads \ {t} : pc'[u] = pc[u]
    BY <2>1
  <2>7. ~(sock /\ ~fd)
    BY <2>1, <2>2, <2>5, <2>6 DEF LockOK, Critical
  <2>8. LockOK'
    BY <2>1, <2>5, <2>7 DEF LockOK
  <2> QED BY <2>1, <2>3, <2>8 DEF ClosedOnce
<1> QED BY <1>1, <1>2, <1>3, <1>4, <1>5 DEF Close

LEMMA NextCloseInv == ASSUME CloseInv, [Next]_vars PROVE CloseInv'
<1>1. CASE \E t \in Threads : Close(t)
  BY <1>1, CloseKeepsClose
<1>2. CASE Next /\ ~\E t \in Threads : Close(t)
  <2>1. ~Close("main") /\ ~Close("input") /\ ~Close("recv") /\ ~Close("send")
    BY <1>2 DEF Threads
  <2>2. PlacesOK
    BY DEF CloseInv
  <2>3. "input" \in Threads /\ "recv" \in Threads /\ "send" \in Threads
    BY DEF Threads
  <2>4. \E t \in Threads : StepElsewhere(t)
    BY <1>2, <2>1, <2>2, <2>3, MainElsewhere, InputElsewhere, ReceiverElsewhere,
       SenderElsewhere DEF Next
  <2> QED BY <2>4, ElsewhereKeepsClose
<1>3. CASE UNCHANGED vars
  BY <1>3 DEF vars, connection, CloseInv, PlacesOK, LockOK, ClosedOnce
<1> QED BY <1>1, <1>2, <1>3

\* However the threads interleave, the descriptor is closed at most once (Close).
THEOREM ClientClosedOnce == Spec => []ClosedOnce
<1>1. Init => CloseInv
  BY DEF Init, CloseInv, PlacesOK, LockOK, ClosedOnce, Places, Threads, Critical
<1>2. CloseInv /\ [Next]_vars => CloseInv'
  BY NextCloseInv
<1>3. CloseInv => ClosedOnce
  BY DEF CloseInv
<1> QED BY <1>1, <1>2, <1>3, PTL DEF Spec

------------------------------------------------------------------------------
(* The pool units.                                                         *)

Ascending(s) == \A i, j \in 1 .. Len(s) : i < j => s[i][2] < s[j][2]

LEMMA OutFacts == ASSUME NEW m \in Out PROVE m[2] \in Nat /\ m[1] = "out"
  BY DEF Out

LEMMA InFacts == ASSUME NEW m \in In PROVE m[2] \in Nat /\ m[1] = "in"
  BY DEF In

\* Appending and removing at the ends of an ascending sequence of messages.
LEMMA AppendAscending ==
    ASSUME NEW S, NEW s \in Seq(S), NEW m \in S, Ascending(s),
           \A i \in 1 .. Len(s) : s[i][2] < m[2]
    PROVE  /\ Append(s, m) \in Seq(S) /\ Ascending(Append(s, m))
           /\ ToSet(Append(s, m)) = ToSet(s) \cup {m}
           /\ Len(Append(s, m)) = Len(s) + 1
<1>1. Append(s, m) \in Seq(S) /\ Len(Append(s, m)) = Len(s) + 1
  OBVIOUS
<1>2. \A i \in 1 .. Len(s) + 1 : Append(s, m)[i] = IF i = Len(s) + 1 THEN m ELSE s[i]
  OBVIOUS
<1>3. Len(s) \in Nat
  OBVIOUS
<1>4. Ascending(Append(s, m))
  BY <1>1, <1>2, <1>3 DEF Ascending
<1>5. DOMAIN s = 1 .. Len(s) /\ DOMAIN Append(s, m) = 1 .. Len(s) + 1
  OBVIOUS
<1>6. ToSet(Append(s, m)) = ToSet(s) \cup {m}
  BY <1>2, <1>3, <1>5 DEF ToSet
<1> QED BY <1>1, <1>4, <1>6

LEMMA TailAscending ==
    ASSUME NEW S, NEW s \in Seq(S), s # << >>, Ascending(s), \A x \in S : x[2] \in Nat
    PROVE  /\ Tail(s) \in Seq(S) /\ Ascending(Tail(s)) /\ Head(s) \in S
           /\ ToSet(Tail(s)) = ToSet(s) \ {Head(s)}
           /\ Len(Tail(s)) = Len(s) - 1
           /\ \A i \in 1 .. Len(s) - 1 : Tail(s)[i] = s[i + 1]
<1>1. /\ Len(s) \in Nat /\ Len(s) >= 1 /\ Tail(s) \in Seq(S) /\ Len(Tail(s)) = Len(s) - 1
      /\ Head(s) = s[1] /\ Head(s) \in S
  OBVIOUS
<1>2. \A i \in 1 .. Len(s) - 1 : Tail(s)[i] = s[i + 1]
  OBVIOUS
<1>3. Ascending(Tail(s))
  BY <1>1, <1>2 DEF Ascending
<1>4. DOMAIN s = 1 .. Len(s) /\ DOMAIN Tail(s) = 1 .. Len(s) - 1
  BY <1>1
<1>5. \A i \in 2 .. Len(s) : s[i] # s[1]
  <2>1. SUFFICES ASSUME NEW i \in 2 .. Len(s), s[i] = s[1] PROVE FALSE
    OBVIOUS
  <2>2. s[1][2] < s[i][2] /\ s[1] \in S
    BY <1>1, <2>1 DEF Ascending
  <2> QED BY <2>1, <2>2
<1>6. \A x : x \in ToSet(Tail(s)) <=> x \in ToSet(s) \ {Head(s)}
  <2>1. ASSUME NEW x \in ToSet(Tail(s)) PROVE x \in ToSet(s) \ {Head(s)}
    <3>1. PICK i \in 1 .. Len(s) - 1 : x = Tail(s)[i]
      BY <1>4 DEF ToSet
    <3>2. x = s[i + 1] /\ i + 1 \in 2 .. Len(s)
      BY <1>1, <1>2, <3>1
    <3> QED BY <1>1, <1>4, <1>5, <3>2 DEF ToSet
  <2>2. ASSUME NEW x \in ToSet(s), x # Head(s) PROVE x \in ToSet(Tail(s))
    <3>1. PICK i \in 1 .. Len(s) : x = s[i]
      BY <1>4 DEF ToSet
    <3>2. i # 1
      BY <1>1, <2>2, <3>1
    <3>3. i - 1 \in 1 .. Len(s) - 1 /\ (i - 1) + 1 = i
      BY <1>1, <3>2
    <3>4. Tail(s)[i - 1] = x
      BY <1>2, <3>1, <3>3
    <3> QED BY <1>4, <3>3, <3>4 DEF ToSet
  <2> QED BY <2>1, <2>2
<1> QED BY <1>1, <1>2, <1>3, <1>6

\* The send queue holds messages in the order they were queued; the receive
\* queue, and after it _oRecv, messages in the order they arrived.
SendQueueOK ==
    /\ queued \in Seq(Out)
    /\ sendQueue \in Seq(Out) /\ Ascending(sendQueue)
    /\ \A i \in 1 .. Len(sendQueue) : sendQueue[i][2] <= Len(queued)
RecvQueueOK ==
    /\ taken \in 0 .. MaxIn
    /\ recvQueue \in Seq(In) /\ Ascending(recvQueue)
    /\ oRecv \in Seq(In) /\ Ascending(oRecv)
    /\ \A i \in 1 .. Len(recvQueue) : recvQueue[i][2] <= taken
    /\ \A i \in 1 .. Len(oRecv) : oRecv[i][2] <= taken
    /\ \A i \in 1 .. Len(recvQueue), j \in 1 .. Len(oRecv) : recvQueue[i][2] < oRecv[j][2]

UnitsInv == SendQueueOK /\ RecvQueueOK /\ UnitsOwned

\* What becomes of the queues and of _oRecv in one step.
Untouched == UNCHANGED <<queues, receiving>>
RecvPopped ==
    /\ recvQueue # << >> /\ PopRecv
    /\ UNCHANGED <<sendQueue, queued, receiving>>
SendPopped ==
    /\ sendQueue # << >> /\ PopSend
    /\ UNCHANGED <<recvQueue, queued, receiving>>
Cleared == oRecv' = << >> /\ UNCHANGED <<queues, taken>>
Queued ==
    /\ \E m \in Out : /\ m[2] = Len(queued) + 1
                      /\ held' = held \cup {m}
                      /\ sendQueue' = Append(sendQueue, m)
                      /\ queued' = Append(queued, m)
    /\ UNCHANGED <<recvQueue, receiving>>
Received ==
    /\ \E n \in 1 .. MaxIn - taken : /\ oRecv' = [i \in 1 .. n |-> <<"in", taken + i>>]
                                    /\ taken' = taken + n
    /\ UNCHANGED queues
Parsed ==
    /\ oRecv # << >>
    /\ held' = held \cup {Head(oRecv)}
    /\ recvQueue' = Append(recvQueue, Head(oRecv))
    /\ oRecv' = Tail(oRecv)
    /\ UNCHANGED <<sendQueue, queued, taken>>

Effect ==
    Untouched \/ RecvPopped \/ SendPopped \/ Cleared \/ Queued \/ Received \/ Parsed

LEMMA CloseEffect == ASSUME NEW t \in Threads, Close(t) PROVE Effect
<1> USE DEF Effect, Untouched, queues, receiving
<1>1. CASE CloseAgain(t) \/ CloseSocket(t) \/ CloseInvalid(t) \/ CloseUnlock(t)
  BY <1>1 DEF CloseAgain, CloseSocket, CloseInvalid, CloseUnlock
<1>2. CASE ClearHasRecv(t) \/ ClearHasSend(t)
  BY <1>2 DEF ClearHasRecv, ClearHasSend
<1>3. CASE ClearPopRecv(t)
  BY <1>3 DEF ClearPopRecv, RecvPopped
<1>4. CASE ClearPopSend(t)
  BY <1>4 DEF ClearPopSend, SendPopped
<1>5. CASE ClearBuffer(t)
  BY <1>5 DEF ClearBuffer, Cleared
<1> QED BY <1>1, <1>2, <1>3, <1>4, <1>5 DEF Close

LEMMA NextEffect == ASSUME SendQueueOK, [Next]_vars PROVE Effect
<1> USE DEF Effect, Untouched, queues, receiving
<1>1. CASE Main \/ UseAfterDelete
  <2>1. CASE MainTop \/ OnRunHasData \/ Exit \/ UseAfterDelete
    BY <2>1 DEF MainTop, OnRunHasData, Exit, UseAfterDelete
  <2>2. CASE OnRunPop
    BY <2>2 DEF OnRunPop, RecvPopped
  <2>3. CASE Close("main")
    BY <2>3, CloseEffect DEF Threads
  <2> QED BY <1>1, <2>1, <2>2, <2>3 DEF Main
<1>2. CASE Input
  <2>1. CASE InputTop
    BY <2>1 DEF InputTop
  <2>2. CASE SendData
    <3>1. <<"out", Len(queued) + 1>> \in Out /\ <<"out", Len(queued) + 1>>[2] = Len(queued) + 1
      BY DEF SendQueueOK, Out
    <3> QED BY <2>2, <3>1 DEF SendData, Queued
  <2>3. CASE Close("input")
    BY <2>3, CloseEffect DEF Threads
  <2> QED BY <1>2, <2>1, <2>2, <2>3 DEF Input
<1>3. CASE Receiver
  <2>1. CASE RecvTop \/ RecvSelect \/ ParseCanRead \/ ReadUShort \/ RecvLimit
    BY <2>1 DEF RecvTop, RecvSelect, ParseCanRead, ReadUShort, RecvLimit
  <2>2. CASE Recv
    BY <2>2 DEF Recv, Received
  <2>3. CASE ReadBytes
    BY <2>3 DEF ReadBytes, Parsed
  <2>4. CASE Close("recv")
    BY <2>4, CloseEffect DEF Threads
  <2> QED BY <1>3, <2>1, <2>2, <2>3, <2>4 DEF Receiver
<1>4. CASE Sender
  <2>1. CASE SendTop \/ Room \/ SendSelect \/ SendToKernel \/ MoveReadPos \/ CanRead
    BY <2>1 DEF SendTop, Room, SendSelect, SendToKernel, MoveReadPos, CanRead
  <2>2. CASE CopyMessage \/ NextHasData \/ FrontOfNone \/ FrontNotNull \/ FrontRead
    BY <2>2 DEF CopyMessage, NextHasData, FrontOfNone, FrontNotNull, FrontRead
  <2>3. CASE Copied
    BY <2>3 DEF Copied, SendPopped
  <2>4. CASE Close("send")
    BY <2>4, CloseEffect DEF Threads
  <2> QED BY <1>4, <2>1, <2>2, <2>3, <2>4 DEF Sender
<1>5. CASE UNCHANGED vars
  BY <1>5 DEF vars
<1> QED BY <1>1, <1>2, <1>3, <1>4, <1>5 DEF Next

LEMMA EffectKeepsUnits == ASSUME ClientAssumption, UnitsInv, Effect PROVE UnitsInv'
<1> USE DEF UnitsInv
<1>1. CASE Untouched
  BY <1>1 DEF Untouched, queues, receiving, SendQueueOK, RecvQueueOK, UnitsOwned, Ascending
<1>2. CASE RecvPopped
  <2>1. UNCHANGED <<sendQueue, queued, oRecv, taken>>
    BY <1>2 DEF RecvPopped, receiving
  <2>2. /\ recvQueue # << >> /\ recvQueue' = Tail(recvQueue)
        /\ held' = held \ {Head(recvQueue)}
    BY <1>2 DEF RecvPopped, PopRecv
  <2>3. /\ Tail(recvQueue) \in Seq(In) /\ Ascending(Tail(recvQueue)) /\ Head(recvQueue) \in In
        /\ ToSet(Tail(recvQueue)) = ToSet(recvQueue) \ {Head(recvQueue)}
        /\ Len(Tail(recvQueue)) = Len(recvQueue) - 1
        /\ \A i \in 1 .. Len(recvQueue) - 1 : Tail(recvQueue)[i] = recvQueue[i + 1]
    BY <2>2, TailAscending, InFacts DEF RecvQueueOK
  <2>4. Len(recvQueue) \in Nat
    BY DEF RecvQueueOK
  <2>5. Head(recvQueue) \notin ToSet(sendQueue)
    BY <2>3, OutFacts, InFacts DEF SendQueueOK, ToSet
  <2>6. UnitsOwned'
    BY <2>1, <2>2, <2>3, <2>5 DEF UnitsOwned
  <2>7. SendQueueOK'
    BY <2>1 DEF SendQueueOK, Ascending
  <2>8. \A i \in 1 .. Len(Tail(recvQueue)) : \E j \in 1 .. Len(recvQueue) :
            Tail(recvQueue)[i] = recvQueue[j]
    BY <2>3, <2>4
  <2>9. RecvQueueOK'
    BY <2>1, <2>2, <2>3, <2>8 DEF RecvQueueOK, Ascending
  <2> QED BY <2>6, <2>7, <2>9
<1>3. CASE SendPopped
  <2>1. UNCHANGED <<recvQueue, queued, oRecv, taken>>
    BY <1>3 DEF SendPopped, receiving
  <2>2. /\ sendQueue # << >> /\ sendQueue' = Tail(sendQueue)
        /\ held' = held \ {Head(sendQueue)}
    BY <1>3 DEF SendPopped, PopSend
  <2>3. /\ Tail(sendQueue) \in Seq(Out) /\ Ascending(Tail(sendQueue)) /\ Head(sendQueue) \in Out
        /\ ToSet(Tail(sendQueue)) = ToSet(sendQueue) \ {Head(sendQueue)}
        /\ Len(Tail(sendQueue)) = Len(sendQueue) - 1
        /\ \A i \in 1 .. Len(sendQueue) - 1 : Tail(sendQueue)[i] = sendQueue[i + 1]
    BY <2>2, TailAscending, OutFacts DEF SendQueueOK
  <2>4. Len(sendQueue) \in Nat
    BY DEF SendQueueOK
  <2>5. Head(sendQueue) \notin ToSet(recvQueue)
    BY <2>3, OutFacts, InFacts DEF RecvQueueOK, ToSet
  <2>6. UnitsOwned'
    BY <2>1, <2>2, <2>3, <2>5 DEF UnitsOwned
  <2>7. RecvQueueOK'
    BY <2>1 DEF RecvQueueOK, Ascending
  <2>8. \A i \in 1 .. Len(Tail(sendQueue)) : \E j \in 1 .. Len(sendQueue) :
            Tail(sendQueue)[i] = sendQueue[j]
    BY <2>3, <2>4
  <2>9. SendQueueOK'
    BY <2>1, <2>2, <2>3, <2>8 DEF SendQueueOK
  <2> QED BY <2>6, <2>7, <2>9
<1>4. CASE Cleared
  <2>1. oRecv' = << >> /\ UNCHANGED <<sendQueue, recvQueue, held, queued, taken>>
    BY <1>4 DEF Cleared, queues
  <2> QED BY <2>1 DEF SendQueueOK, RecvQueueOK, UnitsOwned, Ascending
<1>5. CASE Queued
  <2>1. UNCHANGED <<recvQueue, oRecv, taken>>
    BY <1>5 DEF Queued, receiving
  <2>2. PICK m \in Out : /\ m[2] = Len(queued) + 1 /\ held' = held \cup {m}
                        /\ sendQueue' = Append(sendQueue, m)
                        /\ queued' = Append(queued, m)
    BY <1>5 DEF Queued
  <2>3. Len(queued) \in Nat /\ \A i \in 1 .. Len(sendQueue) : sendQueue[i] \in Out
    BY DEF SendQueueOK
  <2>4. \A i \in 1 .. Len(sendQueue) : sendQueue[i][2] < m[2]
    BY <2>2, <2>3, OutFacts DEF SendQueueOK
  <2>5. /\ sendQueue' \in Seq(Out) /\ Ascending(sendQueue')
        /\ ToSet(sendQueue') = ToSet(sendQueue) \cup {m}
    BY <2>2, <2>4, AppendAscending DEF SendQueueOK
  <2>6. queued' \in Seq(Out) /\ Len(queued') = Len(queued) + 1
    BY <2>2 DEF SendQueueOK
  <2>7. \A i \in 1 .. Len(sendQueue') : sendQueue'[i] = m \/
            \E j \in 1 .. Len(sendQueue) : sendQueue'[i] = sendQueue[j]
    BY <2>2 DEF SendQueueOK
  <2>8. \A i \in 1 .. Len(sendQueue') : sendQueue'[i][2] <= Len(queued')
    BY <2>2, <2>3, <2>4, <2>6, <2>7, OutFacts
  <2>9. SendQueueOK'
    BY <2>5, <2>6, <2>8 DEF SendQueueOK, Ascending
  <2>10. RecvQueueOK'
    BY <2>1 DEF RecvQueueOK, Ascending
  <2>11. UnitsOwned'
    BY <2>1, <2>2, <2>5 DEF UnitsOwned
  <2> QED BY <2>9, <2>10, <2>11
<1>6. CASE Received
  <2>1. UNCHANGED <<sendQueue, recvQueue, held, queued>>
    BY <1>6 DEF Received, queues
  <2>2. PICK n \in 1 .. MaxIn - taken : /\ oRecv' = [i \in 1 .. n |-> <<"in", taken + i>>]
                                       /\ taken' = taken + n
    BY <1>6 DEF Received
  <2>3. taken \in 0 .. MaxIn /\ MaxIn \in Nat
    BY DEF RecvQueueOK, ClientAssumption
  <2>4. n \in Nat /\ taken' \in 0 .. MaxIn /\ taken' = taken + n /\ taken \in Nat
    BY <2>2, <2>3
  <2>5. oRecv' \in Seq(In) /\ Len(oRecv') = n
    BY <2>2, <2>4 DEF In
  <2>6. \A i \in 1 .. n : oRecv'[i][2] = taken + i
    BY <2>2, <2>4
  <2>7. Ascending(oRecv')
    BY <2>4, <2>5, <2>6 DEF Ascending
  <2>8. \A i \in 1 .. Len(recvQueue) : recvQueue[i] \in In /\ recvQueue[i][2] \in Nat
    BY InFacts DEF RecvQueueOK
  <2>9. RecvQueueOK'
    <3>1. \A i \in 1 .. Len(oRecv') : oRecv'[i][2] <= taken' /\ taken < oRecv'[i][2]
                                       /\ oRecv'[i][2] \in Nat
      BY <2>4, <2>5, <2>6
    <3>2. \A i \in 1 .. Len(recvQueue) : recvQueue[i][2] <= taken'
      BY <2>4, <2>8 DEF RecvQueueOK
    <3>3. \A i \in 1 .. Len(recvQueue), j \in 1 .. Len(oRecv') :
              recvQueue[i][2] < oRecv'[j][2]
      BY <2>4, <2>8, <3>1 DEF RecvQueueOK
    <3>4. recvQueue' \in Seq(In) /\ Ascending(recvQueue')
      BY <2>1 DEF RecvQueueOK
    <3> QED BY <2>1, <2>4, <2>5, <2>7, <3>1, <3>2, <3>3, <3>4 DEF RecvQueueOK, Ascending
  <2>10. SendQueueOK'
    BY <2>1 DEF SendQueueOK, Ascending
  <2>11. UnitsOwned'
    BY <2>1 DEF UnitsOwned
  <2> QED BY <2>9, <2>10, <2>11
<1>7. CASE Parsed
  <2>1. /\ oRecv # << >> /\ held' = held \cup {Head(oRecv)} /\ oRecv' = Tail(oRecv)
        /\ recvQueue' = Append(recvQueue, Head(oRecv))
        /\ UNCHANGED <<sendQueue, queued, taken>>
    BY <1>7 DEF Parsed
  <2> DEFINE m == Head(oRecv)
  <2>2. /\ Tail(oRecv) \in Seq(In) /\ Ascending(Tail(oRecv)) /\ m \in In
        /\ Len(Tail(oRecv)) = Len(oRecv) - 1
        /\ \A i \in 1 .. Len(oRecv) - 1 : Tail(oRecv)[i] = oRecv[i + 1]
    BY <2>1, TailAscending, InFacts DEF RecvQueueOK
  <2>3. m = oRecv[1] /\ Len(oRecv) \in Nat /\ 1 \in 1 .. Len(oRecv)
    BY <2>1 DEF RecvQueueOK
  <2>4. \A i \in 1 .. Len(recvQueue) : recvQueue[i][2] < m[2]
    BY <2>3 DEF RecvQueueOK
  <2>5. /\ recvQueue' \in Seq(In) /\ Ascending(recvQueue')
        /\ ToSet(recvQueue') = ToSet(recvQueue) \cup {m}
    BY <2>1, <2>2, <2>4, AppendAscending DEF RecvQueueOK
  <2>6. \A i \in 1 .. Len(recvQueue') : recvQueue'[i] = m \/
            \E j \in 1 .. Len(recvQueue) : recvQueue'[i] = recvQueue[j]
    BY <2>1, <2>2 DEF RecvQueueOK
  <2>7. \A i \in 1 .. Len(oRecv') : \E j \in 2 .. Len(oRecv) : oRecv'[i] = oRecv[j]
    BY <2>1, <2>2, <2>3
  <2>8. \A j \in 2 .. Len(oRecv) : m[2] < oRecv[j][2] /\ oRecv[j][2] <= taken
    BY <2>3 DEF RecvQueueOK, Ascending
  <2>9. m[2] <= taken
    BY <2>3 DEF RecvQueueOK
  <2>10. \A i \in 1 .. Len(recvQueue') : recvQueue'[i][2] <= taken
    BY <2>6, <2>9 DEF RecvQueueOK
  <2>11. \A j \in 2 .. Len(oRecv), i \in 1 .. Len(recvQueue) : recvQueue[i][2] < oRecv[j][2]
    BY <2>3 DEF RecvQueueOK
  <2>12. \A i \in 1 .. Len(recvQueue'), j \in 1 .. Len(oRecv') :
             recvQueue'[i][2] < oRecv'[j][2]
    BY <2>6, <2>7, <2>8, <2>11
  <2>13. RecvQueueOK'
    BY <2>1, <2>2, <2>5, <2>7, <2>8, <2>10, <2>12 DEF RecvQueueOK, Ascending
  <2>14. SendQueueOK'
    BY <2>1 DEF SendQueueOK, Ascending
  <2>15. UnitsOwned'
    BY <2>1, <2>5 DEF UnitsOwned
  <2> QED BY <2>13, <2>14, <2>15
<1> QED BY <1>1, <1>2, <1>3, <1>4, <1>5, <1>6, <1>7 DEF Effect

\* However Close and the other threads take messages out of the queues, every
\* unit in use is that of a queued message and every queued message has its unit
\* (ClearQueue, SendThread, OnRun, SendData, ProcessorRecv).
THEOREM ClientUnitsOwned == Spec => []UnitsOwned
<1>1. Init => UnitsInv
  <2>1. SUFFICES ASSUME Init PROVE UnitsInv
    OBVIOUS
  <2>2. SendQueueOK
    BY <2>1 DEF Init, SendQueueOK, Ascending
  <2>3. RecvQueueOK
    BY <2>1, ClientAssumption DEF Init, RecvQueueOK, Ascending, ClientAssumption
  <2>4. UnitsOwned
    BY <2>1 DEF Init, UnitsOwned, ToSet
  <2> QED BY <2>2, <2>3, <2>4 DEF UnitsInv
<1>2. UnitsInv /\ [Next]_vars => UnitsInv'
  BY ClientAssumption, NextEffect, EffectKeepsUnits DEF UnitsInv
<1>3. UnitsInv => UnitsOwned
  BY DEF UnitsInv
<1> QED BY <1>1, <1>2, <1>3, PTL DEF Spec

------------------------------------------------------------------------------
(* The order of the messages.                                              *)

\* Messages are numbered in the order they are made: s holds those after k.
Numbered(s, dir, k) == \A i \in 1 .. Len(s) : s[i] = <<dir, k + i>>

LEMMA NumberedTail ==
    ASSUME NEW S, NEW s \in Seq(S), s # << >>, NEW dir, NEW k \in Int, Numbered(s, dir, k)
    PROVE  /\ Tail(s) \in Seq(S) /\ Len(Tail(s)) = Len(s) - 1 /\ Len(s) \in Nat \ {0}
           /\ Numbered(Tail(s), dir, k + 1)
           /\ Head(s) = s[1] /\ Head(s) = <<dir, k + 1>> /\ Head(s) \in S
<1>1. /\ Tail(s) \in Seq(S) /\ Len(Tail(s)) = Len(s) - 1 /\ Len(s) \in Nat \ {0}
      /\ Head(s) = s[1] /\ Head(s) \in S
  OBVIOUS
<1>2. \A i \in 1 .. Len(s) - 1 : Tail(s)[i] = s[i + 1]
  OBVIOUS
<1>3. \A i \in 1 .. Len(s) - 1 : i + 1 \in 1 .. Len(s) /\ k + (i + 1) = (k + 1) + i
  BY <1>1
<1>4. Numbered(Tail(s), dir, k + 1)
  BY <1>1, <1>2, <1>3 DEF Numbered
<1>5. 1 \in 1 .. Len(s)
  BY <1>1
<1> QED BY <1>1, <1>4, <1>5 DEF Numbered

LEMMA NumberedAppend ==
    ASSUME NEW S, NEW s \in Seq(S), NEW m \in S, NEW dir, NEW k \in Int, Numbered(s, dir, k),
           m = <<dir, k + (Len(s) + 1)>>
    PROVE  /\ Append(s, m) \in Seq(S) /\ Len(Append(s, m)) = Len(s) + 1
           /\ Numbered(Append(s, m), dir, k)
<1>1. /\ Append(s, m) \in Seq(S) /\ Len(Append(s, m)) = Len(s) + 1 /\ Len(s) \in Nat
  OBVIOUS
<1>2. \A i \in 1 .. Len(s) + 1 : Append(s, m)[i] = IF i = Len(s) + 1 THEN m ELSE s[i]
  OBVIOUS
<1>3. ASSUME NEW i \in 1 .. Len(s) + 1 PROVE Append(s, m)[i] = <<dir, k + i>>
  <2>1. CASE i = Len(s) + 1
    BY <1>2, <2>1
  <2>2. CASE i # Len(s) + 1
    <3>1. i \in 1 .. Len(s)
      BY <1>1, <2>2
    <3> QED BY <1>2, <2>2, <3>1 DEF Numbered
  <2> QED BY <2>1, <2>2
<1> QED BY <1>1, <1>3 DEF Numbered

LEMMA NumberedRest ==
    ASSUME NEW S, NEW s \in Seq(S), NEW dir, NEW k \in Int, Numbered(s, dir, k),
           NEW n \in 0 .. Len(s)
    PROVE  /\ SubSeq(s, n + 1, Len(s)) \in Seq(S)
           /\ Len(SubSeq(s, n + 1, Len(s))) = Len(s) - n
           /\ Numbered(SubSeq(s, n + 1, Len(s)), dir, k + n)
<1>1. Len(s) \in Nat /\ n \in Nat
  OBVIOUS
<1>2. /\ SubSeq(s, n + 1, Len(s)) \in Seq(S)
      /\ Len(SubSeq(s, n + 1, Len(s))) = Len(s) - n
      /\ \A i \in 1 .. Len(s) - n : SubSeq(s, n + 1, Len(s))[i] = s[n + i]
  BY <1>1
<1>3. \A i \in 1 .. Len(s) - n : n + i \in 1 .. Len(s) /\ k + (n + i) = (k + n) + i
  BY <1>1
<1> QED BY <1>2, <1>3 DEF Numbered

LEMMA NumberedConcat ==
    ASSUME NEW S, NEW w \in Seq(S), NEW s \in Seq(S), NEW dir, NEW n \in 1 .. Len(s),
           Numbered(w, dir, 0), Numbered(s, dir, Len(w))
    PROVE  /\ w \o SubSeq(s, 1, n) \in Seq(S) /\ Len(w \o SubSeq(s, 1, n)) = Len(w) + n
           /\ Numbered(w \o SubSeq(s, 1, n), dir, 0)
<1> DEFINE u == SubSeq(s, 1, n)
<1>1. Len(s) \in Nat /\ n \in Nat /\ Len(w) \in Nat
  OBVIOUS
<1>2. u \in Seq(S) /\ Len(u) = n /\ \A i \in 1 .. n : u[i] = s[i]
  BY <1>1
<1>3. Numbered(u, dir, Len(w))
  BY <1>1, <1>2 DEF Numbered
<1> HIDE DEF u
<1>4. /\ w \o u \in Seq(S) /\ Len(w \o u) = Len(w) + n
      /\ \A i \in 1 .. Len(w) + n : (w \o u)[i] = IF i <= Len(w) THEN w[i] ELSE u[i - Len(w)]
  BY <1>1, <1>2
<1>5. ASSUME NEW i \in 1 .. Len(w) + n PROVE (w \o u)[i] = <<dir, 0 + i>>
  <2>1. CASE i <= Len(w)
    <3>1. i \in 1 .. Len(w)
      BY <1>1, <2>1
    <3> QED BY <1>4, <2>1, <3>1 DEF Numbered
  <2>2. CASE ~(i <= Len(w))
    <3>1. i - Len(w) \in 1 .. n /\ Len(w) + (i - Len(w)) = 0 + i
      BY <1>1, <2>2
    <3> QED BY <1>2, <1>3, <1>4, <2>2, <3>1 DEF Numbered
  <2> QED BY <2>1, <2>2
<1>6. Numbered(w \o u, dir, 0)
  BY <1>4, <1>5 DEF Numbered
<1> QED BY <1>4, <1>6 DEF u

LEMMA NumberedPrefix ==
    ASSUME NEW S, NEW s \in Seq(S), NEW t \in Seq(S), NEW dir, Len(s) <= Len(t),
           Numbered(s, dir, 0), Numbered(t, dir, 0)
    PROVE  IsPrefix(s, t)
<1>1. Len(s) \in Nat /\ Len(t) \in Nat
  OBVIOUS
<1>2. ASSUME NEW i \in 1 .. Len(s) PROVE s[i] = t[i]
  <2>1. i \in 1 .. Len(t)
    BY <1>1
  <2> QED BY <2>1 DEF Numbered
<1>3. /\ SubSeq(s, 1, Len(s)) \in Seq(S) /\ Len(SubSeq(s, 1, Len(s))) = Len(s)
      /\ \A i \in 1 .. Len(s) : SubSeq(s, 1, Len(s))[i] = s[i]
  BY <1>1
<1>4. /\ SubSeq(t, 1, Len(s)) \in Seq(S) /\ Len(SubSeq(t, 1, Len(s))) = Len(s)
      /\ \A i \in 1 .. Len(s) : SubSeq(t, 1, Len(s))[i] = t[i]
  BY <1>1
<1>5. SubSeq(s, 1, Len(s)) = SubSeq(t, 1, Len(s))
  BY <1>2, <1>3, <1>4
<1> QED BY <1>5 DEF IsPrefix

\* While a thread is clearing, the descriptor is closed; and the descriptor is
\* closed before the socket is marked invalid.
OpenOK ==
    /\ \A t \in Threads : pc[t] \in Critical => ~fd
    /\ fd => sock

LEMMA CloseOfOpen ==
    ASSUME PlacesOK, OpenOK, NEW t \in Threads, Close(t)
    PROVE  OpenOK' /\ ~fd'
<1>1. CASE CloseAgain(t)
  <2>1. /\ pc' = [pc EXCEPT ![t] = back[t]] /\ UNCHANGED <<sock, fd>> /\ ~sock
    BY <1>1 DEF CloseAgain, Return, connection
  <2> QED BY <2>1 DEF OpenOK
<1>2. CASE CloseSocket(t)
  BY <1>2 DEF CloseSocket, OpenOK
<1>3. CASE CloseInvalid(t) \/ CloseUnlock(t)
  BY <1>3 DEF CloseInvalid, CloseUnlock, At, OpenOK, Critical
<1>4. CASE \/ ClearHasRecv(t) \/ ClearPopRecv(t) \/ ClearHasSend(t) \/ ClearPopSend(t)
           \/ ClearBuffer(t)
  BY <1>4 DEF ClearHasRecv, ClearPopRecv, ClearHasSend, ClearPopSend, ClearBuffer, At,
              connection, OpenOK, Critical
<1> QED BY <1>1, <1>2, <1>3, <1>4 DEF Close

LEMMA NextOpen ==
    ASSUME PlacesOK, OpenOK, [Next]_vars
    PROVE  /\ OpenOK'
           /\ fd' => fd /\ \A t \in Threads : ~Close(t)
<1>1. CASE \E t \in Threads : Close(t)
  BY <1>1, CloseOfOpen
<1>2. CASE Next /\ ~\E t \in Threads : Close(t)
  <2>1. ~Close("main") /\ ~Close("input") /\ ~Close("recv") /\ ~Close("send")
    BY <1>2 DEF Threads
  <2>2. "input" \in Threads /\ "recv" \in Threads /\ "send" \in Threads
    BY DEF Threads
  <2>3. PICK t \in Threads : StepElsewhere(t)
    BY <1>2, <2>1, <2>2, MainElsewhere, InputElsewhere, ReceiverElsewhere, SenderElsewhere
       DEF Next
  <2>4. UNCHANGED <<sock, fd>>
    BY <2>3 DEF StepElsewhere, connection
  <2>5. \A u \in Threads : pc'[u] \in Critical => pc[u] \in Critical
    BY <2>3 DEF PlacesOK, StepElsewhere, Elsewhere, Critical
  <2> QED BY <1>2, <2>4, <2>5 DEF OpenOK
<1>3. CASE UNCHANGED vars
  <2>1. UNCHANGED <<sock, fd, pc>>
    BY <1>3 DEF vars, connection
  <2>2. OpenOK'
    BY <2>1 DEF OpenOK
  <2>3. fd => \A t \in Threads : ~Close(t)
    BY <2>1, CloseOfOpen
  <2> QED BY <2>1, <2>2, <2>3
<1> QED BY <1>1, <1>2, <1>3

\* What the kernel accepted is numbered like what was queued, and is part of it.
WireOK ==
    /\ queued \in Seq(Out) /\ Numbered(queued, "out", 0)
    /\ wire \in Seq(Out) /\ Numbered(wire, "out", 0)
    /\ Len(wire) <= Len(queued)

\* How many messages the kernel accepted or _sendBuf holds: those whose copy is in
\* the buffer and which are no longer, or still for a moment, in the queue.
Copies == Len(wire) - sendLen + Len(ioSend)
Base == IF oDone THEN Copies - 1 ELSE Copies

\* As long as the descriptor is open, the messages the kernel has not accepted are
\* those of _sendBuf and then those of the queue; _oMsg reads the first of the queue.
SendingOK ==
    /\ ioSend \in Seq(Out) /\ sendLen \in 0 .. Len(ioSend) /\ oDone \in BOOLEAN
    /\ Numbered(ioSend, "out", Len(wire) - sendLen)
    /\ Numbered(sendQueue, "out", Base) /\ Base + Len(sendQueue) = Len(queued)
    /\ oMsg # NoUnit => sendQueue # << >> /\ oMsg = Head(sendQueue)
    /\ oDone => oMsg # NoUnit
    /\ sendLen # 0 => pc["send"] \in {"moveFull", "moveFlush"}
    /\ pc["send"] = "reading" => oMsg # NoUnit /\ ~oDone
    /\ pc["send"] = "pop" => oMsg # NoUnit /\ oDone
    /\ pc["send"] \in {"next", "front", "frontRead"} => oMsg = NoUnit

SendInv == PlacesOK /\ SendQueueOK /\ WireOK /\ SendingOK

LEMMA SendTypes ==
    ASSUME SendInv
    PROVE  /\ Len(wire) \in Nat /\ Len(queued) \in Nat /\ Len(ioSend) \in Nat
           /\ Len(sendQueue) \in Nat /\ sendLen \in Nat
           /\ Copies \in Int /\ Base \in Int
           /\ oDone \in BOOLEAN /\ NoUnit \notin Out
BY DEF SendInv, SendQueueOK, WireOK, SendingOK, Copies, Base, Out, NoUnit

\* A step that moves no message.
LEMMA SendMoves ==
    ASSUME SendInv, UNCHANGED <<wire, ioSend, sendLen, oMsg, oDone, sendQueue, queued>>,
           sendLen # 0 => pc'["send"] = pc["send"],
           pc'["send"] \in {"reading", "pop", "next", "front", "frontRead"} =>
               \/ pc'["send"] = pc["send"]
               \/ pc'["send"] = "reading" /\ oMsg # NoUnit /\ ~oDone
               \/ pc'["send"] = "pop" /\ oMsg # NoUnit /\ oDone
               \/ pc'["send"] \in {"next", "front", "frontRead"} /\ oMsg = NoUnit
    PROVE  WireOK' /\ SendingOK'
<1>1. WireOK'
  BY DEF SendInv, WireOK, Numbered
<1>2. Copies' = Copies /\ Base' = Base
  BY DEF Copies, Base
<1>3. /\ Numbered(ioSend', "out", Len(wire') - sendLen')
      /\ Numbered(sendQueue', "out", Base') /\ Base' + Len(sendQueue') = Len(queued')
  BY <1>2 DEF SendInv, SendingOK
<1>4. SendingOK'
  BY <1>3 DEF SendInv, SendingOK
<1> QED BY <1>1, <1>4

LEMMA SendPcSteps ==
    ASSUME SendInv,
           \/ SendTop \/ Room \/ SendSelect \/ CanRead \/ NextHasData \/ FrontOfNone
           \/ FrontNotNull
    PROVE  WireOK' /\ SendingOK'
<1>1. UNCHANGED <<wire, ioSend, sendLen, oMsg, oDone, sendQueue, queued>>
  BY DEF SendTop, Room, SendSelect, CanRead, NextHasData, FrontOfNone, FrontNotNull,
         sending, queues
<1>2. "send" \in DOMAIN pc
  BY DEF SendInv, PlacesOK, Threads
<1>3. sendLen = 0
  BY DEF SendTop, Room, SendSelect, CanRead, NextHasData, FrontOfNone, FrontNotNull, At,
         SendInv, SendingOK
<1>4. CASE SendTop \/ Room \/ SendSelect \/ FrontOfNone
  <2>1. pc'["send"] = pc["send"] \/
        pc'["send"] \notin {"reading", "pop", "next", "front", "frontRead"}
    BY <1>2, <1>4 DEF SendTop, Room, SendSelect, FrontOfNone, Goto, CallClose, Crash
  <2> QED BY <1>1, <1>3, <2>1, SendMoves
<1>5. CASE CanRead
  <2>1. \/ pc'["send"] = "reading" /\ oMsg # NoUnit /\ ~oDone
        \/ pc'["send"] = "next" /\ oMsg = NoUnit
        \/ pc'["send"] = "pop" /\ oMsg # NoUnit /\ oDone
    BY <1>2, <1>5 DEF CanRead, Goto
  <2> QED BY <1>1, <1>3, <2>1, SendMoves
<1>6. CASE NextHasData \/ FrontNotNull
  <2>1. oMsg = NoUnit
    BY <1>6 DEF NextHasData, FrontNotNull, At, SendInv, SendingOK
  <2>2. pc'["send"] \in {"front", "flush", "top", "frontRead"}
    BY <1>2, <1>6 DEF NextHasData, FrontNotNull, Goto
  <2> QED BY <1>1, <1>3, <2>1, <2>2, SendMoves
<1> QED BY <1>4, <1>5, <1>6

LEMMA SendKernelStep == ASSUME SendInv, SendToKernel PROVE WireOK' /\ SendingOK'
<1>1. UNCHANGED <<ioSend, oMsg, oDone, sendQueue, queued>>
  BY DEF SendToKernel, queues
<1>2. "send" \in DOMAIN pc
  BY DEF SendInv, PlacesOK, Threads
<1>3. sendLen = 0
  BY DEF SendToKernel, At, SendInv, SendingOK
<1>4. CASE CallClose("send", "top") /\ UNCHANGED <<sendLen, wire>>
  <2>1. pc'["send"] = "close"
    BY <1>2, <1>4 DEF CallClose
  <2> QED BY <1>1, <1>3, <1>4, <2>1, SendMoves
<1>5. CASE ~(CallClose("send", "top") /\ UNCHANGED <<sendLen, wire>>)
  <2>1. /\ sendLen' \in 1 .. Len(ioSend) /\ wire' = wire \o SubSeq(ioSend, 1, sendLen')
        /\ pc'["send"] \in {"moveFull", "moveFlush"}
    BY <1>2, <1>5 DEF SendToKernel, Goto
  <2>2. Numbered(ioSend, "out", Len(wire))
    BY <1>3, SendTypes DEF SendInv, SendingOK
  <2>3. /\ wire' \in Seq(Out) /\ Len(wire') = Len(wire) + sendLen'
        /\ Numbered(wire', "out", 0)
    BY <2>1, <2>2, NumberedConcat DEF SendInv, WireOK, SendingOK
  <2>4. /\ Len(wire) \in Nat /\ Len(ioSend) \in Nat /\ Len(sendQueue) \in Nat
        /\ sendLen' \in 1 .. Len(ioSend) /\ sendLen' \in Nat
        /\ Len(wire') - sendLen' = Len(wire) - sendLen
    BY <1>3, <2>1, <2>3, SendTypes
  <2>5. Copies' = Copies /\ Base' = Base
    BY <1>1, <2>4 DEF Copies, Base
  <2>6. Numbered(sendQueue', "out", Base') /\ Base' + Len(sendQueue') = Len(queued')
    BY <1>1, <2>5 DEF SendInv, SendingOK
  <2>7. SendingOK'
    <3>1. Numbered(ioSend', "out", Len(wire') - sendLen')
      BY <1>1, <2>4 DEF SendInv, SendingOK
    <3>2. sendLen' \in 0 .. Len(ioSend')
      BY <1>1, <2>4
    <3> QED BY <1>1, <2>1, <2>6, <3>1, <3>2 DEF SendInv, SendingOK
  <2>8. Len(wire') <= Len(queued')
    <3>1. oDone => Len(sendQueue) >= 1
      BY DEF SendInv, SendingOK, SendQueueOK
    <3>2. Copies <= Base + Len(sendQueue)
      BY <3>1, SendTypes DEF Base
    <3>3. Base + Len(sendQueue) = Len(queued)
      BY DEF SendInv, SendingOK
    <3> QED BY <1>1, <1>3, <2>3, <2>4, <3>2, <3>3, SendTypes DEF Copies
  <2>9. WireOK'
    BY <1>1, <2>3, <2>8 DEF SendInv, WireOK
  <2> QED BY <2>7, <2>9
<1> QED BY <1>4, <1>5

LEMMA SendMoveStep == ASSUME SendInv, MoveReadPos PROVE WireOK' /\ SendingOK'
<1>1. UNCHANGED <<wire, oMsg, oDone, sendQueue, queued>> /\ sendLen' = 0
  BY DEF MoveReadPos, queues
<1>2. "send" \in DOMAIN pc
  BY DEF SendInv, PlacesOK, Threads
<1>3. ~(Len(ioSend) < sendLen) /\ sendLen \in 0 .. Len(ioSend)
  BY SendTypes DEF SendInv, SendingOK
<1>4. /\ ioSend' = SubSeq(ioSend, sendLen + 1, Len(ioSend))
      /\ pc'["send"] \in {"copy", "top"}
  BY <1>2, <1>3 DEF MoveReadPos, Goto
<1>5. Len(wire) - sendLen \in Int
  BY SendTypes
<1>6. /\ ioSend' \in Seq(Out) /\ Len(ioSend') = Len(ioSend) - sendLen
      /\ Numbered(ioSend', "out", (Len(wire) - sendLen) + sendLen)
  BY <1>3, <1>4, <1>5, NumberedRest DEF SendInv, SendingOK
<1>7. (Len(wire) - sendLen) + sendLen = Len(wire') - sendLen'
  BY <1>1, SendTypes
<1>8. Copies' = Copies /\ Base' = Base
  BY <1>1, <1>6, SendTypes DEF Copies, Base
<1>9. Numbered(sendQueue', "out", Base') /\ Base' + Len(sendQueue') = Len(queued')
  BY <1>1, <1>8 DEF SendInv, SendingOK
<1>10. SendingOK'
  <2>1. 0 \in 0 .. Len(ioSend')
    BY <1>6
  <2> QED BY <1>1, <1>4, <1>6, <1>7, <1>9, <2>1 DEF SendInv, SendingOK
<1>11. WireOK'
  BY <1>1 DEF SendInv, WireOK
<1> QED BY <1>10, <1>11

\* The message copied is the first of the queue, and its unit is in use.
LEMMA SendCopyStep ==
    ASSUME SendInv, UnitsOwned, CopyMessage
    PROVE  WireOK' /\ SendingOK'
<1>1. UNCHANGED <<wire, sendLen, oMsg, sendQueue, queued>>
  BY DEF CopyMessage, queues
<1>2. "send" \in DOMAIN pc
  BY DEF SendInv, PlacesOK, Threads
<1>3. oMsg # NoUnit /\ ~oDone /\ sendQueue # << >> /\ oMsg = Head(sendQueue) /\ sendLen = 0
  BY DEF CopyMessage, At, SendInv, SendingOK
<1>4. pc'["send"] = "room"
  BY <1>2, <1>3 DEF CopyMessage, Goto
<1>5. CASE ~(canWrite > 0)
  <2>1. UNCHANGED <<ioSend, oDone>>
    BY <1>5 DEF CopyMessage
  <2> QED BY <1>1, <1>3, <1>4, <2>1, SendMoves
<1>6. CASE canWrite > 0
  <2>1. /\ Head(sendQueue) \in Out /\ Head(sendQueue) = sendQueue[1]
        /\ 1 \in DOMAIN sendQueue /\ Len(sendQueue) \in Nat \ {0}
        /\ Head(sendQueue) = <<"out", Base + 1>>
    BY <1>3, SendTypes, NumberedTail DEF SendInv, SendQueueOK, SendingOK
  <2>2. oMsg \in held
    BY <1>3, <2>1 DEF UnitsOwned, ToSet
  <2>3. ioSend' = Append(ioSend, oMsg) /\ oDone' = TRUE
    BY <1>3, <1>6, <2>2 DEF CopyMessage
  <2>4. Base = (Len(wire) - sendLen) + Len(ioSend)
    BY <1>3 DEF Base, Copies
  <2>5. Base + 1 = (Len(wire) - sendLen) + (Len(ioSend) + 1) /\ Len(wire) - sendLen \in Int
    BY <2>4, SendTypes
  <2>6. /\ ioSend' \in Seq(Out) /\ Len(ioSend') = Len(ioSend) + 1
        /\ Numbered(ioSend', "out", Len(wire) - sendLen)
    BY <1>3, <2>1, <2>3, <2>5, NumberedAppend DEF SendInv, SendingOK
  <2>7. Base' = Base
    BY <1>1, <2>3, <2>4, <2>6, SendTypes DEF Base, Copies
  <2>8. Numbered(sendQueue', "out", Base') /\ Base' + Len(sendQueue') = Len(queued')
    BY <1>1, <2>7 DEF SendInv, SendingOK
  <2>9. SendingOK'
    <3>1. sendLen' \in 0 .. Len(ioSend')
      BY <1>1, <1>3, <2>6, SendTypes
    <3> QED BY <1>1, <1>3, <1>4, <2>3, <2>6, <2>8, <3>1 DEF SendInv, SendingOK
  <2>10. WireOK'
    BY <1>1 DEF SendInv, WireOK
  <2> QED BY <2>9, <2>10
<1> QED BY <1>5, <1>6

\* The message popped is the one that was copied.
LEMMA SendPopStep == ASSUME SendInv, Copied PROVE WireOK' /\ SendingOK'
<1>1. UNCHANGED <<wire, sendLen, ioSend, queued>>
  BY DEF Copied
<1>2. "send" \in DOMAIN pc
  BY DEF SendInv, PlacesOK, Threads
<1>3. oMsg # NoUnit /\ oDone /\ sendQueue # << >> /\ sendLen = 0
  BY DEF Copied, At, SendInv, SendingOK
<1>4. sendQueue' = Tail(sendQueue) /\ oMsg' = NoUnit /\ oDone' = FALSE /\ pc'["send"] = "next"
  BY <1>2, <1>3 DEF Copied, PopSend, Goto
<1>5. /\ Len(Tail(sendQueue)) = Len(sendQueue) - 1
      /\ Numbered(Tail(sendQueue), "out", Base + 1)
  BY <1>3, SendTypes, NumberedTail DEF SendInv, SendQueueOK, SendingOK
<1>6. Base' = Base + 1
  BY <1>1, <1>3, <1>4, SendTypes DEF Base, Copies
<1>7. Base' + Len(sendQueue') = Len(queued')
  <2>1. Base + Len(sendQueue) = Len(queued)
    BY DEF SendInv, SendingOK
  <2>2. Len(sendQueue') = Len(sendQueue) - 1 /\ Len(queued') = Len(queued)
    BY <1>1, <1>4, <1>5
  <2>3. Base \in Int /\ Len(sendQueue) \in Nat
    BY SendTypes
  <2> QED BY <1>6, <2>1, <2>2, <2>3
<1>8. SendingOK'
  BY <1>1, <1>3, <1>4, <1>5, <1>6, <1>7 DEF SendInv, SendingOK
<1>9. WireOK'
  BY <1>1 DEF SendInv, WireOK
<1> QED BY <1>8, <1>9

LEMMA SendFrontStep == ASSUME SendInv, FrontRead PROVE WireOK' /\ SendingOK'
<1>1. UNCHANGED <<wire, sendLen, ioSend, queued, oDone, sendQueue>>
  BY DEF FrontRead, queues
<1>2. "send" \in DOMAIN pc
  BY DEF SendInv, PlacesOK, Threads
<1>3. oMsg = NoUnit /\ ~oDone /\ sendLen = 0
  BY DEF FrontRead, At, SendInv, SendingOK
<1>4. CASE sendQueue = << >>
  <2>1. oMsg' = oMsg /\ pc' = pc
    BY <1>4 DEF FrontRead, Crash
  <2> QED BY <1>1, <1>3, <2>1, SendMoves
<1>5. CASE sendQueue # << >>
  <2>1. oMsg' = Head(sendQueue) /\ pc'["send"] = "room"
    BY <1>2, <1>5 DEF FrontRead, Goto
  <2>2. Copies' = Copies /\ Base' = Base
    BY <1>1 DEF Copies, Base
  <2>3. SendingOK'
    BY <1>1, <1>3, <1>5, <2>1, <2>2 DEF SendInv, SendingOK
  <2>4. WireOK'
    BY <1>1 DEF SendInv, WireOK
  <2> QED BY <2>3, <2>4
<1> QED BY <1>4, <1>5

LEMMA SendQueueStep == ASSUME SendInv, SendData PROVE WireOK' /\ SendingOK'
<1> DEFINE m == <<"out", Len(queued) + 1>>
<1>1. /\ UNCHANGED <<wire, sendLen, ioSend, oMsg, oDone>>
      /\ sendQueue' = Append(sendQueue, m) /\ queued' = Append(queued, m)
  BY DEF SendData, sending
<1>2. pc'["send"] = pc["send"]
  BY DEF SendData, Goto, SendInv, PlacesOK
<1>3. m \in Out
  BY SendTypes DEF Out
<1>4. Base + Len(sendQueue) = Len(queued)
  BY DEF SendInv, SendingOK
<1>5. /\ Len(queued) + 1 = 0 + (Len(queued) + 1)
      /\ Len(queued) + 1 = Base + (Len(sendQueue) + 1)
  BY <1>4, SendTypes
<1>6. /\ queued' \in Seq(Out) /\ Len(queued') = Len(queued) + 1
      /\ Numbered(queued', "out", 0)
  BY <1>1, <1>3, <1>5, NumberedAppend DEF SendInv, WireOK
<1>7. /\ sendQueue' \in Seq(Out) /\ Len(sendQueue') = Len(sendQueue) + 1
      /\ Numbered(sendQueue', "out", Base)
  BY <1>1, <1>3, <1>5, SendTypes, NumberedAppend DEF SendInv, SendQueueOK, SendingOK
<1> HIDE DEF m
<1>8. Copies' = Copies /\ Base' = Base
  BY <1>1 DEF Copies, Base
<1>9. Base' + Len(sendQueue') = Len(queued')
  BY <1>4, <1>6, <1>7, <1>8, SendTypes
<1>10. oMsg' # NoUnit => sendQueue' # << >> /\ oMsg' = Head(sendQueue')
  <2>1. SUFFICES ASSUME oMsg # NoUnit PROVE sendQueue' # << >> /\ Head(sendQueue') = oMsg
    BY <1>1
  <2>2. sendQueue # << >> /\ oMsg = Head(sendQueue)
    BY <2>1 DEF SendInv, SendingOK
  <2>3. sendQueue \in Seq(Out)
    BY DEF SendInv, SendQueueOK
  <2> QED BY <1>1, <1>3, <2>2, <2>3
<1>11. SendingOK'
  BY <1>1, <1>2, <1>7, <1>8, <1>9, <1>10 DEF SendInv, SendingOK
<1>12. WireOK'
  BY <1>1, <1>6, SendTypes DEF SendInv, WireOK
<1> QED BY <1>11, <1>12

\* The rest of a step leaves the sending side alone, as long as nobody closes.
LEMMA SendStep ==
    ASSUME SendInv, UnitsOwned, [Next]_vars, \A t \in Threads : ~Close(t)
    PROVE  WireOK' /\ SendingOK'
<1>1. ~Close("main") /\ ~Close("input") /\ ~Close("recv") /\ ~Close("send")
  BY DEF Threads
<1>2. CASE Sender
  BY <1>1, <1>2, SendPcSteps, SendKernelStep, SendMoveStep, SendCopyStep, SendPopStep,
     SendFrontStep DEF Sender
<1>3. CASE SendData
  BY <1>3, SendQueueStep
<1>4. CASE Main \/ InputTop \/ Receiver \/ UseAfterDelete \/ UNCHANGED vars
  <2>1. UNCHANGED <<wire, ioSend, sendLen, oMsg, oDone, sendQueue, queued>>
    <3>1. CASE Main \/ InputTop \/ UseAfterDelete
      BY <1>1, <3>1 DEF Main, MainTop, OnRunHasData, OnRunPop, Exit, InputTop,
                        UseAfterDelete, sending, queues
    <3>2. CASE Receiver
      BY <1>1, <3>2 DEF Receiver, RecvTop, RecvSelect, Recv, ParseCanRead, ReadUShort,
                        ReadBytes, RecvLimit, sending, queues
    <3> QED BY <1>4, <3>1, <3>2 DEF vars, sending, queues
  <2>2. pc'["send"] = pc["send"]
    <3>1. CASE Main \/ UseAfterDelete
      <4>1. pc' = pc \/ \E p \in Places : pc' = [pc EXCEPT !["main"] = p]
        BY <1>1, <3>1 DEF Main, MainTop, OnRunHasData, OnRunPop, Exit, UseAfterDelete, Goto,
                          CallClose, Crash, Places
      <4> QED BY <4>1 DEF SendInv, PlacesOK, Threads
    <3>2. CASE InputTop
      BY <3>2 DEF InputTop, Goto, CallClose, SendInv, PlacesOK, Threads
    <3>3. CASE Receiver
      <4>1. PlacesOK
        BY DEF SendInv
      <4>2. StepElsewhere("recv")
        BY <1>1, <3>3, <4>1, ReceiverElsewhere
      <4> QED BY <4>1, <4>2 DEF StepElsewhere, PlacesOK, Threads
    <3> QED BY <1>4, <3>1, <3>2, <3>3 DEF vars
  <2> QED BY <2>1, <2>2, SendMoves
<1> QED BY <1>1, <1>2, <1>3, <1>4 DEF Next, Input

\* Once the descriptor is closed the kernel is given nothing more.
LEMMA WireAfterClose ==
    ASSUME SendQueueOK, WireOK, OpenOK, PlacesOK, [Next]_vars, ~fd'
    PROVE  WireOK'
<1>1. wire' = wire
  <2>1. CASE SendToKernel
    <3>1. UNCHANGED fd
      BY <2>1 DEF SendToKernel, connection
    <3> QED BY <2>1, <3>1 DEF SendToKernel
  <2>2. CASE \E t \in Threads : Close(t)
    BY <2>2 DEF Close, CloseAgain, CloseSocket, CloseInvalid, ClearHasRecv, ClearPopRecv,
                ClearHasSend, ClearPopSend, ClearBuffer, CloseUnlock, sending
  <2>3. CASE Main \/ Input \/ UseAfterDelete \/ UNCHANGED vars
    BY <2>2, <2>3 DEF Main, MainTop, OnRunHasData, OnRunPop, Exit, Input, InputTop, SendData,
                      UseAfterDelete, Threads, sending, vars
  <2>4. CASE Receiver
    BY <2>2, <2>4 DEF Receiver, RecvTop, RecvSelect, Recv, ParseCanRead, ReadUShort,
                      ReadBytes, RecvLimit, Threads, sending
  <2>5. CASE Sender /\ ~SendToKernel
    BY <2>2, <2>5 DEF Sender, SendTop, Room, SendSelect, MoveReadPos, CanRead, CopyMessage,
                      Copied, NextHasData, FrontOfNone, FrontNotNull, FrontRead, Threads,
                      sending
  <2> QED BY <2>1, <2>3, <2>4, <2>5 DEF Next
<1>2. CASE queued' = queued
  BY <1>1, <1>2 DEF WireOK, Numbered
<1>3. CASE SendData
  <2> DEFINE m == <<"out", Len(queued) + 1>>
  <2>1. queued' = Append(queued, m)
    BY <1>3 DEF SendData
  <2>2. Len(queued) \in Nat /\ Len(wire) \in Nat
    BY DEF WireOK
  <2>3. m \in Out /\ Len(queued) + 1 = 0 + (Len(queued) + 1)
    BY <2>2 DEF Out
  <2>4. /\ queued' \in Seq(Out) /\ Len(queued') = Len(queued) + 1
        /\ Numbered(queued', "out", 0)
    BY <2>1, <2>3, NumberedAppend DEF WireOK
  <2>5. Len(wire') <= Len(queued')
    BY <1>1, <2>2, <2>4 DEF WireOK
  <2> QED BY <1>1, <2>4, <2>5 DEF WireOK
<1>4. CASE ~SendData
  <2>0. SUFFICES queued' = queued
    BY <1>2
  <2>1. CASE \E t \in Threads : Close(t)
    BY <2>1 DEF Close, CloseAgain, CloseSocket, CloseInvalid, ClearHasRecv, ClearPopRecv,
                ClearHasSend, ClearPopSend, ClearBuffer, CloseUnlock, queues
  <2>2. CASE Main \/ Input \/ UseAfterDelete \/ UNCHANGED vars
    BY <1>4, <2>1, <2>2 DEF Main, MainTop, OnRunHasData, OnRunPop, Exit, Input, InputTop,
                            UseAfterDelete, Threads, queues, vars
  <2>3. CASE Receiver
    BY <2>1, <2>3 DEF Receiver, RecvTop, RecvSelect, Recv, ParseCanRead, ReadUShort,
                      ReadBytes, RecvLimit, Threads, queues
  <2>4. CASE Sender
    BY <2>1, <2>4 DEF Sender, SendTop, Room, SendSelect, SendToKernel, MoveReadPos, CanRead,
                      CopyMessage, Copied, NextHasData, FrontOfNone, FrontNotNull, FrontRead,
                      Threads, queues
  <2> QED BY <2>2, <2>3, <2>4 DEF Next
<1> QED BY <1>3, <1>4

\* The messages OnRecvMsg was given come before those of the receive queue, and
\* these before those of _oRecv.
HandledOK ==
    /\ handled \in Seq(In) /\ Ascending(handled)
    /\ \A i \in 1 .. Len(handled) : handled[i][2] <= taken
    /\ \A i \in 1 .. Len(handled), j \in 1 .. Len(recvQueue) : handled[i][2] < recvQueue[j][2]
    /\ \A i \in 1 .. Len(handled), j \in 1 .. Len(oRecv) : handled[i][2] < oRecv[j][2]

\* As long as the descriptor is open, together they are all that has arrived.
ReceivingOK ==
    /\ Numbered(handled, "in", 0)
    /\ Numbered(recvQueue, "in", Len(handled))
    /\ Numbered(oRecv, "in", Len(handled) + Len(recvQueue))
    /\ Len(handled) + Len(recvQueue) + Len(oRecv) = taken
    /\ pc["recv"] \in {"top", "select", "recv"} => oRecv = << >>

\* The unit popped from the receive queue is dropped, by Close, or handled.
Handles == handled' = handled \/ (OnRunPop /\ recvQueue # << >>)

LEMMA NextHandles == ASSUME [Next]_vars PROVE Handles
<1>1. CASE \E t \in Threads : Close(t)
  BY <1>1 DEF Close, CloseAgain, CloseSocket, CloseInvalid, ClearHasRecv, ClearPopRecv,
              ClearHasSend, ClearPopSend, ClearBuffer, CloseUnlock, queues, Handles
<1>2. CASE Main \/ Input \/ UseAfterDelete \/ UNCHANGED vars
  BY <1>1, <1>2 DEF Main, MainTop, OnRunHasData, OnRunPop, Exit, Input, InputTop, SendData,
                    UseAfterDelete, Threads, queues, vars, Handles
<1>3. CASE Receiver
  BY <1>1, <1>3 DEF Receiver, RecvTop, RecvSelect, Recv, ParseCanRead, ReadUShort, ReadBytes,
                    RecvLimit, Threads, queues, Handles
<1>4. CASE Sender
  BY <1>1, <1>4 DEF Sender, SendTop, Room, SendSelect, SendToKernel, MoveReadPos, CanRead,
                    CopyMessage, Copied, NextHasData, FrontOfNone, FrontNotNull, FrontRead,
                    Threads, queues, Handles
<1> QED BY <1>2, <1>3, <1>4 DEF Next

LEMMA HandledFacts ==
    ASSUME RecvQueueOK, HandledOK
    PROVE  /\ Len(handled) \in Nat /\ Len(recvQueue) \in Nat /\ Len(oRecv) \in Nat
           /\ taken \in Nat
           /\ \A i \in 1 .. Len(handled) : handled[i] \in In /\ handled[i][2] \in Nat
BY InFacts DEF RecvQueueOK, HandledOK

LEMMA HandledStep ==
    ASSUME ClientAssumption, RecvQueueOK, HandledOK, Effect, Handles
    PROVE  HandledOK'
<1>1. CASE handled' = handled
  <2>1. CASE UNCHANGED <<recvQueue, oRecv, taken>>
    BY <1>1, <2>1 DEF HandledOK, Ascending
  <2>2. CASE RecvPopped
    <3>1. UNCHANGED <<oRecv, taken>> /\ recvQueue # << >> /\ recvQueue' = Tail(recvQueue)
      BY <2>2 DEF RecvPopped, PopRecv, receiving
    <3>2. \A i \in 1 .. Len(recvQueue') : \E j \in 1 .. Len(recvQueue) :
              recvQueue'[i] = recvQueue[j]
      BY <3>1 DEF RecvQueueOK
    <3> QED BY <1>1, <3>1, <3>2 DEF HandledOK, Ascending
  <2>3. CASE Cleared
    BY <1>1, <2>3 DEF Cleared, queues, HandledOK, Ascending
  <2>4. CASE Received
    <3>1. PICK n \in 1 .. MaxIn - taken : /\ oRecv' = [i \in 1 .. n |-> <<"in", taken + i>>]
                                         /\ taken' = taken + n
      BY <2>4 DEF Received
    <3>2. recvQueue' = recvQueue
      BY <2>4 DEF Received, queues
    <3>3. n \in Nat /\ taken \in Nat /\ n >= 1
      BY <3>1, HandledFacts DEF RecvQueueOK, ClientAssumption
    <3>4. Len(oRecv') = n /\ \A i \in 1 .. n : oRecv'[i][2] = taken + i
      BY <3>1, <3>3
    <3>5. \A i \in 1 .. Len(handled), j \in 1 .. Len(oRecv') : handled[i][2] < oRecv'[j][2]
      BY <3>3, <3>4, HandledFacts DEF HandledOK
    <3>6. \A i \in 1 .. Len(handled) : handled[i][2] <= taken'
      BY <3>1, <3>3, HandledFacts DEF HandledOK
    <3> QED BY <1>1, <3>2, <3>5, <3>6 DEF HandledOK, Ascending
  <2>5. CASE Parsed
    <3>1. /\ oRecv # << >> /\ oRecv' = Tail(oRecv)
          /\ recvQueue' = Append(recvQueue, Head(oRecv)) /\ taken' = taken
      BY <2>5 DEF Parsed
    <3>2. /\ \A i \in 1 .. Len(oRecv') : \E j \in 1 .. Len(oRecv) : oRecv'[i] = oRecv[j]
          /\ Head(oRecv) = oRecv[1] /\ 1 \in 1 .. Len(oRecv) /\ Head(oRecv) \in In
      <4>1. /\ oRecv \in Seq(In) /\ Len(oRecv) \in Nat \ {0} /\ Len(oRecv') = Len(oRecv) - 1
            /\ Head(oRecv) = oRecv[1] /\ Head(oRecv) \in In
            /\ \A i \in 1 .. Len(oRecv) - 1 : oRecv'[i] = oRecv[i + 1]
        BY <3>1 DEF RecvQueueOK
      <4>2. \A i \in 1 .. Len(oRecv') : oRecv'[i] = oRecv[i + 1] /\ i + 1 \in 1 .. Len(oRecv)
        BY <4>1
      <4>3. 1 \in 1 .. Len(oRecv)
        BY <4>1
      <4> QED BY <4>1, <4>2, <4>3
    <3>3. \A i \in 1 .. Len(recvQueue') : recvQueue'[i] = Head(oRecv) \/
              \E j \in 1 .. Len(recvQueue) : recvQueue'[i] = recvQueue[j]
      BY <3>1, <3>2 DEF RecvQueueOK
    <3>4. \A i \in 1 .. Len(handled), j \in 1 .. Len(recvQueue') :
              handled[i][2] < recvQueue'[j][2]
      BY <3>2, <3>3 DEF HandledOK
    <3>5. \A i \in 1 .. Len(handled), j \in 1 .. Len(oRecv') : handled[i][2] < oRecv'[j][2]
      BY <3>2 DEF HandledOK
    <3> QED BY <1>1, <3>1, <3>4, <3>5 DEF HandledOK, Ascending
  <2> QED BY <2>1, <2>2, <2>3, <2>4, <2>5
          DEF Effect, Untouched, SendPopped, Queued, queues, receiving
<1>2. CASE OnRunPop /\ recvQueue # << >>
  <2>1. /\ recvQueue' = Tail(recvQueue) /\ handled' = Append(handled, Head(recvQueue))
        /\ UNCHANGED <<oRecv, taken>>
    BY <1>2 DEF OnRunPop, PopRecv, receiving
  <2>2. /\ Head(recvQueue) = recvQueue[1] /\ 1 \in 1 .. Len(recvQueue) /\ Head(recvQueue) \in In
        /\ Len(recvQueue') = Len(recvQueue) - 1
        /\ \A i \in 1 .. Len(recvQueue) - 1 : recvQueue'[i] = recvQueue[i + 1]
    BY <1>2, <2>1 DEF RecvQueueOK
  <2>3. \A i \in 1 .. Len(recvQueue') : i + 1 \in 1 .. Len(recvQueue) /\ 1 < i + 1
    BY <2>2, HandledFacts
  <2>4. \A i \in 1 .. Len(recvQueue') : recvQueue'[i] = recvQueue[i + 1]
    BY <2>2
  <2>5. \A i \in 1 .. Len(handled) : handled[i][2] < Head(recvQueue)[2]
    BY <2>2 DEF HandledOK
  <2>6. handled' \in Seq(In) /\ Ascending(handled')
    BY <2>1, <2>2, <2>5, AppendAscending DEF HandledOK
  <2>7. \A i \in 1 .. Len(handled') : handled'[i] = Head(recvQueue) \/
            \E j \in 1 .. Len(handled) : handled'[i] = handled[j]
    BY <2>1, <2>2 DEF HandledOK
  <2>8. \A i \in 1 .. Len(handled') : handled'[i][2] <= taken'
    BY <2>1, <2>2, <2>7 DEF HandledOK, RecvQueueOK
  <2>9. \A j \in 1 .. Len(recvQueue') : Head(recvQueue)[2] < recvQueue'[j][2]
    BY <2>2, <2>3, <2>4 DEF RecvQueueOK, Ascending
  <2>10. \A i \in 1 .. Len(handled), j \in 1 .. Len(recvQueue') :
             handled[i][2] < recvQueue'[j][2]
    BY <2>3, <2>4 DEF HandledOK
  <2>11. \A i \in 1 .. Len(handled'), j \in 1 .. Len(recvQueue') :
             handled'[i][2] < recvQueue'[j][2]
    BY <2>7, <2>9, <2>10
  <2>12. \A i \in 1 .. Len(handled'), j \in 1 .. Len(oRecv') : handled'[i][2] < oRecv'[j][2]
    BY <2>1, <2>2, <2>7 DEF HandledOK, RecvQueueOK
  <2> QED BY <2>6, <2>8, <2>11, <2>12 DEF HandledOK, Ascending
<1> QED BY <1>1, <1>2 DEF Handles

LEMMA ReceivingStep ==
    ASSUME ClientAssumption, PlacesOK, UnitsInv, HandledOK, ReceivingOK, [Next]_vars,
           \A t \in Threads : ~Close(t)
    PROVE  ReceivingOK'
<1>1. ~Close("main") /\ ~Close("input") /\ ~Close("recv") /\ ~Close("send")
  BY DEF Threads
<1>2. RecvQueueOK
  BY DEF UnitsInv
<1>3. /\ Len(handled) \in Nat /\ Len(recvQueue) \in Nat /\ Len(oRecv) \in Nat
      /\ taken \in Nat
  BY <1>2, HandledFacts
<1>4. "recv" \in DOMAIN pc
  BY DEF PlacesOK, Threads
<1>5. ASSUME UNCHANGED <<handled, recvQueue, oRecv, taken>>,
             pc'["recv"] \in {"top", "select", "recv"} =>
                 pc["recv"] \in {"top", "select", "recv"} \/ oRecv = << >>
      PROVE  ReceivingOK'
  BY <1>5 DEF ReceivingOK
<1>6. CASE OnRunPop /\ recvQueue # << >>
  <2>1. /\ recvQueue' = Tail(recvQueue) /\ handled' = Append(handled, Head(recvQueue))
        /\ UNCHANGED <<oRecv, taken>> /\ pc'["recv"] = pc["recv"]
    BY <1>4, <1>6 DEF OnRunPop, PopRecv, Goto, receiving, PlacesOK
  <2>2. /\ Len(recvQueue') = Len(recvQueue) - 1 /\ Head(recvQueue) \in In
        /\ Numbered(recvQueue', "in", Len(handled) + 1)
        /\ Head(recvQueue) = <<"in", Len(handled) + 1>>
    BY <1>2, <1>3, <1>6, <2>1, NumberedTail DEF RecvQueueOK, ReceivingOK
  <2>3. Len(handled) + 1 = 0 + (Len(handled) + 1)
    BY <1>3
  <2>4. Len(handled') = Len(handled) + 1 /\ Numbered(handled', "in", 0)
    <3>1. handled \in Seq(In) /\ Numbered(handled, "in", 0)
      BY DEF HandledOK, ReceivingOK
    <3>2. Head(recvQueue) = <<"in", 0 + (Len(handled) + 1)>>
      BY <2>2, <2>3
    <3>3. 0 \in Int
      OBVIOUS
    <3> QED BY <2>1, <2>2, <3>1, <3>2, <3>3, NumberedAppend, Zenon
  <2>5. Len(handled') + Len(recvQueue') = Len(handled) + Len(recvQueue)
    BY <1>3, <2>2, <2>4
  <2> QED BY <2>1, <2>2, <2>4, <2>5 DEF ReceivingOK
<1>7. CASE Recv /\ ~CallClose("recv", "top")
  <2>1. oRecv = << >>
    BY <1>7 DEF Recv, At, ReceivingOK
  <2>2. PICK n \in 1 .. MaxIn - taken : /\ oRecv' = [i \in 1 .. n |-> <<"in", taken + i>>]
                                       /\ taken' = taken + n
    BY <1>7 DEF Recv
  <2>3. UNCHANGED <<handled, recvQueue>> /\ pc'["recv"] = "parse"
    BY <1>4, <1>7 DEF Recv, Goto, queues
  <2>4. n \in Nat
    BY <1>3, <2>2 DEF ClientAssumption
  <2>5. Len(oRecv') = n /\ Numbered(oRecv', "in", taken)
    BY <2>2, <2>4 DEF Numbered
  <2>6. Len(handled) + Len(recvQueue) = taken
    BY <1>3, <2>1 DEF ReceivingOK
  <2>7. Len(handled') + Len(recvQueue') + Len(oRecv') = taken'
    BY <2>2, <2>3, <2>5, <2>6
  <2> QED BY <2>3, <2>5, <2>6, <2>7 DEF ReceivingOK
<1>8. CASE ReadBytes /\ oRecv # << >>
  <2>1. /\ oRecv' = Tail(oRecv) /\ recvQueue' = Append(recvQueue, Head(oRecv))
        /\ UNCHANGED <<handled, taken>> /\ pc'["recv"] = "limit"
    BY <1>4, <1>8 DEF ReadBytes, Goto
  <2> DEFINE k == Len(handled) + Len(recvQueue)
  <2>2. k \in Nat /\ k = Len(handled) + Len(recvQueue)
    BY <1>3
  <2>3. Numbered(oRecv, "in", k) /\ k + Len(oRecv) = taken
    BY DEF ReceivingOK
  <2> HIDE DEF k
  <2>4. /\ Len(oRecv') = Len(oRecv) - 1 /\ Numbered(oRecv', "in", k + 1)
        /\ Head(oRecv) = <<"in", k + 1>> /\ Head(oRecv) \in In
    BY <1>2, <1>8, <2>1, <2>2, <2>3, NumberedTail DEF RecvQueueOK
  <2>5. k + 1 = Len(handled) + (Len(recvQueue) + 1)
    BY <1>3, <2>2
  <2>6. /\ Len(recvQueue') = Len(recvQueue) + 1
        /\ Numbered(recvQueue', "in", Len(handled))
    <3>1. recvQueue \in Seq(In) /\ Numbered(recvQueue, "in", Len(handled))
      BY <1>2 DEF RecvQueueOK, ReceivingOK
    <3>2. Head(oRecv) = <<"in", Len(handled) + (Len(recvQueue) + 1)>>
      BY <2>4, <2>5
    <3>3. Len(handled) \in Int
      BY <1>3
    <3> QED BY <2>1, <2>4, <3>1, <3>2, <3>3, NumberedAppend
  <2>7. /\ Len(handled') + Len(recvQueue') = k + 1
        /\ Len(handled') + Len(recvQueue') + Len(oRecv') = taken'
    <3>1. /\ Len(handled') = Len(handled) /\ taken' = taken
          /\ Len(recvQueue') = Len(recvQueue) + 1 /\ Len(oRecv') = Len(oRecv) - 1
      BY <2>1, <2>4, <2>6
    <3> QED BY <1>3, <2>2, <2>3, <2>5, <3>1
  <2> QED BY <2>1, <2>4, <2>6, <2>7 DEF ReceivingOK
<1>9. CASE \/ RecvTop \/ RecvSelect \/ (Recv /\ CallClose("recv", "top")) \/ ParseCanRead
           \/ ReadUShort \/ (ReadBytes /\ oRecv = << >>) \/ RecvLimit
  <2>1. UNCHANGED <<handled, recvQueue, oRecv, taken>>
    <3>1. CASE Recv /\ CallClose("recv", "top")
      <4>1. ~Goto("recv", "parse")
        BY <1>4, <3>1 DEF CallClose, Goto
      <4> QED BY <3>1, <4>1 DEF Recv, queues, receiving
    <3> QED BY <1>9, <3>1 DEF RecvTop, RecvSelect, ParseCanRead, ReadUShort, ReadBytes,
                              RecvLimit, queues, receiving
  <2>2. CASE RecvTop \/ RecvSelect
    BY <1>5, <2>1, <2>2 DEF RecvTop, RecvSelect, At
  <2>3. CASE Recv /\ CallClose("recv", "top")
    BY <1>5, <2>1, <2>3 DEF Recv, At
  <2>4. CASE ParseCanRead
    <3>1. oRecv = << >> \/ pc'["recv"] = "readUShort"
      BY <1>4, <2>4 DEF ParseCanRead, Goto
    <3> QED BY <1>5, <2>1, <3>1
  <2>5. CASE ReadUShort \/ (ReadBytes /\ oRecv = << >>) \/ RecvLimit
    <3>1. pc'["recv"] \in {"readUShort", "readBytes", "close", "parse", "limit"}
      BY <1>4, <2>5 DEF ReadUShort, ReadBytes, RecvLimit, At, Goto, Crash, CallClose
    <3> QED BY <1>5, <2>1, <3>1
  <2> QED BY <1>9, <2>2, <2>3, <2>4, <2>5
<1>10. CASE \/ MainTop \/ OnRunHasData \/ (OnRunPop /\ recvQueue = << >>) \/ Exit \/ Input
            \/ Sender \/ UseAfterDelete \/ UNCHANGED vars
  <2>1. UNCHANGED <<handled, recvQueue, oRecv, taken>>
    <3>1. CASE \/ MainTop \/ OnRunHasData \/ (OnRunPop /\ recvQueue = << >>) \/ Exit
               \/ UseAfterDelete \/ UNCHANGED vars
      BY <3>1 DEF MainTop, OnRunHasData, OnRunPop, Exit, UseAfterDelete, vars, queues,
                  receiving
    <3>2. CASE Input
      BY <1>1, <3>2 DEF Input, InputTop, SendData, queues, receiving
    <3>3. CASE Sender
      BY <1>1, <3>3 DEF Sender, SendTop, Room, SendSelect, SendToKernel, MoveReadPos,
                        CanRead, CopyMessage, Copied, NextHasData, FrontOfNone, FrontNotNull,
                        FrontRead, queues, receiving
    <3> QED BY <1>10, <3>1, <3>2, <3>3
  <2>2. pc'["recv"] = pc["recv"]
    <3>1. CASE \/ MainTop \/ OnRunHasData \/ (OnRunPop /\ recvQueue = << >>) \/ Exit
               \/ UseAfterDelete \/ UNCHANGED vars
      <4>1. pc' = pc \/ \E p \in Places : pc' = [pc EXCEPT !["main"] = p]
        BY <3>1 DEF MainTop, OnRunHasData, OnRunPop, Exit, UseAfterDelete, Goto, CallClose,
                    Crash, Places, vars
      <4> QED BY <4>1 DEF PlacesOK, Threads
    <3>2. CASE Input
      <4>1. StepElsewhere("input")
        BY <1>1, <3>2, InputElsewhere
      <4> QED BY <4>1 DEF StepElsewhere, PlacesOK, Threads
    <3>3. CASE Sender
      <4>1. StepElsewhere("send")
        BY <1>1, <3>3, SenderElsewhere
      <4> QED BY <4>1 DEF StepElsewhere, PlacesOK, Threads
    <3> QED BY <1>10, <3>1, <3>2, <3>3
  <2>3. pc'["recv"] \in {"top", "select", "recv"} => pc["recv"] \in {"top", "select", "recv"}
    BY <2>2
  <2> QED BY <2>1, <2>3 DEF ReceivingOK
<1>11. CASE Receiver
  <2>1. CASE Recv
    BY <1>7, <1>9, <2>1
  <2>2. CASE ReadBytes
    BY <1>8, <1>9, <2>2
  <2>3. CASE RecvTop \/ RecvSelect \/ ParseCanRead \/ ReadUShort \/ RecvLimit
    BY <1>9, <2>3
  <2> QED BY <1>1, <1>11, <2>1, <2>2, <2>3 DEF Receiver
<1>12. CASE Main
  <2>1. CASE OnRunPop
    BY <1>6, <1>10, <2>1
  <2>2. CASE MainTop \/ OnRunHasData \/ Exit
    BY <1>10, <2>2
  <2> QED BY <1>1, <1>12, <2>1, <2>2 DEF Main
<1> QED BY <1>10, <1>11, <1>12 DEF Next

\* What the proof of the order needs of a state.
OrderInv ==
    /\ PlacesOK /\ OpenOK /\ UnitsInv
    /\ WireOK /\ HandledOK
    /\ fd => SendingOK /\ ReceivingOK

LEMMA InitOrder == ASSUME ClientAssumption, Init PROVE OrderInv
<1>1. PlacesOK /\ OpenOK
  BY DEF Init, PlacesOK, OpenOK, Places, Threads, Critical
<1>2. UnitsInv
  BY DEF Init, ClientAssumption, UnitsInv, SendQueueOK, RecvQueueOK, UnitsOwned, Ascending, ToSet
<1>3. WireOK /\ HandledOK
  BY DEF Init, WireOK, HandledOK, Numbered, Ascending
<1>4. SendingOK
  <2>1. /\ wire = << >> /\ ioSend = << >> /\ sendQueue = << >> /\ queued = << >>
        /\ sendLen = 0 /\ oMsg = NoUnit /\ oDone = FALSE /\ pc["send"] = "top"
    BY DEF Init, Threads
  <2>2. Copies = 0 /\ Base = 0
    BY <2>1 DEF Base, Copies
  <2>3. /\ ioSend \in Seq(Out) /\ Len(ioSend) = 0 /\ Len(wire) = 0 /\ Len(sendQueue) = 0
        /\ Len(queued) = 0
    BY <2>1
  <2>4. /\ Numbered(ioSend, "out", Len(wire) - sendLen) /\ Numbered(sendQueue, "out", Base)
        /\ sendLen \in 0 .. Len(ioSend) /\ Base + Len(sendQueue) = Len(queued)
    BY <2>1, <2>2, <2>3 DEF Numbered
  <2> QED BY <2>1, <2>3, <2>4 DEF SendingOK
<1>5. ReceivingOK
  BY DEF Init, ReceivingOK, Numbered
<1> QED BY <1>1, <1>2, <1>3, <1>4, <1>5 DEF OrderInv

LEMMA NextOrder == ASSUME ClientAssumption, CloseInv, OrderInv, [Next]_vars PROVE OrderInv'
<1> USE DEF OrderInv
<1>1. PlacesOK' /\ OpenOK' /\ (fd' => fd /\ \A t \in Threads : ~Close(t))
  BY NextCloseInv, NextOpen DEF CloseInv
<1>2. Effect /\ UnitsInv'
  BY NextEffect, EffectKeepsUnits DEF UnitsInv
<1>3. HandledOK'
  BY <1>2, NextHandles, HandledStep DEF UnitsInv
<1>4. CASE fd'
  <2>1. fd /\ \A t \in Threads : ~Close(t)
    BY <1>1, <1>4
  <2>2. SendInv /\ UnitsOwned
    BY <2>1 DEF SendInv, UnitsInv
  <2>3. WireOK' /\ SendingOK'
    BY <2>1, <2>2, SendStep
  <2>4. ReceivingOK'
    BY <2>1, ReceivingStep
  <2> QED BY <1>1, <1>2, <1>3, <2>3, <2>4
<1>5. CASE ~fd'
  <2>1. WireOK'
    BY <1>5, WireAfterClose DEF UnitsInv
  <2> QED BY <1>1, <1>2, <1>3, <1>5, <2>1
<1> QED BY <1>4, <1>5

\* The messages leave and arrive in order, all of them while the descriptor is
\* open, although Close empties queues and buffers that other threads are using
\* (ProcessorSend, SendThread, ProcessorRecv, OnRun, Close).
THEOREM ClientKeepsOrder == Spec => []InOrder
<1>1. Init => CloseInv /\ OrderInv
  <2>1. Init => CloseInv
    BY DEF Init, CloseInv, PlacesOK, LockOK, ClosedOnce, Places, Threads, Critical
  <2> QED BY <2>1, ClientAssumption, InitOrder
<1>2. CloseInv /\ OrderInv /\ [Next]_vars => CloseInv' /\ OrderInv'
  BY ClientAssumption, NextCloseInv, NextOrder
<1>3. OrderInv => InOrder
  <2>1. SUFFICES ASSUME OrderInv PROVE InOrder
    OBVIOUS
  <2>2. IsPrefix(wire, queued)
    BY <2>1, NumberedPrefix DEF OrderInv, WireOK
  <2>3. DOMAIN handled = 1 .. Len(handled) /\ Len(handled) \in Nat
    BY <2>1 DEF OrderInv, HandledOK
  <2>4. \A i, j \in DOMAIN handled : i < j => handled[i][2] < handled[j][2]
    BY <2>1, <2>3 DEF OrderInv, HandledOK, Ascending
  <2>5. ASSUME fd, NEW i \in DOMAIN handled PROVE handled[i] = <<"in", i>>
    <3>1. handled[i] = <<"in", 0 + i>> /\ 0 + i = i
      BY <2>1, <2>3, <2>5 DEF OrderInv, ReceivingOK, Numbered
    <3> QED BY <3>1
  <2> QED BY <2>2, <2>4, <2>5 DEF InOrder
<1> QED BY <1>1, <1>2, <1>3, PTL DEF Spec

------------------------------------------------------------------------------
(* The managers of Client04.                                               *)

\* How far a pass has counted: one for every client it found gone, and all it
\* has passed are gone if it counted them all.
Counted(m) ==
    /\ failedNum[m] <= nth[m] - 1
    /\ failedNum[m] = nth[m] - 1 => \A k \in Indices : k < nth[m] => clientArr[m][k] = "null"

\* What is known of one manager.
MgrInv(m) ==
    /\ \A k \in Indices : clientArr[m][k] = "freed" => threadStop[m]
    /\ threadStop[m] => tpc[m] = "end"
    /\ mgrRuning[m] /\ tpc[m] \in {"stop", "end"} => \A k \in Indices : clientArr[m][k] = "null"
    /\ tpc[m] \in {"for", "send"} => Counted(m)
    /\ tpc[m] = "send" => nth[m] <= eachClientNum
    /\ mpc = "init" \/ (mpc = "start" /\ mgr <= m) => tpc[m] = "none"

\* What every step preserves.
MgrsInv ==
    /\ MgrTypeOK
    /\ \A m \in Mgrs : MgrInv(m)
    /\ mpc = "spin" => ~mgrRuning[mgr]

LEMMA EachNat == eachClientNum \in Nat /\ ThreadNum \in Nat \ {0}
BY NumAssumption DEF eachClientNum, NumAssumption

LEMMA InitMgrsInv == MgrInit => MgrsInv
<1> SUFFICES ASSUME MgrInit PROVE MgrsInv
  OBVIOUS
<1>1. MgrTypeOK
  BY EachNat DEF MgrInit, MgrTypeOK, Mgrs, Indices
<1>2. ASSUME NEW m \in Mgrs PROVE MgrInv(m)
  BY EachNat DEF MgrInit, MgrInv, Counted, Mgrs, Indices
<1> QED BY <1>1, <1>2 DEF MgrInit, MgrsInv

LEMMA InputMgrsInv == MgrsInv /\ inputThread => MgrsInv'
<1> SUFFICES ASSUME MgrsInv, inputThread PROVE MgrsInv'
  OBVIOUS
<1>1. MgrTypeOK'
  BY EachNat DEF inputThread, thread, MgrsInv, MgrTypeOK, Mgrs
<1>2. ASSUME NEW x \in Mgrs PROVE MgrInv(x)'
  BY EachNat DEF inputThread, thread, MgrsInv, MgrTypeOK, MgrInv, Counted, Mgrs
<1>3. (mpc = "spin" => ~mgrRuning[mgr])'
  BY EachNat DEF inputThread, thread, MgrsInv, MgrTypeOK, Mgrs
<1> QED BY <1>1, <1>2, <1>3 DEF MgrsInv

LEMMA InitMgrMgrsInv == MgrsInv /\ InitMgr => MgrsInv'
<1> SUFFICES ASSUME MgrsInv, InitMgr PROVE MgrsInv'
  OBVIOUS
<1>1. MgrTypeOK'
  BY EachNat DEF InitMgr, NextMgr, thread, MgrsInv, MgrTypeOK, Mgrs
<1>2. ASSUME NEW x \in Mgrs PROVE MgrInv(x)'
  <2>1. CASE x = mgr
    <3>1. PICK clients \in [Indices -> {"open", "closed"}] :
             clientArr' = [clientArr EXCEPT ![mgr] = clients]
      BY DEF InitMgr
    <3>2. \A k \in Indices : clientArr'[x][k] \in {"open", "closed"}
      BY <2>1, <3>1 DEF MgrsInv, MgrTypeOK
    <3>3. tpc'[x] = "none" /\ ~threadStop'[x]
      BY DEF InitMgr, MgrsInv, MgrInv, MgrTypeOK
    <3> QED BY <3>2, <3>3 DEF MgrInv
  <2>2. CASE x # mgr
    BY <2>2, EachNat DEF InitMgr, NextMgr, thread, MgrsInv, MgrTypeOK, MgrInv, Counted, Mgrs
  <2> QED BY <2>1, <2>2
<1>3. (mpc = "spin" => ~mgrRuning[mgr])'
  BY EachNat DEF InitMgr, NextMgr, thread, MgrsInv, MgrTypeOK, Mgrs
<1> QED BY <1>1, <1>2, <1>3 DEF MgrsInv

LEMMA StartMgrMgrsInv == MgrsInv /\ StartMgr => MgrsInv'
<1> SUFFICES ASSUME MgrsInv, StartMgr PROVE MgrsInv'
  OBVIOUS
<1>1. MgrTypeOK'
  BY EachNat DEF StartMgr, NextMgr, thread, MgrsInv, MgrTypeOK, Mgrs
<1>2. ASSUME NEW x \in Mgrs PROVE MgrInv(x)'
  <2>1. CASE x = mgr
    BY <2>1, EachNat DEF StartMgr, NextMgr, thread, MgrsInv, MgrTypeOK, MgrInv, Counted, Mgrs
  <2>2. CASE x # mgr
    BY <2>2, EachNat DEF StartMgr, NextMgr, thread, MgrsInv, MgrTypeOK, MgrInv, Counted, Mgrs
  <2> QED BY <2>1, <2>2
<1>3. (mpc = "spin" => ~mgrRuning[mgr])'
  BY EachNat DEF StartMgr, NextMgr, thread, MgrsInv, MgrTypeOK, Mgrs
<1> QED BY <1>1, <1>2, <1>3 DEF MgrsInv

LEMMA StoppedMgrsInv == MgrsInv /\ Stopped => MgrsInv'
<1> SUFFICES ASSUME MgrsInv, Stopped PROVE MgrsInv'
  OBVIOUS
<1>1. MgrTypeOK'
  BY EachNat DEF Stopped, thread, MgrsInv, MgrTypeOK, Mgrs
<1>2. ASSUME NEW x \in Mgrs PROVE MgrInv(x)'
  BY EachNat DEF Stopped, thread, MgrsInv, MgrTypeOK, MgrInv, Counted, Mgrs
<1>3. (mpc = "spin" => ~mgrRuning[mgr])'
  BY EachNat DEF Stopped, thread, MgrsInv, MgrTypeOK, Mgrs
<1> QED BY <1>1, <1>2, <1>3 DEF MgrsInv

LEMMA DestructorStopsMgrsInv == MgrsInv /\ DestructorStops => MgrsInv'
<1> SUFFICES ASSUME MgrsInv, DestructorStops PROVE MgrsInv'
  OBVIOUS
<1>1. MgrTypeOK'
  BY EachNat DEF DestructorStops, thread, MgrsInv, MgrTypeOK, Mgrs
<1>2. ASSUME NEW x \in Mgrs PROVE MgrInv(x)'
  BY EachNat DEF DestructorStops, thread, MgrsInv, MgrTypeOK, MgrInv, Counted, Mgrs
<1>3. (mpc = "spin" => ~mgrRuning[mgr])'
  BY EachNat DEF DestructorStops, thread, MgrsInv, MgrTypeOK, Mgrs
<1> QED BY <1>1, <1>2, <1>3 DEF MgrsInv

LEMMA DestructorFreesMgrsInv == MgrsInv /\ DestructorFrees => MgrsInv'
<1> SUFFICES ASSUME MgrsInv, DestructorFrees PROVE MgrsInv'
  OBVIOUS
<1>1. MgrTypeOK'
  BY EachNat DEF DestructorFrees, NextMgr, thread, MgrsInv, MgrTypeOK, Mgrs
<1>2. ASSUME NEW x \in Mgrs PROVE MgrInv(x)'
  <2>1. CASE x = mgr
    BY <2>1, EachNat DEF DestructorFrees, NextMgr, thread, MgrsInv, MgrTypeOK, MgrInv, Counted, Mgrs
  <2>2. CASE x # mgr
    BY <2>2, EachNat DEF DestructorFrees, NextMgr, thread, MgrsInv, MgrTypeOK, MgrInv, Counted, Mgrs
  <2> QED BY <2>1, <2>2
<1>3. (mpc = "spin" => ~mgrRuning[mgr])'
  BY EachNat DEF DestructorFrees, NextMgr, thread, MgrsInv, MgrTypeOK, Mgrs
<1> QED BY <1>1, <1>2, <1>3 DEF MgrsInv

LEMMA WhileMgrsInv == ASSUME NEW m \in Mgrs PROVE MgrsInv /\ While(m) => MgrsInv'
<1> SUFFICES ASSUME MgrsInv, While(m) PROVE MgrsInv'
  OBVIOUS
<1>1. MgrTypeOK'
  BY EachNat DEF While, MgrsInv, MgrInv, Counted, MgrTypeOK, Mgrs, Indices
<1>2. MgrInv(m)'
  BY EachNat DEF While, MgrsInv, MgrTypeOK, MgrInv, Counted, Mgrs, Indices
<1>3. ASSUME NEW x \in Mgrs, x # m PROVE MgrInv(x)'
  BY <1>3 DEF While, MgrsInv, MgrTypeOK, MgrInv, Counted
<1> QED BY <1>1, <1>2, <1>3 DEF While, MgrsInv

LEMMA FailedMgrsInv == ASSUME NEW m \in Mgrs PROVE MgrsInv /\ Failed(m) => MgrsInv'
<1> SUFFICES ASSUME MgrsInv, Failed(m) PROVE MgrsInv'
  OBVIOUS
<1>0. /\ nth[m] \in Indices /\ tpc[m] = "for" /\ failedNum[m] \in Nat /\ Counted(m)
      /\ nth'[m] = nth[m] + 1 /\ failedNum'[m] = failedNum[m] + 1 /\ tpc' = tpc
      /\ clientArr'[m] = [clientArr[m] EXCEPT ![nth[m]] = "null"]
  BY EachNat DEF Failed, AtClient, MgrsInv, MgrTypeOK, MgrInv, Indices
<1>a. /\ clientArr'[m][nth[m]] = "null"
      /\ \A k \in Indices : k # nth[m] => clientArr'[m][k] = clientArr[m][k]
      /\ clientArr'[m] \in [Indices -> {"null", "open", "closed", "freed"}]
  BY <1>0 DEF MgrsInv, MgrTypeOK
<1>1. MgrTypeOK'
  <2>1. clientArr' \in [Mgrs -> [Indices -> {"null", "open", "closed", "freed"}]]
    BY <1>a DEF Failed, MgrsInv, MgrTypeOK
  <2>2. nth' \in [Mgrs -> 1 .. eachClientNum + 1]
    BY <1>0, EachNat DEF Failed, MgrsInv, MgrTypeOK, Indices
  <2>3. failedNum' \in [Mgrs -> 0 .. eachClientNum]
    BY <1>0, EachNat DEF Failed, MgrsInv, MgrTypeOK, Indices, Counted
  <2> QED BY <2>1, <2>2, <2>3 DEF Failed, MgrsInv, MgrTypeOK
<1>2. MgrInv(m)'
  <2>1. \A k \in Indices : clientArr'[m][k] = "freed" => threadStop'[m]
    BY <1>a DEF Failed, MgrsInv, MgrInv
  <2>2. Counted(m)'
    BY <1>0, <1>a, EachNat DEF Counted, Indices, Failed
  <2> QED BY <2>1, <2>2, <1>0 DEF Failed, MgrsInv, MgrInv
<1>3. ASSUME NEW x \in Mgrs, x # m PROVE MgrInv(x)'
  BY <1>3 DEF Failed, AtClient, MgrsInv, MgrTypeOK, MgrInv, Counted
<1> QED BY <1>1, <1>2, <1>3 DEF Failed, MgrsInv

LEMMA WorksMgrsInv == ASSUME NEW m \in Mgrs PROVE MgrsInv /\ Works(m) => MgrsInv'
<1> SUFFICES ASSUME MgrsInv, Works(m) PROVE MgrsInv'
  OBVIOUS
<1>0. /\ nth[m] \in Indices /\ tpc[m] \in {"for", "send"} /\ failedNum[m] \in Nat /\ Counted(m)
      /\ nth'[m] = nth[m] + 1 /\ failedNum' = failedNum /\ tpc'[m] = "for"
  BY EachNat DEF Works, AtClient, MgrsInv, MgrTypeOK, MgrInv, Indices
<1>a. /\ \A k \in Indices : k # nth[m] => clientArr'[m][k] = clientArr[m][k]
      /\ clientArr'[m][nth[m]] \in {clientArr[m][nth[m]], "closed"}
      /\ clientArr'[m] \in [Indices -> {"null", "open", "closed", "freed"}]
  BY <1>0 DEF Works, MgrsInv, MgrTypeOK
<1>1. MgrTypeOK'
  <2>1. clientArr' \in [Mgrs -> [Indices -> {"null", "open", "closed", "freed"}]]
    BY <1>a DEF Works, MgrsInv, MgrTypeOK
  <2>2. nth' \in [Mgrs -> 1 .. eachClientNum + 1]
    BY <1>0, EachNat DEF Works, MgrsInv, MgrTypeOK, Indices
  <2> QED BY <2>1, <2>2 DEF Works, MgrsInv, MgrTypeOK
<1>2. MgrInv(m)'
  <2>1. \A k \in Indices : clientArr'[m][k] = "freed" => threadStop'[m]
    BY <1>a DEF Works, MgrsInv, MgrInv
  <2>2. Counted(m)'
    BY <1>0, <1>a, EachNat DEF Counted, Indices, Works
  <2> QED BY <2>1, <2>2, <1>0 DEF Works, MgrsInv, MgrInv
<1>3. ASSUME NEW x \in Mgrs, x # m PROVE MgrInv(x)'
  BY <1>3 DEF Works, AtClient, MgrsInv, MgrTypeOK, MgrInv, Counted
<1> QED BY <1>1, <1>2, <1>3 DEF Works, MgrsInv

LEMMA BlocksMgrsInv == ASSUME NEW m \in Mgrs PROVE MgrsInv /\ Blocks(m) => MgrsInv'
<1> SUFFICES ASSUME MgrsInv, Blocks(m) PROVE MgrsInv'
  OBVIOUS
<1>1. MgrTypeOK'
  BY EachNat DEF Blocks, AtClient, MgrsInv, MgrInv, Counted, MgrTypeOK, Mgrs, Indices
<1>2. MgrInv(m)'
  BY EachNat DEF Blocks, AtClient, MgrsInv, MgrTypeOK, MgrInv, Counted, Mgrs, Indices
<1>3. ASSUME NEW x \in Mgrs, x # m PROVE MgrInv(x)'
  BY <1>3 DEF Blocks, AtClient, MgrsInv, MgrTypeOK, MgrInv, Counted
<1> QED BY <1>1, <1>2, <1>3 DEF Blocks, MgrsInv

LEMMA PassEndsMgrsInv == ASSUME NEW m \in Mgrs PROVE MgrsInv /\ PassEnds(m) => MgrsInv'
<1> SUFFICES ASSUME MgrsInv, PassEnds(m) PROVE MgrsInv'
  OBVIOUS
<1>1. MgrTypeOK'
  BY EachNat DEF PassEnds, MgrsInv, MgrInv, Counted, MgrTypeOK, Mgrs, Indices
<1>2. MgrInv(m)'
  <2>1. /\ MgrInv(m) /\ tpc[m] = "for" /\ nth[m] = eachClientNum + 1
        /\ UNCHANGED <<mpc, mgr, mgrRuning, threadStop, clientArr, nth, failedNum>>
    BY EachNat DEF PassEnds, MgrsInv, MgrTypeOK
  <2>2. tpc'[m] = IF failedNum[m] = eachClientNum THEN "stop" ELSE "while"
    BY DEF PassEnds, MgrsInv, MgrTypeOK
  <2>3. failedNum[m] = eachClientNum => \A j \in Indices : clientArr[m][j] = "null"
    BY <2>1, EachNat DEF MgrInv, Counted, Indices
  <2> QED BY <2>1, <2>2, <2>3 DEF MgrInv
<1>3. ASSUME NEW x \in Mgrs, x # m PROVE MgrInv(x)'
  BY <1>3 DEF PassEnds, MgrsInv, MgrTypeOK, MgrInv, Counted
<1> QED BY <1>1, <1>2, <1>3 DEF PassEnds, MgrsInv

LEMMA SetStopMgrsInv == ASSUME NEW m \in Mgrs PROVE MgrsInv /\ SetStop(m) => MgrsInv'
<1> SUFFICES ASSUME MgrsInv, SetStop(m) PROVE MgrsInv'
  OBVIOUS
<1>1. MgrTypeOK'
  BY EachNat DEF SetStop, MgrsInv, MgrInv, Counted, MgrTypeOK, Mgrs, Indices
<1>2. MgrInv(m)'
  BY EachNat DEF SetStop, MgrsInv, MgrTypeOK, MgrInv, Counted, Mgrs, Indices
<1>3. ASSUME NEW x \in Mgrs, x # m PROVE MgrInv(x)'
  BY <1>3 DEF SetStop, MgrsInv, MgrTypeOK, MgrInv, Counted
<1> QED BY <1>1, <1>2, <1>3 DEF SetStop, MgrsInv

LEMMA StutterMgrsInv == MgrsInv /\ UNCHANGED mgrVars => MgrsInv'
BY DEF mgrVars, MgrsInv, MgrInv, MgrTypeOK, Counted

LEMMA NextMgrsInv == MgrsInv /\ [MgrNext]_mgrVars => MgrsInv'
<1>1. ASSUME MgrsInv, inputThread \/ MainThread PROVE MgrsInv'
  BY <1>1, InputMgrsInv, InitMgrMgrsInv, StartMgrMgrsInv, StoppedMgrsInv, DestructorStopsMgrsInv,
     DestructorFreesMgrsInv DEF MainThread
<1>2. ASSUME MgrsInv, NEW m \in Mgrs, HandleThread(m) \/ ServerReceives(m) PROVE MgrsInv'
  BY <1>2, WhileMgrsInv, FailedMgrsInv, WorksMgrsInv, BlocksMgrsInv, PassEndsMgrsInv, SetStopMgrsInv
     DEF HandleThread, ServerReceives
<1> QED BY <1>1, <1>2, StutterMgrsInv DEF MgrNext

\* The invariant holds of every behaviour.
THEOREM Client04Invariant == MgrSpec => []MgrsInv
BY InitMgrsInv, NextMgrsInv, PTL DEF MgrSpec

\* Every variable keeps its type: the loop counters stay within the arrays.
THEOREM Client04Typing == MgrSpec => []MgrTypeOK
<1>1. MgrsInv => MgrTypeOK
  BY DEF MgrsInv
<1> QED BY <1>1, Client04Invariant, PTL

\* A destructor frees a manager's clients only after its thread has ended, and
\* a thread that nobody stopped ends only when it has no client left.
THEOREM Client04ThreadsOwnClients == MgrSpec => []ThreadsOwnClients
<1>1. MgrsInv => ThreadsOwnClients
  BY DEF MgrsInv, MgrInv, ThreadsOwnClients
<1> QED BY <1>1, Client04Invariant, PTL
==============================================================================
