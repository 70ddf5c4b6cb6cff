------------------------- MODULE SelectClient_Thread -------------------------
(***************************************************************************)
(* CommonLib/SelectClient_Thread.cpp as ClientTest/Client01.cpp uses it:   *)
(* four threads share one client, and the lock of Close excludes only      *)
(* other calls of Close.                                                   *)
(*                                                                         *)
(* A message is a number, copied and parsed whole: how it is split into    *)
(* bytes is the subject of ClientSocketSend and ClientSocketRecv.  Calls   *)
(* of the two SafeQueues are atomic, as module SafeQueue justifies, except *)
(* for front, which here has a second consumer, Close, beside it.  What    *)
(* the language leaves undefined ends the run of the model, in crash.      *)
(***************************************************************************)
EXTENDS Integers, Sequences, SequencesExt

CONSTANTS
    SEND_BUF,           \* messages that fit in _sendBuf
    SEND_LIMIT,         \* CLIENT_SEND_QUEUE_MAX_ACCUMULATE_COUNT
    RECV_LIMIT,         \* CLIENT_RECV_QUEUE_MAX_ACCUMULATE_COUNT
    MaxOut, MaxIn       \* bounds on the messages sent and received

ASSUME ClientAssumption ==
    /\ SEND_BUF \in Nat \ {0}
    /\ SEND_LIMIT \in Nat /\ RECV_LIMIT \in Nat
    /\ MaxOut \in Nat /\ MaxIn \in Nat

VARIABLES
    sock,           \* _sock # INVALID_SOCKET
    fd,             \* the descriptor is open
    mutex,          \* _sockMutex: the thread that holds it
    pc,             \* where each thread is
    back,           \* where each thread goes on after Close
    sendQueue, recvQueue,
    held,           \* pool units in use, named by the message written to them
    canWrite, sendLen,      \* locals of SendThread and ProcessorSend, 0 when dead
    oMsg,           \* the unit _oMsg reads, NoUnit for a null buffer
    oDone,          \* _oMsg was read to its end
    ioSend,         \* unsent messages of _sendBuf
    oRecv,          \* messages _oRecv has not parsed
    crash,          \* why the program stopped
    queued, wire,   \* history: messages queued; accepted by the kernel
    taken, handled, \* history: number of messages received; those given to OnRecvMsg
    closes          \* history: calls of closesocket

connection == <<sock, fd, mutex, closes>>
sending == <<canWrite, sendLen, oMsg, oDone, ioSend, wire>>
receiving == <<oRecv, taken>>
queues == <<sendQueue, recvQueue, held, queued, handled>>
vars == <<connection, pc, back, queues, sending, receiving, crash>>

Places ==
    {"top", "hasData", "pop", "deleted", "exited", "push", "done", "select", "recv", "parse",
     "readUShort", "readBytes", "limit", "room", "full", "flush", "sendFull", "sendFlush",
     "moveFull", "moveFlush", "copy", "reading", "next", "front", "frontRead", "close",
     "invalid", "clearRecv", "popRecv", "clearSend", "popSend", "clearBuffer", "unlock"}
Threads == {"main", "input", "recv", "send"}
NoThread == "none"
Out == {"out"} \X Nat
In == {"in"} \X Nat
NoUnit == <<"none", 0>>
Garbage == <<"garbage", 0>>         \* what is read from a freed unit

Init ==
    /\ sock = TRUE /\ fd = TRUE /\ mutex = NoThread
    /\ pc = [t \in Threads |-> "top"]
    /\ back = [t \in Threads |-> "top"]
    /\ sendQueue = << >> /\ recvQueue = << >> /\ held = {}
    /\ canWrite = 0 /\ sendLen = 0
    /\ oMsg = NoUnit /\ oDone = FALSE /\ ioSend = << >>
    /\ oRecv = << >> /\ crash = "no"
    /\ queued = << >> /\ wire = << >>
    /\ taken = 0 /\ handled = << >> /\ closes = 0

------------------------------------------------------------------------------
(* Steps.                                                                  *)

Running == crash = "no" /\ pc["main"] \notin {"deleted", "exited"}

At(t, from) == Running /\ pc[t] = from
Goto(t, to) == pc' = [pc EXCEPT ![t] = to] /\ UNCHANGED <<back, crash>>
CallClose(t, to) ==
    /\ pc' = [pc EXCEPT ![t] = "close"]
    /\ back' = [back EXCEPT ![t] = to]
    /\ UNCHANGED crash
Crash(why) == crash' = why /\ UNCHANGED <<pc, back>>

\* pop and what its caller does at once with the unit; T() is a null pointer.
PopSend == sendQueue' = Tail(sendQueue) /\ held' = held \ {Head(sendQueue)}
PopRecv == recvQueue' = Tail(recvQueue) /\ held' = held \ {Head(recvQueue)}

------------------------------------------------------------------------------
(* Close, by thread t.                                                     *)

Return(t) ==
    /\ pc' = [pc EXCEPT ![t] = back[t]]
    /\ back' = [back EXCEPT ![t] = "top"]
    /\ UNCHANGED crash

\* Mistake: the early return keeps the lock.
CloseAgainLocked(t) ==
    /\ At(t, "close") /\ mutex = NoThread /\ ~sock
    /\ mutex' = t
    /\ Return(t)
    /\ UNCHANGED <<sock, fd, closes, queues, sending, receiving>>

\* The lock is taken, the socket found closed, the lock released.
CloseAgain(t) ==
    /\ At(t, "close") /\ mutex = NoThread /\ ~sock
    /\ Return(t)
    /\ UNCHANGED <<connection, queues, sending, receiving>>

\* Mistake: the socket is looked at without the lock.
CloseSocketNoLock(t) ==
    /\ At(t, "close") /\ sock
    /\ mutex' = t /\ fd' = FALSE /\ closes' = closes + 1
    /\ Goto(t, "invalid")
    /\ UNCHANGED <<sock, queues, sending, receiving>>

CloseSocket(t) ==
    /\ At(t, "close") /\ mutex = NoThread /\ sock
    /\ mutex' = t /\ fd' = FALSE /\ closes' = closes + 1
    /\ Goto(t, "invalid")
    /\ UNCHANGED <<sock, queues, sending, receiving>>

CloseInvalid(t) ==
    /\ At(t, "invalid")
    /\ sock' = FALSE
    /\ Goto(t, "clearRecv")
    /\ UNCHANGED <<fd, mutex, closes, queues, sending, receiving>>

ClearHasRecv(t) ==
    /\ At(t, "clearRecv")
    /\ Goto(t, IF recvQueue = << >> THEN "clearSend" ELSE "popRecv")
    /\ UNCHANGED <<connection, queues, sending, receiving>>

\* Another thread may have emptied the queue since hasData.
ClearPopRecv(t) ==
    /\ At(t, "popRecv")
    /\ IF recvQueue = << >> THEN Crash("null") /\ UNCHANGED <<recvQueue, held>>
       ELSE PopRecv /\ Goto(t, "clearRecv")
    /\ UNCHANGED <<connection, sendQueue, queued, handled, sending, receiving>>

ClearHasSend(t) ==
    /\ At(t, "clearSend")
    /\ Goto(t, IF sendQueue = << >> THEN "clearBuffer" ELSE "popSend")
    /\ UNCHANGED <<connection, queues, sending, receiving>>

ClearPopSend(t) ==
    /\ At(t, "popSend")
    /\ IF sendQueue = << >> THEN Crash("null") /\ UNCHANGED <<sendQueue, held>>
       ELSE PopSend /\ Goto(t, "clearSend")
    /\ UNCHANGED <<connection, recvQueue, queued, handled, sending, receiving>>

\* The buffers belong to the send and receive threads, which do not take the lock.
ClearBuffer(t) ==
    /\ At(t, "clearBuffer")
    /\ ioSend' = << >> /\ oMsg' = NoUnit /\ oDone' = FALSE /\ oRecv' = << >>
    /\ Goto(t, "unlock")
    /\ UNCHANGED <<connection, queues, canWrite, sendLen, wire, taken>>

CloseUnlock(t) ==
    /\ At(t, "unlock")
    /\ mutex' = NoThread
    /\ Return(t)
    /\ UNCHANGED <<sock, fd, closes, queues, sending, receiving>>

Close(t) ==
    \/ CloseAgain(t) \/ CloseSocket(t) \/ CloseInvalid(t)
    \/ ClearHasRecv(t) \/ ClearPopRecv(t) \/ ClearHasSend(t) \/ ClearPopSend(t)
    \/ ClearBuffer(t) \/ CloseUnlock(t)

------------------------------------------------------------------------------
(* The main thread: OnRun while IsRun, then the client is deleted, which   *)
(* closes it, and the program exits.                                       *)

MainTop ==
    /\ At("main", "top")
    /\ IF sock THEN Goto("main", "hasData") ELSE CallClose("main", "deleted")
    /\ UNCHANGED <<connection, queues, sending, receiving>>

OnRunHasData ==
    /\ At("main", "hasData")
    /\ Goto("main", IF recvQueue = << >> THEN "top" ELSE "pop")
    /\ UNCHANGED <<connection, queues, sending, receiving>>

OnRunPop ==
    /\ At("main", "pop")
    /\ IF recvQueue = << >> THEN Crash("null") /\ UNCHANGED <<recvQueue, held, handled>>
       ELSE /\ PopRecv /\ handled' = Append(handled, Head(recvQueue))
            /\ Goto("main", "hasData")
    /\ UNCHANGED <<connection, sendQueue, queued, sending, receiving>>

\* Until the program is gone, any other thread may touch the deleted object.
UseAfterDelete ==
    /\ crash = "no" /\ pc["main"] = "deleted"
    /\ \E t \in Threads \ {"main"} : pc[t] # "done"
    /\ Crash("deleted")
    /\ UNCHANGED <<connection, queues, sending, receiving>>

Exit ==
    /\ crash = "no" /\ pc["main"] = "deleted"
    /\ Goto("main", "exited")
    /\ UNCHANGED <<connection, queues, sending, receiving>>

Main == MainTop \/ OnRunHasData \/ OnRunPop \/ Close("main") \/ Exit

------------------------------------------------------------------------------
(* The input thread: SendMsg or, when the user types exit, Close.          *)

InputTop ==
    /\ At("input", "top")
    /\ \/ ~sock /\ Goto("input", "done")
       \/ sock /\ CallClose("input", "done")
       \/ sock /\ Len(queued) < MaxOut /\ Goto("input", "push")
    /\ UNCHANGED <<connection, queues, sending, receiving>>

SendData ==
    /\ At("input", "push")
    /\ LET m == <<"out", Len(queued) + 1>> IN
          /\ held' = held \cup {m}
          /\ sendQueue' = Append(sendQueue, m)
          /\ queued' = Append(queued, m)
    /\ Goto("input", "top")
    /\ UNCHANGED <<connection, recvQueue, handled, sending, receiving>>

Input == InputTop \/ SendData \/ Close("input")

------------------------------------------------------------------------------
(* The receive thread.                                                     *)

RecvTop ==
    /\ At("recv", "top")
    /\ Goto("recv", IF sock THEN "select" ELSE "done")
    /\ UNCHANGED <<connection, queues, sending, receiving>>

RecvSelect ==
    /\ At("recv", "select")
    /\ \/ ~sock /\ Crash("fdset")
       \/ sock /\ CallClose("recv", "top")
       \/ sock /\ fd /\ (Goto("recv", "top") \/ Goto("recv", "recv"))
    /\ UNCHANGED <<connection, queues, sending, receiving>>

\* recv fails, or returns some of the messages that have arrived.
Recv ==
    /\ At("recv", "recv")
    /\ \/ CallClose("recv", "top") /\ UNCHANGED receiving
       \/ /\ sock /\ fd
          /\ \E n \in 1 .. MaxIn - taken :
                /\ oRecv' = [i \in 1 .. n |-> <<"in", taken + i>>]
                /\ taken' = taken + n
          /\ Goto("recv", "parse")
    /\ UNCHANGED <<connection, queues, sending>>

ParseCanRead ==
    /\ At("recv", "parse")
    /\ Goto("recv", IF oRecv = << >> THEN "top" ELSE "readUShort")
    /\ UNCHANGED <<connection, queues, sending, receiving>>

ReadUShort ==
    /\ At("recv", "readUShort")
    /\ IF oRecv = << >> THEN Crash("assert") ELSE Goto("recv", "readBytes")
    /\ UNCHANGED <<connection, queues, sending, receiving>>

ReadBytes ==
    /\ At("recv", "readBytes")
    /\ IF oRecv = << >> THEN Crash("assert") /\ UNCHANGED <<held, recvQueue, oRecv>>
       ELSE /\ held' = held \cup {Head(oRecv)}
            /\ recvQueue' = Append(recvQueue, Head(oRecv))
            /\ oRecv' = Tail(oRecv)
            /\ Goto("recv", "limit")
    /\ UNCHANGED <<connection, sendQueue, queued, handled, sending, taken>>

RecvLimit ==
    /\ At("recv", "limit")
    /\ IF Len(recvQueue) > RECV_LIMIT THEN CallClose("recv", "top") ELSE Goto("recv", "parse")
    /\ UNCHANGED <<connection, queues, sending, receiving>>

Receiver ==
    RecvTop \/ RecvSelect \/ Recv \/ ParseCanRead \/ ReadUShort \/ ReadBytes \/ RecvLimit
        \/ Close("recv")

------------------------------------------------------------------------------
(* The send thread.  ProcessorSend is called from two places: "full", with *)
(* no room in _sendBuf, and "flush", with no message left.                 *)

SendTop ==
    /\ At("send", "top")
    /\ Goto("send", IF sock THEN "room" ELSE "done")
    /\ UNCHANGED <<connection, queues, sending, receiving>>

Room ==
    /\ At("send", "room")
    /\ canWrite' = SEND_BUF - Len(ioSend)
    /\ Goto("send", IF Len(ioSend) < SEND_BUF THEN "copy" ELSE "full")
    /\ UNCHANGED <<connection, queues, sendLen, oMsg, oDone, ioSend, wire, receiving>>

SendSelect ==
    /\ \E from \in {"full", "flush"} :
          /\ At("send", from)
          /\ \/ ~sock /\ Crash("fdset")
             \/ sock /\ CallClose("send", "top")
             \/ sock /\ fd /\ Goto("send", IF from = "full" THEN "sendFull" ELSE "sendFlush")
             \/ /\ sock /\ fd
                /\ IF Len(sendQueue) > SEND_LIMIT THEN CallClose("send", "top")
                   ELSE Goto("send", "top")
    /\ UNCHANGED <<connection, queues, sending, receiving>>

SendToKernel ==
    /\ \E from \in {"sendFull", "sendFlush"} :
          /\ At("send", from)
          /\ \/ CallClose("send", "top") /\ UNCHANGED <<sendLen, wire>>
             \/ /\ sock /\ fd
                /\ sendLen' \in 1 .. Len(ioSend)
                /\ wire' = wire \o SubSeq(ioSend, 1, sendLen')
                /\ Goto("send", IF from = "sendFull" THEN "moveFull" ELSE "moveFlush")
    /\ UNCHANGED <<connection, queues, canWrite, oMsg, oDone, ioSend, receiving>>

\* Mistake: the messages sent stay in the buffer.
MoveReadPosNot ==
    /\ \E from \in {"moveFull", "moveFlush"} :
          /\ At("send", from)
          /\ Goto("send", IF from = "moveFull" THEN "copy" ELSE "top")
    /\ sendLen' = 0
    /\ UNCHANGED <<connection, queues, canWrite, oMsg, oDone, ioSend, wire, receiving>>

MoveReadPos ==
    /\ \E from \in {"moveFull", "moveFlush"} :
          /\ At("send", from)
          /\ sendLen' = 0
          /\ IF Len(ioSend) < sendLen THEN Crash("assert") /\ UNCHANGED ioSend
             ELSE /\ ioSend' = SubSeq(ioSend, sendLen + 1, Len(ioSend))
                  /\ Goto("send", IF from = "moveFull" THEN "copy" ELSE "top")
    /\ UNCHANGED <<connection, queues, canWrite, oMsg, oDone, wire, receiving>>

CanRead ==
    /\ At("send", "copy")
    /\ IF oMsg # NoUnit /\ ~oDone THEN Goto("send", "reading") /\ UNCHANGED canWrite
       ELSE Goto("send", IF oMsg = NoUnit THEN "next" ELSE "pop") /\ canWrite' = 0
    /\ UNCHANGED <<connection, queues, sendLen, oMsg, oDone, ioSend, wire, receiving>>

\* canWrite may be the 0 it was before _sendBuf was sent: nothing is copied then.
CopyMessage ==
    /\ At("send", "reading")
    /\ IF canWrite > 0 /\ oMsg = NoUnit THEN Crash("assert") /\ UNCHANGED <<ioSend, oDone>>
       ELSE /\ IF canWrite > 0
               THEN /\ ioSend' = Append(ioSend, IF oMsg \in held THEN oMsg ELSE Garbage)
                    /\ oDone' = TRUE
               ELSE UNCHANGED <<ioSend, oDone>>
            /\ Goto("send", "room")
    /\ canWrite' = 0
    /\ UNCHANGED <<connection, queues, sendLen, oMsg, wire, receiving>>

\* Mistake: the unit _oMsg refers to is freed, not the one popped.
CopiedFreesOMsg ==
    /\ At("send", "pop")
    /\ IF sendQueue = << >>
       THEN Crash("null") /\ UNCHANGED <<sendQueue, held, oMsg, oDone>>
       ELSE /\ sendQueue' = Tail(sendQueue) /\ held' = held \ {oMsg}
            /\ oMsg' = NoUnit /\ oDone' = FALSE /\ Goto("send", "next")
    /\ UNCHANGED <<connection, recvQueue, queued, handled, canWrite, sendLen, ioSend, wire,
                   receiving>>

Copied ==
    /\ At("send", "pop")
    /\ IF sendQueue = << >>
       THEN Crash("null") /\ UNCHANGED <<sendQueue, held, oMsg, oDone>>
       ELSE PopSend /\ oMsg' = NoUnit /\ oDone' = FALSE /\ Goto("send", "next")
    /\ UNCHANGED <<connection, recvQueue, queued, handled, canWrite, sendLen, ioSend, wire,
                   receiving>>

NextHasData ==
    /\ At("send", "next")
    /\ Goto("send", IF sendQueue # << >> THEN "front"
                    ELSE IF ioSend # << >> THEN "flush" ELSE "top")
    /\ UNCHANGED <<connection, queues, sending, receiving>>

\* front reads the head twice, without the queue's mutex.
FrontOfNone ==
    /\ At("send", "front") /\ sendQueue = << >>
    /\ Goto("send", "room")
    /\ UNCHANGED <<connection, queues, sending, receiving>>

FrontNotNull ==
    /\ At("send", "front") /\ sendQueue # << >>
    /\ Goto("send", "frontRead")
    /\ UNCHANGED <<connection, queues, sending, receiving>>

FrontRead ==
    /\ At("send", "frontRead")
    /\ IF sendQueue = << >> THEN Crash("null") /\ UNCHANGED oMsg
       ELSE oMsg' = Head(sendQueue) /\ Goto("send", "room")
    /\ UNCHANGED <<connection, queues, canWrite, sendLen, oDone, ioSend, wire, receiving>>

Sender ==
    \/ SendTop \/ Room \/ SendSelect \/ SendToKernel \/ MoveReadPos \/ CanRead \/ CopyMessage
    \/ Copied \/ NextHasData \/ FrontOfNone \/ FrontNotNull \/ FrontRead \/ Close("send")

Next == Main \/ Input \/ Receiver \/ Sender \/ UseAfterDelete

\* Threads are scheduled; nothing obliges the user to type, nor the server to
\* read, for which a send may wait.
InSend == pc["send"] \in {"sendFull", "sendFlush"}

Spec ==
    /\ Init /\ [][Next]_vars
    /\ WF_vars(Main) /\ WF_vars(Receiver) /\ WF_vars(~InSend /\ Sender)
    /\ WF_vars(SendData \/ Close("input"))
------------------------------------------------------------------------------
(* Properties.                                                             *)

TypeOK ==
    /\ sock \in BOOLEAN /\ fd \in BOOLEAN /\ mutex \in Threads \cup {NoThread}
    /\ pc \in [Threads -> Places] /\ back \in [Threads -> {"top", "done", "deleted"}]
    /\ sendQueue \in Seq(Out) /\ recvQueue \in Seq(In) /\ held \subseteq Out \cup In
    /\ canWrite \in 0 .. SEND_BUF /\ sendLen \in 0 .. SEND_BUF
    /\ oMsg \in Out \cup {NoUnit} /\ oDone \in BOOLEAN
    /\ ioSend \in Seq(Out \cup {Garbage}) /\ Len(ioSend) <= SEND_BUF
    /\ oRecv \in Seq(In) /\ taken \in 0 .. MaxIn
    /\ crash \in {"no", "assert", "null", "fdset", "deleted"}
    /\ queued \in Seq(Out) /\ wire \in Seq(Out) /\ handled \in Seq(In)
    /\ closes \in Nat

\* However many threads find the connection broken, its descriptor is closed once.
ClosedOnce == closes = IF fd THEN 0 ELSE 1

\* The units in use are those of the queued messages: none is freed while it is
\* in a queue, and whoever takes a message out frees its unit.
UnitsOwned == held = ToSet(sendQueue) \cup ToSet(recvQueue)

\* The peer is sent the messages in the order they were queued, nothing else, and
\* OnRecvMsg is given messages in the order they arrived, all of them as long as
\* the connection is open: although Close, in another thread, empties the queues
\* and the buffers and frees the units while they are read.
InOrder ==
    /\ IsPrefix(wire, queued)
    /\ \A i, j \in DOMAIN handled : i < j => handled[i][2] < handled[j][2]
    /\ fd => \A i \in DOMAIN handled : handled[i] = <<"in", i>>

\* Once the socket is closed the program ends, or has met undefined behaviour: no
\* thread keeps the lock of Close, and a send that waits for ever keeps nobody up.
ClientEnds == ~sock ~> (crash # "no" \/ pc["main"] = "exited")

\* The assertions of the buffers hold.
AssertsHold == crash # "assert"
==============================================================================
