--------------------------- MODULE ClientSocketSend ---------------------------
(***************************************************************************)
(* The sending half of CommonLib/ClientSocket.cpp: SendData copies a       *)
(* message into a pool unit and queues it, ProcessorSend gathers queued    *)
(* messages in _sendBuf and hands the bytes to the kernel, Close frees     *)
(* what is left.                                                           *)
(*                                                                         *)
(* One handler thread runs ProcessorSend, Close and the sends of           *)
(* OnMsgHandle; other threads (a Broadcast of another handler) only send.  *)
(* The queue is the SafeQueue that module SafeQueue shows to be a FIFO     *)
(* channel: a push is counted before it is linked, both under its mutex.   *)
(* A message is a number, its k-th byte the pair <<message, k>>.           *)
(***************************************************************************)
EXTENDS Integers, Sequences, FiniteSets

CONSTANTS
    SEND_BUF,       \* SERVER_SEND_BUFFER_SIZE
    LIMIT,          \* SERVER_SEND_QUEUE_MAX_ACCUMULATE_COUNT
    Lengths,        \* lengths of messages
    Senders,        \* threads other than the handler that call SendData
    MaxMsgs         \* bound on the number of messages

ASSUME SendAssumption ==
    /\ SEND_BUF \in Nat \ {0}
    /\ LIMIT \in Nat
    /\ Lengths \subseteq Nat \ {0}
    /\ MaxMsgs \in Nat

VARIABLES
    open,           \* _clientSock # INVALID_SOCKET
    queue,          \* _sendQueue
    counted,        \* the message counted in the queue's size and not yet linked, or 0
    held,           \* messages whose pool unit is allocated
    pc,             \* where the handler is in ProcessorSend or Close
    canWrite,       \* the local variable of ProcessorSend
    oMsg, oPos,     \* _oMsg: the message it reads (0 for a null buffer), its position
    ioSend,         \* the unsent bytes of _sendBuf
    wire,           \* the bytes the kernel has accepted
    sender, msg,    \* where each of Senders is in SendData, and its message
    len, at,        \* history: length of each message, bytes queued before it
    pushed,         \* history: number of bytes queued
    sent,           \* history: the number of messages so far
    since           \* history: messages queued since ProcessorSend was last called

buffers == <<canWrite, oMsg, oPos, ioSend, wire>>
senders == <<sender, msg>>
vars == <<open, queue, counted, held, pc, canWrite, oMsg, oPos, ioSend, wire, sender, msg,
          len, at, pushed, sent, since>>

Ids == 1 .. MaxMsgs
Bytes == Ids \X Nat
Smaller(a, b) == IF a < b THEN a ELSE b

Init ==
    /\ open = TRUE
    /\ queue = << >> /\ counted = 0 /\ held = {}
    /\ pc = "idle" /\ canWrite = 0
    /\ oMsg = 0 /\ oPos = 0
    /\ ioSend = << >> /\ wire = << >>
    /\ sender = [s \in Senders |-> "idle"]
    /\ msg = [s \in Senders |-> 0]
    /\ len = [m \in Ids |-> 0] /\ at = [m \in Ids |-> 0]
    /\ pushed = 0 /\ sent = 0 /\ since = 0

------------------------------------------------------------------------------
(* The queue, as SafeQueue provides it.                                    *)

size == Len(queue) + (IF counted = 0 THEN 0 ELSE 1)
hasData == size > 0

\* Mistake: a message is seen before it is linked.
frontCounted == IF queue = << >> THEN counted ELSE Head(queue)

\* front returns T(), a null buffer, when the only message is not linked yet.
front == IF queue = << >> THEN 0 ELSE Head(queue)

Link(m, n) ==
    /\ queue' = Append(queue, m)
    /\ at' = [at EXCEPT ![m] = pushed]
    /\ pushed' = pushed + n
    /\ since' = since + 1

\* pop waits for the mutex; the message's unit is freed.
PopAndFree ==
    /\ counted = 0
    /\ queue # << >>
    /\ queue' = Tail(queue)
    /\ held' = held \ {Head(queue)}

------------------------------------------------------------------------------
(* SendData.                                                               *)

\* By the handler thread, from OnMsgHandle: nothing can come between.
SendData ==
    /\ pc = "idle" /\ open
    /\ counted = 0 /\ sent < MaxMsgs
    /\ \E n \in Lengths :
          /\ len' = [len EXCEPT ![sent + 1] = n]
          /\ Link(sent + 1, n)
    /\ held' = held \cup {sent + 1}
    /\ sent' = sent + 1
    /\ UNCHANGED <<open, counted, pc, buffers, senders>>

SenderCheck(s) ==
    /\ sender[s] = "idle" /\ open /\ sent < MaxMsgs
    /\ sender' = [sender EXCEPT ![s] = "checked"]
    /\ msg' = [msg EXCEPT ![s] = sent + 1]
    /\ sent' = sent + 1
    /\ UNCHANGED <<open, queue, counted, held, pc, buffers, len, at, pushed, since>>

SenderAlloc(s) ==
    /\ sender[s] = "checked"
    /\ sender' = [sender EXCEPT ![s] = "filled"]
    /\ \E n \in Lengths : len' = [len EXCEPT ![msg[s]] = n]
    /\ held' = held \cup {msg[s]}
    /\ UNCHANGED <<open, queue, counted, pc, buffers, msg, at, pushed, sent, since>>

SenderCount(s) ==
    /\ sender[s] = "filled" /\ counted = 0
    /\ sender' = [sender EXCEPT ![s] = "counted"]
    /\ counted' = msg[s]
    /\ UNCHANGED <<open, queue, held, pc, buffers, msg, len, at, pushed, sent, since>>

SenderLink(s) ==
    /\ sender[s] = "counted"
    /\ sender' = [sender EXCEPT ![s] = "idle"]
    /\ counted' = 0
    /\ Link(msg[s], len[msg[s]])
    /\ UNCHANGED <<open, held, pc, buffers, msg, len, sent>>

Sender(s) == SenderCheck(s) \/ SenderAlloc(s) \/ SenderCount(s) \/ SenderLink(s)

------------------------------------------------------------------------------
(* Close: the socket is marked closed first, then the queue is cleared.    *)

Close == open' = FALSE /\ pc' = "clear"

\* ProcessorRecv closes between two calls of ProcessorSend.
CloseByRecv ==
    /\ pc = "idle" /\ open
    /\ Close
    /\ UNCHANGED <<queue, counted, held, buffers, senders, len, at, pushed, sent, since>>

\* Mistake: the units of the queued messages are not freed.
ClearQueueNoFree ==
    /\ pc = "clear" /\ counted = 0 /\ queue # << >>
    /\ queue' = Tail(queue)
    /\ UNCHANGED <<open, counted, held, pc, buffers, senders, len, at, pushed, sent, since>>

ClearQueue ==
    /\ pc = "clear" /\ PopAndFree
    /\ UNCHANGED <<open, counted, pc, buffers, senders, len, at, pushed, sent, since>>

ClearBuffer ==
    /\ pc = "clear" /\ ~hasData
    /\ pc' = "idle"
    /\ oMsg' = 0 /\ oPos' = 0 /\ ioSend' = << >>
    /\ UNCHANGED <<open, queue, counted, held, canWrite, wire, senders, len, at, pushed,
                   sent, since>>

------------------------------------------------------------------------------
(* SendToKernelBuf, called from pc, continuing at next.                    *)

\* select or send fails.
KernelError ==
    /\ Close
    /\ UNCHANGED <<queue, counted, held, canWrite, oMsg, oPos, ioSend, wire>>

\* Mistake: a client that does not read is never closed.
KernelBusyNoLimit ==
    /\ pc' = "idle"
    /\ UNCHANGED <<open, queue, counted, held, canWrite, oMsg, oPos, ioSend, wire>>

\* The socket is not writable now; a client that does not read is closed when
\* too much has accumulated.
KernelBusy ==
    /\ IF size > LIMIT THEN Close ELSE pc' = "idle" /\ UNCHANGED open
    /\ UNCHANGED <<queue, counted, held, canWrite, oMsg, oPos, ioSend, wire>>

\* Mistake: the bytes sent stay in the buffer.
KernelAcceptsKeep(next) ==
    /\ \E n \in 1 .. Len(ioSend) : wire' = wire \o SubSeq(ioSend, 1, n)
    /\ pc' = next
    /\ UNCHANGED <<open, queue, counted, held, canWrite, oMsg, oPos, ioSend>>

KernelAccepts(next) ==
    /\ \E n \in 1 .. Len(ioSend) :
          /\ wire' = wire \o SubSeq(ioSend, 1, n)
          /\ ioSend' = SubSeq(ioSend, n + 1, Len(ioSend))
    /\ pc' = next
    /\ UNCHANGED <<open, queue, counted, held, canWrite, oMsg, oPos>>

------------------------------------------------------------------------------
(* ProcessorSend.                                                          *)

unchangedBySend == <<senders, len, at, pushed, sent>>

Call ==
    /\ pc = "idle" /\ open
    /\ pc' = "room"
    /\ since' = 0
    /\ UNCHANGED <<open, queue, counted, held, buffers, unchangedBySend>>

HasRoom ==
    /\ pc = "room" /\ Len(ioSend) < SEND_BUF
    /\ canWrite' = SEND_BUF - Len(ioSend)
    /\ pc' = "copy"
    /\ UNCHANGED <<open, queue, counted, held, oMsg, oPos, ioSend, wire, since,
                   unchangedBySend>>

\* canWrite keeps the value 0 it had before the buffer was sent.
NoRoom ==
    /\ pc = "room" /\ Len(ioSend) = SEND_BUF
    /\ canWrite' = 0 /\ pc' = "full"
    /\ UNCHANGED <<open, queue, counted, held, oMsg, oPos, ioSend, wire, since,
                   unchangedBySend>>

SendFull ==
    /\ pc = "full"
    /\ KernelError \/ KernelBusy \/ KernelAccepts("copy")
    /\ UNCHANGED <<since, unchangedBySend>>

canRead == IF oMsg = 0 THEN 0 ELSE len[oMsg] - oPos

Copy ==
    LET writeLen == Smaller(canRead, canWrite) IN
    /\ pc = "copy" /\ canRead > 0
    /\ ioSend' = ioSend \o [k \in 1 .. writeLen |-> <<oMsg, oPos + k>>]
    /\ oPos' = oPos + writeLen
    /\ pc' = "room"
    /\ UNCHANGED <<open, queue, counted, held, canWrite, oMsg, wire, since, unchangedBySend>>

\* Mistake: a message counts as copied when the buffer is full.
CopiedEarly ==
    /\ pc = "copy" /\ (canRead <= 0 \/ canWrite = 0)
    /\ pc' = "next"
    /\ IF oMsg = 0 THEN UNCHANGED <<queue, held, oMsg, oPos>>
       ELSE PopAndFree /\ oMsg' = 0 /\ oPos' = 0
    /\ UNCHANGED <<open, counted, canWrite, ioSend, wire, since, unchangedBySend>>

\* Mistake: the message leaves the queue and its unit is not freed.
CopiedNoFree ==
    /\ pc = "copy" /\ canRead <= 0
    /\ pc' = "next"
    /\ IF oMsg = 0 THEN UNCHANGED <<queue, oMsg, oPos>>
       ELSE /\ counted = 0 /\ queue # << >> /\ queue' = Tail(queue)
            /\ oMsg' = 0 /\ oPos' = 0
    /\ UNCHANGED <<open, counted, held, canWrite, ioSend, wire, since, unchangedBySend>>

\* The message is copied: it leaves the queue and its unit is freed.
Copied ==
    /\ pc = "copy" /\ canRead <= 0
    /\ pc' = "next"
    /\ IF oMsg = 0 THEN UNCHANGED <<queue, held, oMsg, oPos>>
       ELSE PopAndFree /\ oMsg' = 0 /\ oPos' = 0
    /\ UNCHANGED <<open, counted, canWrite, ioSend, wire, since, unchangedBySend>>

NextMessage ==
    /\ pc = "next" /\ hasData
    /\ oMsg' = front /\ oPos' = 0
    /\ pc' = "room"
    /\ UNCHANGED <<open, queue, counted, held, canWrite, ioSend, wire, since,
                   unchangedBySend>>

NoMessage ==
    /\ pc = "next" /\ ~hasData
    /\ pc' = IF ioSend = << >> THEN "idle" ELSE "flush"
    /\ UNCHANGED <<open, queue, counted, held, buffers, since, unchangedBySend>>

\* Mistake: the rest is left until the buffer is full.
FlushNot ==
    /\ pc = "flush"
    /\ pc' = "idle"
    /\ UNCHANGED <<open, queue, counted, held, buffers, since, unchangedBySend>>

Flush ==
    /\ pc = "flush"
    /\ KernelError \/ KernelBusy \/ KernelAccepts("idle")
    /\ UNCHANGED <<since, unchangedBySend>>

ProcessorSend ==
    \/ Call \/ HasRoom \/ NoRoom \/ SendFull \/ Copy \/ Copied \/ NextMessage \/ NoMessage
    \/ Flush

Next ==
    \/ SendData \/ CloseByRecv \/ ClearQueue \/ ClearBuffer \/ ProcessorSend
    \/ \E s \in Senders : Sender(s)

Spec == Init /\ [][Next]_vars

\* The handler calls ProcessorSend again and again, threads are scheduled, and a
\* peer that reads makes the socket writable again and again.
Writable == ProcessorSend /\ wire' # wire

FairSpec ==
    /\ Spec
    /\ WF_vars(ProcessorSend)
    /\ WF_vars(ClearQueue \/ ClearBuffer)
    /\ \A s \in Senders : WF_vars(Sender(s))
    /\ SF_vars(Writable)
------------------------------------------------------------------------------
(* Properties.                                                             *)

TypeOK ==
    /\ open \in BOOLEAN
    /\ queue \in Seq(Ids) /\ counted \in 0 .. MaxMsgs /\ held \subseteq Ids
    /\ pc \in {"idle", "room", "full", "copy", "next", "flush", "clear"}
    /\ canWrite \in 0 .. SEND_BUF
    /\ oMsg \in 0 .. MaxMsgs /\ oPos \in Nat
    /\ ioSend \in Seq(Bytes) /\ Len(ioSend) <= SEND_BUF
    /\ wire \in Seq(Bytes)
    /\ sender \in [Senders -> {"idle", "checked", "filled", "counted"}]
    /\ msg \in [Senders -> 0 .. MaxMsgs]
    /\ len \in [Ids -> Nat] /\ at \in [Ids -> Nat]
    /\ pushed \in Nat /\ sent \in 0 .. MaxMsgs /\ since \in Nat

\* Every byte the kernel got is at its place in the concatenation of the
\* messages in the order they were queued, whatever the buffer held when, and
\* however much of it the kernel took each time.
StreamInOrder == \A i \in DOMAIN wire : i = at[wire[i][1]] + wire[i][2]

\* The state is well typed, and while ProcessorSend reads a message, it is the
\* first of the queue, so that the unit freed afterwards is the one that was
\* copied, and is still allocated.
CopiesFront ==
    /\ TypeOK
    /\ oMsg # 0 /\ pc # "clear" => oMsg \in held /\ queue # << >> /\ oMsg = Head(queue)

\* The allocated units are those of the queued messages and of the messages that
\* senders are about to queue: none is lost, none is freed while queued.
UnitsAccounted ==
    held = {queue[i] : i \in DOMAIN queue}
             \cup {msg[s] : s \in {t \in Senders : sender[t] \in {"filled", "counted"}}}

\* The unit of a message is freed only when all of its bytes were copied for the
\* kernel, or after the socket was closed.
FreedWhenCopied ==
    [][\A m \in held \ held' :
          ~open \/ \A k \in 1 .. len[m] :
                      \E i \in DOMAIN (wire \o ioSend) : (wire \o ioSend)[i] = <<m, k>>]_vars

\* The queue of a client that does not read stays within the limit, but for what
\* was queued since the last call of ProcessorSend.
BacklogBounded == open /\ pc = "idle" => Len(queue) <= LIMIT + since

\* With a peer that reads, every queued message reaches the kernel whole, unless
\* the socket is closed.
QueuedIsSent ==
    \A m \in Ids :
        (\E i \in DOMAIN queue : queue[i] = m) ~>
            (~open \/ \E i \in DOMAIN wire : wire[i] = <<m, len[m]>>)
==============================================================================
