----------------------------- MODULE SelectClient ----------------------------
(***************************************************************************)
(* CommonLib/SelectClient.cpp with the program ClientTest/Client02.cpp:    *)
(* one thread that connects its clients one after the other and then, pass *)
(* after pass, lets each receive and send its messages, all on blocking    *)
(* sockets.  A second thread waits for the user's word to stop.  The       *)
(* messages received are only printed, and their contents left out.        *)
(***************************************************************************)
EXTENDS Sockets

CONSTANTS
    ClientNum,      \* _CLIENTNUM
    TotalLen,       \* _msgTotalLen, in units
    UShortMax       \* SendData takes an unsigned short

ASSUME ClientAssumption ==
    /\ ClientNum \in Nat \ {0} /\ Clients = 1 .. ClientNum
    /\ TotalLen \in Nat \ {0} /\ UShortMax \in Nat

VARIABLES
    cpc,            \* where the main thread is
    i,              \* its loop counter
    arr,            \* _clientArr
    failedNum,
    dataLen,        \* units the send in progress has yet to pass on
    runing          \* _runing, which the input thread clears

clientVars == <<cpc, i, arr, failedNum, dataLen, runing>>

\* new[] of pointers leaves the array as it finds it.
ClientInit ==
    /\ cpc = "connect" /\ i = 1 /\ failedNum = 0 /\ dataLen = 0 /\ runing = TRUE
    /\ arr = [c \in Clients |-> "garbage"]

ClientTypeOK ==
    /\ cpc \in {"connect", "pass", "send", "delete", "end"} /\ i \in 1 .. ClientNum + 1
    /\ arr \in [Clients -> {"garbage", "object", "null"}]
    /\ failedNum \in 0 .. ClientNum /\ dataLen \in 0 .. TotalLen /\ runing \in BOOLEAN

IsRun(c) == clientEnd[c] = "open"

inputThread ==
    /\ runing /\ cpc # "end" /\ runing' = FALSE
    /\ UNCHANGED <<sockets, cpc, i, arr, failedNum, dataLen>>

Connect ==
    /\ cpc = "connect" /\ i <= ClientNum /\ runing
    /\ arr' = [arr EXCEPT ![i] = "object"] /\ i' = i + 1
    /\ \/ /\ listening
          /\ clientEnd' = [clientEnd EXCEPT ![i] = "open"]
          /\ serverEnd' = [serverEnd EXCEPT ![i] = "backlog"]
       \/ UNCHANGED <<clientEnd, serverEnd>>
    /\ UNCHANGED <<listening, up, down, cpc, failedNum, dataLen, runing>>

\* The loop over the clients that are left goes on without creating any.
ConnectSkips ==
    /\ cpc = "connect" /\ i <= ClientNum /\ ~runing /\ i' = i + 1
    /\ UNCHANGED <<sockets, cpc, arr, failedNum, dataLen, runing>>

------------------------------------------------------------------------------
(* The main loop, a client at a time.                                      *)

\* The test of the while, after the connecting and after every pass.
NextPass ==
    /\ i > ClientNum /\ cpc \in {"connect", "pass"}
    /\ cpc' = IF runing /\ (cpc = "pass" => failedNum < ClientNum) THEN "pass" ELSE "delete"
    /\ i' = 1 /\ failedNum' = 0
    /\ UNCHANGED <<sockets, arr, dataLen, runing>>

Visiting == cpc = "pass" /\ i <= ClientNum
Failed == cpc' = "pass" /\ i' = i + 1 /\ failedNum' = failedNum + 1

\* The client is gone, or its socket is closed and it goes now.
Gone ==
    /\ Visiting /\ (arr[i] = "null" \/ ~IsRun(i))
    /\ arr' = [arr EXCEPT ![i] = "null"] /\ Failed
    /\ UNCHANGED <<sockets, dataLen, runing>>

\* OnRun closed the socket, and SendData finds no socket.
OnRunFails ==
    /\ Visiting /\ arr[i] = "object" /\ IsRun(i)
    /\ ClientCloses({i}) /\ Failed
    /\ UNCHANGED <<listening, serverEnd, up, arr, dataLen, runing>>

SendData ==
    /\ cpc' = "send" /\ dataLen' = TotalLen % (UShortMax + 1)
    /\ UNCHANGED <<listening, clientEnd, serverEnd, up, i, arr, failedNum, runing>>

\* The socket is readable: processorRecv takes at most its buffer, once.
OnRunReceives ==
    /\ Visiting /\ arr[i] = "object" /\ IsRun(i) /\ down[i] > 0
    /\ \E n \in AtMost(down[i], Capacity) : down' = [down EXCEPT ![i] = @ - n]
    /\ SendData

OnRunIdle ==
    /\ Visiting /\ arr[i] = "object" /\ IsRun(i) /\ ~ClientReadable(i)
    /\ UNCHANGED down /\ SendData

\* send blocks until it has passed on something.
SendSome ==
    /\ cpc = "send" /\ dataLen > 0 /\ up[i] < Capacity
    /\ \E n \in AtMost(dataLen, Capacity - up[i]) :
          up' = [up EXCEPT ![i] = @ + n] /\ dataLen' = dataLen - n
    /\ UNCHANGED <<listening, clientEnd, serverEnd, down, cpc, i, arr, failedNum, runing>>

\* Every client is deleted and the program ends, which closes all sockets.
ClientEnds ==
    /\ cpc' = "end" /\ dataLen' = 0 /\ arr' = [c \in Clients |-> "null"]
    /\ ClientCloses(Clients)
    /\ UNCHANGED <<listening, serverEnd, up, i, failedNum, runing>>

\* The error leaves the socket open, and the next OnRun finds out; where send
\* raises SIGPIPE it ends the program.
SendDataFails ==
    /\ cpc = "send" /\ dataLen > 0 /\ serverEnd[i] = "closed"
    /\ \/ dataLen' = 0 /\ Failed /\ UNCHANGED <<sockets, arr, runing>>
       \/ ClientEnds

SendDataEnds ==
    /\ cpc = "send" /\ dataLen = 0 /\ cpc' = "pass" /\ i' = i + 1
    /\ UNCHANGED <<sockets, arr, failedNum, dataLen, runing>>

\* Whatever deleting a pointer that was never set does.
Deletes == cpc = "delete" /\ ClientEnds

MainThread ==
    \/ Connect \/ ConnectSkips \/ NextPass \/ Gone \/ OnRunFails \/ OnRunReceives
    \/ OnRunIdle \/ SendSome \/ SendDataFails \/ SendDataEnds \/ Deletes

ClientNext == MainThread \/ inputThread

ClientWaits == cpc = "send" /\ dataLen > 0 /\ ~ClientWritable(i)
==============================================================================
