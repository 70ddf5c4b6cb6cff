---------------------------- MODULE EasyTcpClient ----------------------------
(***************************************************************************)
(* EasyTcpClient/EasyTcpClient.hpp with its program client.cpp: every send *)
(* thread connects its part of the clients and then, for one client after  *)
(* the other, sends and receives on blocking sockets until the user's      *)
(* exit.  The messages received are only printed, and left out.            *)
(***************************************************************************)
EXTENDS Sockets, FiniteSetsExt

CONSTANTS
    cCount,         \* clients
    tCount,         \* send threads
    SendLen         \* nLen, units of a send

ASSUME ClientAssumption ==
    /\ cCount \in Nat \ {0} /\ tCount \in Nat \ {0}
    /\ Clients = 1 .. cCount /\ SendLen \in Nat \ {0}

VARIABLES
    tpc,            \* where each send thread is
    turn,           \* its loop counter
    toSend,         \* units of the send in progress yet to be passed on
    g_bRun

clientVars == <<tpc, turn, toSend, g_bRun>>

Threads == 1 .. tCount
begin(id) == (id - 1) * (cCount \div tCount) + 1
end(id) == id * (cCount \div tCount)

ClientInit ==
    /\ tpc = [id \in Threads |-> "connect"] /\ turn = [id \in Threads |-> begin(id)]
    /\ toSend = [id \in Threads |-> 0] /\ g_bRun = TRUE

isRun(c) == clientEnd[c] = "open"

cmdThread ==
    /\ g_bRun /\ g_bRun' = FALSE
    /\ UNCHANGED <<sockets, tpc, turn, toSend>>

Connect(id) ==
    /\ tpc[id] = "connect" /\ turn[id] <= end(id)
    /\ turn' = [turn EXCEPT ![id] = @ + 1]
    /\ \/ /\ listening
          /\ clientEnd' = [clientEnd EXCEPT ![turn[id]] = "open"]
          /\ serverEnd' = [serverEnd EXCEPT ![turn[id]] = "backlog"]
       \/ UNCHANGED <<clientEnd, serverEnd>>
    /\ UNCHANGED <<listening, up, down, tpc, toSend, g_bRun>>

\* The test of the while, after the connecting and after every pass.
NextPass(id) ==
    /\ tpc[id] \in {"connect", "send"} /\ turn[id] > end(id)
    /\ tpc' = [tpc EXCEPT ![id] = IF g_bRun THEN "send" ELSE "close"]
    /\ turn' = [turn EXCEPT ![id] = begin(id)]
    /\ UNCHANGED <<sockets, toSend, g_bRun>>

NextClient(id) ==
    /\ tpc' = [tpc EXCEPT ![id] = "send"] /\ turn' = [turn EXCEPT ![id] = @ + 1]

\* SendData and OnRun do nothing without a connection.
NotRunning(id) ==
    /\ tpc[id] = "send" /\ turn[id] <= end(id) /\ ~isRun(turn[id])
    /\ NextClient(id) /\ UNCHANGED <<sockets, toSend, g_bRun>>

BeginSend(id) ==
    /\ tpc[id] = "send" /\ turn[id] <= end(id) /\ isRun(turn[id])
    /\ tpc' = [tpc EXCEPT ![id] = "sending"] /\ toSend' = [toSend EXCEPT ![id] = SendLen]
    /\ UNCHANGED <<sockets, turn, g_bRun>>

\* send blocks until all has gone.
SendSome(id) ==
    /\ tpc[id] = "sending" /\ toSend[id] > 0 /\ up[turn[id]] < Capacity
    /\ LET k == Min({toSend[id], Capacity - up[turn[id]]}) IN
          /\ up' = [up EXCEPT ![turn[id]] = @ + k]
          /\ toSend' = [toSend EXCEPT ![id] = @ - k]
    /\ UNCHANGED <<listening, clientEnd, serverEnd, down, tpc, turn, g_bRun>>

ProcessExits ==
    /\ tpc' = [id \in Threads |-> "end"] /\ toSend' = [id \in Threads |-> 0]
    /\ ClientCloses(Clients)
    /\ UNCHANGED <<listening, serverEnd, up, turn, g_bRun>>

\* The client closes; where send raises SIGPIPE, the process ends.
SendDataFails(id) ==
    /\ tpc[id] = "sending" /\ toSend[id] > 0 /\ serverEnd[turn[id]] = "closed"
    /\ \/ /\ ClientCloses({turn[id]}) /\ toSend' = [toSend EXCEPT ![id] = 0] /\ NextClient(id)
          /\ UNCHANGED <<listening, serverEnd, up, g_bRun>>
       \/ ProcessExits

\* OnRun: it receives what is there, or finds the connection at its end.
OnRun(id) ==
    /\ tpc[id] = "sending" /\ toSend[id] = 0 /\ NextClient(id)
    /\ LET c == turn[id] IN
          \/ down[c] > 0 /\ down' = [down EXCEPT ![c] = 0] /\ UNCHANGED clientEnd
          \/ ~ClientReadable(c) /\ UNCHANGED <<clientEnd, down>>
          \/ serverEnd[c] = "closed" /\ ClientCloses({c})
    /\ UNCHANGED <<listening, serverEnd, up, toSend, g_bRun>>

\* The thread's clients close and are deleted.
ThreadEnds(id) ==
    /\ tpc[id] = "close" /\ tpc' = [tpc EXCEPT ![id] = "end"]
    /\ ClientCloses(begin(id) .. end(id))
    /\ UNCHANGED <<listening, serverEnd, up, turn, toSend, g_bRun>>

\* main returns without waiting for the threads.
MainReturns == ~g_bRun /\ (\E id \in Threads : tpc[id] # "end") /\ ProcessExits

sendThread(id) ==
    \/ Connect(id) \/ NextPass(id) \/ NotRunning(id) \/ BeginSend(id) \/ SendSome(id)
    \/ SendDataFails(id) \/ OnRun(id) \/ ThreadEnds(id)

SenderWaits(id) == tpc[id] = "sending" /\ toSend[id] > 0 /\ ~ClientWritable(turn[id])
==============================================================================
