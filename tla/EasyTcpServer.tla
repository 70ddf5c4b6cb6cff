---------------------------- MODULE EasyTcpServer ----------------------------
(***************************************************************************)
(* EasyTcpServer/EasyTcpServer.hpp with its program server.cpp: the main   *)
(* thread accepts and hands every client to one of the cell servers, whose *)
(* threads receive, cut the stream into messages of MsgLen units and       *)
(* answer, all on blocking sockets.                                        *)
(***************************************************************************)
EXTENDS Sockets, Integers, SequencesExt

CONSTANTS
    Cells,          \* the cell servers
    MsgLen,         \* units of a message, and of an answer
    Commands,       \* what the clients' messages ask for
    RecvMax,        \* RECV_BUFF_SZIE
    MsgBufSize      \* of _szMsgBuf, a client's message buffer

\* The longest message and a full recv fit the message buffer together.
ASSUME CellAssumption ==
    /\ Cells # {} /\ IsFiniteSet(Cells) /\ MsgLen \in Nat \ {0} /\ RecvMax \in Nat \ {0}
    /\ MsgBufSize \in Nat /\ MsgLen - 1 + RecvMax <= MsgBufSize

NoClient == 0

VARIABLES
    apc,            \* where the main thread is
    accepted,       \* the client it has in hand
    clientCount,    \* _clientCount
    pc,             \* where each cell's thread is
    buff,           \* _clientsBuff, filled by the main thread
    list,           \* _clients
    ready,          \* what select left of fdRead
    n,              \* the loop counter over the clients
    lastPos,        \* _lastPos of each client
    left            \* units of the answer in progress yet to be passed on

main == <<apc, accepted>>
serverVars == <<apc, accepted, clientCount, pc, buff, list, ready, n, lastPos, left>>

ServerInit ==
    /\ apc = "init" /\ accepted = NoClient /\ clientCount = 0
    /\ pc = [h \in Cells |-> "init"]
    /\ buff = [h \in Cells |-> << >>] /\ list = [h \in Cells |-> << >>]
    /\ ready = [h \in Cells |-> {}] /\ n = [h \in Cells |-> 0]
    /\ lastPos = [c \in Clients |-> 0] /\ left = [h \in Cells |-> 0]

------------------------------------------------------------------------------
(* The main thread.                                                        *)

\* main looks at no result: without a socket the cells' threads end at once,
\* without a port nobody connects.
Start ==
    /\ apc = "init" /\ apc' = "run"
    /\ \E sock, port \in BOOLEAN :
          /\ pc' = [h \in Cells |-> IF sock THEN "loop" ELSE "end"]
          /\ listening' = (sock /\ port)
    /\ UNCHANGED <<clientEnd, serverEnd, up, down, accepted, clientCount, buff, list, ready, n,
                   lastPos, left>>

Backlog == {c \in Clients : serverEnd[c] = "backlog"}

\* select has found a connection; accept may find that it was aborted.
Accept ==
    /\ apc = "run"
    /\ \E c \in Backlog :
          \/ /\ serverEnd' = [serverEnd EXCEPT ![c] = "open"] /\ UNCHANGED up
             /\ apc' = "add" /\ accepted' = c
          \/ ServerCloses({c}) /\ UNCHANGED main
    /\ UNCHANGED <<listening, clientEnd, down, clientCount, pc, buff, list, ready, n, lastPos,
                   left>>

getClientCount(h) == Len(list[h]) + Len(buff[h])

\* The cell with the fewest clients; but the counts are read without a lock,
\* and while a cell's thread changes its vectors any outcome is possible.
Changing(h) == pc[h] = "pass" \/ (pc[h] = "loop" /\ buff[h] # << >>)
pMinServer(h) == (\A g \in Cells : getClientCount(h) <= getClientCount(g)) \/ \E g \in Cells : Changing(g)

addClientToCellServer ==
    /\ apc = "add" /\ apc' = "join"
    /\ \E h \in Cells : pMinServer(h) /\ buff' = [buff EXCEPT ![h] = Append(@, accepted)]
    /\ UNCHANGED <<sockets, accepted, clientCount, pc, list, ready, n, lastPos, left>>

\* After the cell has the client.
OnNetJoin ==
    /\ apc = "join" /\ apc' = "run" /\ accepted' = NoClient
    /\ clientCount' = clientCount + 1
    /\ UNCHANGED <<sockets, pc, buff, list, ready, n, lastPos, left>>

\* Close, at the user's exit: the listening socket only, the cells go on.
Close ==
    /\ apc = "run" /\ apc' = "exit"
    /\ listening' = FALSE /\ ServerCloses(Backlog)
    /\ UNCHANGED <<clientEnd, down, accepted, clientCount, pc, buff, list, ready, n, lastPos, left>>

ProcessEnds ==
    /\ apc' = "gone" /\ pc' = [h \in Cells |-> "end"]
    /\ listening' = FALSE /\ ServerCloses(Clients)
    /\ buff' = [h \in Cells |-> << >>] /\ list' = [h \in Cells |-> << >>]
    /\ ready' = [h \in Cells |-> {}] /\ n' = [h \in Cells |-> 0]
    /\ lastPos' = [c \in Clients |-> 0] /\ left' = [h \in Cells |-> 0]
    /\ accepted' = NoClient /\ clientCount' = 0
    /\ UNCHANGED <<clientEnd, down>>

MainEnds == apc = "exit" /\ ProcessEnds

------------------------------------------------------------------------------
(* The thread of cell h.                                                   *)

\* The new clients are taken over under the lock; without clients it sleeps.
TakeBuffered(h) ==
    /\ pc[h] = "loop" /\ (list[h] # << >> \/ buff[h] # << >>)
    /\ list' = [list EXCEPT ![h] = @ \o buff[h]]
    /\ buff' = [buff EXCEPT ![h] = << >>]
    /\ pc' = [pc EXCEPT ![h] = "select"]
    /\ UNCHANGED <<sockets, main, clientCount, ready, n, lastPos, left>>

Readable(h) == {c \in ToSet(list[h]) : ServerReadable(c)}

\* select waits, without a time limit, until a client can be read.
Select(h) ==
    /\ pc[h] = "select" /\ Readable(h) # {}
    /\ ready' = [ready EXCEPT ![h] = Readable(h)]
    /\ n' = [n EXCEPT ![h] = Len(list[h])]
    /\ pc' = [pc EXCEPT ![h] = "pass"]
    /\ UNCHANGED <<sockets, main, clientCount, buff, list, lastPos, left>>

\* Close of the cell also closes the listening socket; nobody is told that the
\* clients leave, and the thread ends.
SelectFails(h) ==
    /\ pc[h] = "select"
    /\ pc' = [pc EXCEPT ![h] = "end"] /\ list' = [list EXCEPT ![h] = << >>]
    /\ listening' = FALSE /\ ServerCloses(ToSet(list[h]) \cup Backlog)
    /\ UNCHANGED <<clientEnd, down, main, clientCount, buff, ready, n, lastPos, left>>

Turn(h) == list[h][n[h]]
Passing(h) == pc[h] = "pass" /\ n[h] > 0
Next1(h) == n' = [n EXCEPT ![h] = @ - 1]

PassEnds(h) ==
    /\ pc[h] = "pass" /\ n[h] = 0
    /\ pc' = [pc EXCEPT ![h] = "loop"] /\ ready' = [ready EXCEPT ![h] = {}]
    /\ UNCHANGED <<sockets, main, clientCount, buff, list, n, lastPos, left>>

NothingToRecv(h) ==
    /\ Passing(h) /\ Turn(h) \notin ready[h] /\ Next1(h)
    /\ UNCHANGED <<sockets, main, clientCount, pc, buff, list, ready, lastPos, left>>

\* RecvData: the new units are added to those of a cut message.
RecvData(h) ==
    /\ Passing(h) /\ Turn(h) \in ready[h] /\ up[Turn(h)] > 0
    /\ \E k \in AtMost(up[Turn(h)], RecvMax) :
          /\ up' = [up EXCEPT ![Turn(h)] = @ - k]
          /\ lastPos' = [lastPos EXCEPT ![Turn(h)] = @ + k]
    /\ pc' = [pc EXCEPT ![h] = "parse"]
    /\ UNCHANGED <<listening, clientEnd, serverEnd, down, main, clientCount, buff, list, ready, n, left>>

\* Mistake: the client is erased and nobody is told.
LeaveUncounted(h) ==
    /\ Passing(h) /\ Turn(h) \in ready[h] /\ clientEnd[Turn(h)] = "closed"
    /\ list' = [list EXCEPT ![h] = RemoveAt(@, n[h])] /\ Next1(h)
    /\ lastPos' = [lastPos EXCEPT ![Turn(h)] = 0]
    /\ UNCHANGED <<sockets, main, clientCount, pc, buff, ready, left>>

\* Mistake: the counter stays, as in a pass that ascends.
LeaveStays(h) ==
    /\ Passing(h) /\ Turn(h) \in ready[h] /\ clientEnd[Turn(h)] = "closed"
    /\ clientCount' = clientCount - 1
    /\ list' = [list EXCEPT ![h] = RemoveAt(@, n[h])]
    /\ lastPos' = [lastPos EXCEPT ![Turn(h)] = 0]
    /\ UNCHANGED <<sockets, main, pc, buff, ready, n, left>>

\* The client's object is deleted; its descriptor is not closed.
OnNetLeave(h) ==
    /\ Passing(h) /\ Turn(h) \in ready[h] /\ clientEnd[Turn(h)] = "closed"
    /\ clientCount' = clientCount - 1
    /\ list' = [list EXCEPT ![h] = RemoveAt(@, n[h])] /\ Next1(h)
    /\ lastPos' = [lastPos EXCEPT ![Turn(h)] = 0]
    /\ UNCHANGED <<sockets, main, pc, buff, ready, left>>

\* Mistake: the message stays in the buffer.
OnNetMsgKeeps(h) ==
    /\ pc[h] = "parse" /\ lastPos[Turn(h)] >= MsgLen
    /\ pc' = [pc EXCEPT ![h] = "reply"] /\ left' = [left EXCEPT ![h] = MsgLen]
    /\ UNCHANGED <<sockets, main, clientCount, buff, list, ready, n, lastPos>>

\* A login is answered, other messages are not.
OnNetMsg(h) ==
    /\ pc[h] = "parse" /\ lastPos[Turn(h)] >= MsgLen
    /\ lastPos' = [lastPos EXCEPT ![Turn(h)] = @ - MsgLen]
    /\ \E cmd \in Commands :
          /\ pc' = [pc EXCEPT ![h] = IF cmd = "CMD_LOGIN" THEN "reply" ELSE @]
          /\ left' = [left EXCEPT ![h] = IF cmd = "CMD_LOGIN" THEN MsgLen ELSE @]
    /\ UNCHANGED <<sockets, main, clientCount, buff, list, ready, n>>

NoMoreMsg(h) ==
    /\ pc[h] = "parse" /\ lastPos[Turn(h)] < MsgLen
    /\ pc' = [pc EXCEPT ![h] = "pass"] /\ Next1(h)
    /\ UNCHANGED <<sockets, main, clientCount, buff, list, ready, lastPos, left>>

\* SendData blocks until all has gone.
SendData(h) ==
    /\ pc[h] = "reply" /\ down[Turn(h)] < Capacity
    /\ LET k == Min({left[h], Capacity - down[Turn(h)]}) IN
          /\ down' = [down EXCEPT ![Turn(h)] = @ + k]
          /\ left' = [left EXCEPT ![h] = @ - k]
          /\ pc' = [pc EXCEPT ![h] = IF k = left[h] THEN "parse" ELSE "reply"]
    /\ UNCHANGED <<listening, clientEnd, serverEnd, up, main, clientCount, buff, list, ready, n, lastPos>>

\* Its result is not looked at; where it raises SIGPIPE, the process ends.
SendFails(h) ==
    /\ pc[h] = "reply" /\ clientEnd[Turn(h)] = "closed"
    /\ \/ /\ pc' = [pc EXCEPT ![h] = "parse"] /\ left' = [left EXCEPT ![h] = 0]
          /\ UNCHANGED <<sockets, main, clientCount, buff, list, ready, n, lastPos>>
       \/ ProcessEnds

OnRunCell(h) ==
    \/ TakeBuffered(h) \/ Select(h) \/ PassEnds(h) \/ NothingToRecv(h)
    \/ RecvData(h) \/ OnNetLeave(h) \/ OnNetMsg(h) \/ NoMoreMsg(h) \/ SendData(h)
    \/ SendFails(h)

MainThread == Start \/ Accept \/ addClientToCellServer \/ OnNetJoin

ServerEnds == Close \/ MainEnds \/ \E h \in Cells : SelectFails(h)

\* A cell waits for a client: in select for any of its own, or to send.
CellWaits(h) ==
    \/ pc[h] = "select" /\ Readable(h) = {}
    \/ pc[h] = "reply" /\ ~ServerWritable(Turn(h))
==============================================================================
