----------------------------- MODULE SelectServer ----------------------------
(***************************************************************************)
(* CommonLib/SelectServer.cpp with the program ServerTest/Server01.cpp:    *)
(* one thread that selects, accepts at most one connection, and then for   *)
(* every client receives, answers and sends.                               *)
(*                                                                         *)
(* What a client object does is the subject of the ClientSocket modules;   *)
(* here it cuts the stream into messages of MsgLen units, and sends what   *)
(* is queued through a blocking socket.                                    *)
(***************************************************************************)
EXTENDS Sockets, Integers, SequencesExt

CONSTANTS
    ServerSock,     \* the descriptor of the listening socket
    Descriptors,    \* descriptors accept can return
    MsgLen,         \* units of a message
    RecvMax,        \* units a recv of the server takes at most
    SendMax,        \* SERVER_SEND_BUFFER_SIZE
    QueueMax        \* SERVER_SEND_QUEUE_MAX_ACCUMULATE_COUNT

ASSUME ServerAssumption ==
    /\ ServerSock \in Nat /\ Descriptors \subseteq Nat
    /\ \A d \in Descriptors : d > ServerSock
    /\ IsFiniteSet(Clients) /\ IsFiniteSet(Descriptors)
    /\ Cardinality(Descriptors) >= Cardinality(Clients)
    /\ MsgLen \in Nat \ {0} /\ RecvMax \in Nat \ {0}
    /\ SendMax \in Nat \ {0} /\ QueueMax \in Nat

INVALID_SOCKET == -1

VARIABLES
    spc,            \* where the server thread is
    clients,        \* _clientSockArr
    sock,           \* _clientSock of each client object
    change,         \* _clientChange
    maxSock,        \* _maxSock
    backup,         \* _fdReadBackup
    fdRead,         \* what select left of it, without the server
    pos,            \* the iterator over the clients
    retain,         \* units each client object keeps of a cut message
    queue,          \* units each client object has to send
    left            \* units the send in progress has yet to pass on

loop == <<change, maxSock, backup, fdRead>>
objects == <<clients, sock, retain, queue>>
serverVars == <<spc, clients, sock, change, maxSock, backup, fdRead, pos, retain, queue, left>>

ServerInit ==
    /\ spc = "bind"
    /\ clients = << >> /\ sock = [c \in Clients |-> INVALID_SOCKET]
    /\ change = TRUE /\ maxSock = INVALID_SOCKET /\ backup = {} /\ fdRead = {}
    /\ pos = 1 /\ left = 0
    /\ retain = [c \in Clients |-> 0] /\ queue = [c \in Clients |-> 0]

ServerTypeOK ==
    /\ spc \in {"bind", "listen", "run", "accept", "serve", "send", "closed"}
    /\ clients \in Seq(Clients) /\ sock \in [Clients -> Descriptors \cup {INVALID_SOCKET}]
    /\ change \in BOOLEAN /\ maxSock \in Descriptors \cup {INVALID_SOCKET}
    /\ backup \subseteq Descriptors \cup {ServerSock} /\ fdRead \subseteq Descriptors
    /\ pos \in Nat \ {0} /\ retain \in [Clients -> 0 .. MsgLen - 1]
    /\ queue \in [Clients -> Nat] /\ left \in 0 .. SendMax

Listed == {clients[i] : i \in DOMAIN clients}
Socks == {sock[c] : c \in Listed}
Turn == clients[pos]

\* Socket, bind or listen fail: the program ends.
StartFails ==
    /\ spc \in {"bind", "listen"} /\ spc' = "closed"
    /\ UNCHANGED <<sockets, objects, loop, pos, left>>

Bind == spc = "bind" /\ spc' = "listen" /\ UNCHANGED <<sockets, objects, loop, pos, left>>

Listen ==
    /\ spc = "listen" /\ spc' = "run" /\ listening' = TRUE
    /\ UNCHANGED <<clientEnd, serverEnd, up, down, objects, loop, pos, left>>

\* Every client is deleted, and the backlog goes with the listening socket.
ServerEnds ==
    /\ spc' = "closed" /\ left' = 0
    /\ listening' = FALSE /\ ServerCloses(Clients)
    /\ clients' = << >> /\ sock' = [c \in Clients |-> INVALID_SOCKET]
    /\ retain' = [c \in Clients |-> 0] /\ queue' = [c \in Clients |-> 0]
    /\ UNCHANGED <<clientEnd, down, loop, pos>>

\* select failed, or the user has stopped the server.
Close == spc = "run" /\ ServerEnds

------------------------------------------------------------------------------
(* OnRun: select and accept.                                               *)

Backlog == {c \in Clients : serverEnd[c] = "backlog"}

Ready(d) == (d = ServerSock /\ Backlog # {}) \/ \E c \in Listed : sock[c] = d /\ ServerReadable(c)

\* Mistake: the set given to select is looked at again, not what it left.
SelectedAll(n, set) == set

\* select examines the descriptors below n and clears the others in the words
\* it looks at; with n = 0 it looks at none and leaves the set as it was.
Selected(n, set) == IF n = 0 THEN set ELSE {d \in set : d < n /\ Ready(d)}

\* Mistake: the maximum is that of the first client.
NewMaxSockFirst == IF clients = << >> THEN maxSock ELSE sock[clients[1]]

NewMaxSock == IF clients = << >> THEN maxSock ELSE Max(Socks)

Rebuild ==
    /\ backup' = IF change THEN {ServerSock} \cup Socks ELSE backup
    /\ maxSock' = IF change THEN NewMaxSock ELSE maxSock
    /\ change' = FALSE

Select ==
    /\ spc = "run"
    /\ Rebuild
    /\ LET set == Selected(maxSock' + 1, backup') IN
          /\ fdRead' = set \ {ServerSock}
          /\ spc' = IF ServerSock \in set THEN "accept" ELSE "serve"
    /\ UNCHANGED <<sockets, objects, pos, left>>

\* accept waits while the backlog is empty; it returns the lowest free descriptor.
Accept ==
    /\ spc = "accept" /\ spc' = "serve"
    /\ \E c \in Backlog : LET d == Min(Descriptors \ Socks) IN
          /\ serverEnd' = [serverEnd EXCEPT ![c] = "open"]
          /\ clients' = Append(clients, c) /\ sock' = [sock EXCEPT ![c] = d]
    /\ change' = TRUE
    /\ UNCHANGED <<listening, clientEnd, up, down, maxSock, backup, fdRead, pos, retain, queue,
                   left>>

\* The connection was aborted while it was in the backlog.
AcceptFails ==
    /\ spc = "accept" /\ spc' = "serve"
    /\ \E c \in Backlog : ServerCloses({c})
    /\ UNCHANGED <<listening, clientEnd, down, objects, loop, pos, left>>

------------------------------------------------------------------------------
(* OnRun: the clients.                                                     *)

Serving == spc = "serve" /\ pos <= Len(clients)

\* Mistake: the set select is given keeps the descriptor.
DeleteNoChange ==
    /\ sock' = [sock EXCEPT ![Turn] = INVALID_SOCKET]
    /\ ServerCloses({Turn})
    /\ clients' = RemoveAt(clients, pos)
    /\ retain' = [retain EXCEPT ![Turn] = 0] /\ queue' = [queue EXCEPT ![Turn] = 0]
    /\ spc' = "serve" /\ left' = 0
    /\ UNCHANGED <<listening, clientEnd, down, change, maxSock, backup, fdRead, pos>>

\* The client closes its socket and is deleted; the iterator is at the next.
Delete ==
    /\ sock' = [sock EXCEPT ![Turn] = INVALID_SOCKET]
    /\ ServerCloses({Turn})
    /\ clients' = RemoveAt(clients, pos)
    /\ retain' = [retain EXCEPT ![Turn] = 0] /\ queue' = [queue EXCEPT ![Turn] = 0]
    /\ spc' = "serve" /\ change' = TRUE /\ left' = 0
    /\ UNCHANGED <<listening, clientEnd, down, maxSock, backup, fdRead, pos>>

\* Server01's answers: one message to the sender alone, or one to every client.
OnMsgHandle(to, n) == queue' = [c \in Clients |-> IF c \in to THEN queue[c] + n * MsgLen
                                                  ELSE queue[c]]

ProcessorRecv ==
    /\ Serving /\ sock[Turn] \in fdRead /\ up[Turn] > 0
    /\ \E n \in AtMost(up[Turn], RecvMax) :
          /\ up' = [up EXCEPT ![Turn] = @ - n]
          /\ retain' = [retain EXCEPT ![Turn] = (@ + n) % MsgLen]
          /\ \E to \in {{Turn}, Listed} : OnMsgHandle(to, (retain[Turn] + n) \div MsgLen)
    /\ spc' = "send"
    /\ UNCHANGED <<listening, clientEnd, serverEnd, down, clients, sock, loop, pos, left>>

\* The peer has closed; a reset may have taken what was still to be received.
RecvFails == Serving /\ sock[Turn] \in fdRead /\ clientEnd[Turn] = "closed" /\ Delete

NothingToRecv ==
    /\ Serving /\ sock[Turn] \notin fdRead /\ spc' = "send"
    /\ UNCHANGED <<sockets, objects, loop, pos, left>>

\* ProcessorSend passes on a buffer at a time while select finds room.
SendBegin ==
    /\ spc = "send" /\ left = 0 /\ queue[Turn] > 0 /\ ServerWritable(Turn)
    /\ left' = Min({queue[Turn], SendMax})
    /\ UNCHANGED <<sockets, spc, objects, loop, pos>>

\* The socket is a blocking one: send returns when all its units have gone.
SendUnit ==
    /\ spc = "send" /\ left > 0 /\ down[Turn] < Capacity
    /\ down' = [down EXCEPT ![Turn] = @ + 1]
    /\ queue' = [queue EXCEPT ![Turn] = @ - 1] /\ left' = left - 1
    /\ UNCHANGED <<listening, clientEnd, serverEnd, up, spc, clients, sock, retain, loop, pos>>

\* The peer has closed: send returns an error or, where it raises SIGPIPE, which
\* nothing in the program handles, it ends the server.
SendFails == spc = "send" /\ left > 0 /\ clientEnd[Turn] = "closed" /\ (Delete \/ ServerEnds)

\* A full buffer that cannot be sent, and too many messages behind it; the one
\* that filled the buffer to its end still counts.
Congested == ~ServerWritable(Turn) /\ queue[Turn] >= SendMax + QueueMax * MsgLen

Accumulated == spc = "send" /\ left = 0 /\ Congested /\ Delete

SendEnd ==
    /\ spc = "send" /\ left = 0 /\ (queue[Turn] = 0 \/ ~ServerWritable(Turn)) /\ ~Congested
    /\ spc' = "serve" /\ pos' = pos + 1
    /\ UNCHANGED <<sockets, objects, loop, left>>

PassEnd ==
    /\ spc = "serve" /\ pos > Len(clients) /\ spc' = "run"
    /\ pos' = 1 /\ fdRead' = {}
    /\ UNCHANGED <<sockets, objects, change, maxSock, backup, left>>

OnRun ==
    \/ Select \/ Accept \/ AcceptFails \/ ProcessorRecv \/ RecvFails \/ NothingToRecv
    \/ SendBegin \/ SendUnit \/ SendFails \/ Accumulated \/ SendEnd \/ PassEnd

ServerNext == StartFails \/ Bind \/ Listen \/ Close \/ OnRun

ServerWaits == spc = "send" /\ left > 0 /\ ~ServerWritable(Turn)
==============================================================================
