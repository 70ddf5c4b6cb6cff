---------------------------- MODULE ServerThreads ----------------------------
(***************************************************************************)
(* CommonLib/SelectServer_Thread.cpp: the main thread accepts connections  *)
(* and queues each for the handler with the fewest; every handler thread   *)
(* takes its new connections over, selects and serves its clients, and     *)
(* deletes those that fail; Close stops the handlers and deletes them.     *)
(*                                                                         *)
(* A connection is a number, a descriptor is reused after it was closed.   *)
(* What a client does when served is left to the ClientSocket modules:     *)
(* here it goes on, fails and closes its socket, broadcasts, or keeps the  *)
(* thread in a send that waits for its peer to read.  Using a deleted      *)
(* object is undefined behaviour, where the model stops.                   *)
(***************************************************************************)
EXTENDS Integers, Sequences, FiniteSets

CONSTANTS
    Handlers,       \* number of handler threads
    Descriptors,    \* descriptors accept can return
    MaxConn         \* bound on the number of connections

ASSUME ServerAssumption ==
    /\ Handlers \in Nat \ {0}
    /\ Descriptors \subseteq Nat \ {0}
    /\ MaxConn \in Nat

H == 1 .. Handlers
Conns == 1 .. MaxConn

VARIABLES
    main,           \* where the main thread is in OnRun or Close
    listening,      \* _serverSock # INVALID_SOCKET
    accepted,       \* number of connections accepted
    cur, minId, minClient,  \* local variables of OnRun
    k,              \* the handler the main thread looks at
    fds,            \* open descriptors of accepted connections
    sock,           \* descriptor in the queue entry or client object, or 0
    joins, count,   \* _clientStateQueue: its entries and its _size
    locked,         \* its mutex is held by the handler
    clients,        \* _clientSockArr
    created, deleted,       \* client objects constructed, deleted
    hasChange, watched,     \* _hasChangeClient, _fdRead_backup
    running, stopped,       \* _isRunging, _isHandleStop
    gone,           \* handlers that Close has deleted
    pc, i,          \* where the handler thread is, its position in a list
    target, at,     \* Broadcast: the handler and the client the iterators are at
    undefined       \* the handler that used a deleted object, or 0

mainVars == <<main, listening, accepted, cur, minId, minClient, k>>
queueVars == <<joins, count, locked>>
clientVars == <<fds, sock, clients, created, deleted, hasChange, watched>>
stopVars == <<running, stopped, gone>>
sendVars == <<target, at, undefined>>
vars == <<main, listening, accepted, cur, minId, minClient, k, fds, sock, joins, count,
          locked, clients, created, deleted, hasChange, watched, running, stopped, gone,
          pc, i, target, at, undefined>>

Elements(s) == {s[j] : j \in DOMAIN s}
Erased(s, j) == SubSeq(s, 1, j - 1) \o SubSeq(s, j + 1, Len(s))
Socks(s) == {sock[c] : c \in Elements(s)}

Init ==
    /\ main = "init" /\ listening = FALSE /\ accepted = 0
    /\ cur = 0 /\ minId = 1 /\ minClient = 0 /\ k = 1
    /\ fds = {} /\ sock = [c \in Conns |-> 0]
    /\ joins = [h \in H |-> << >>] /\ count = [h \in H |-> 0]
    /\ locked = [h \in H |-> FALSE]
    /\ clients = [h \in H |-> << >>] /\ created = {} /\ deleted = {}
    /\ hasChange = [h \in H |-> TRUE] /\ watched = [h \in H |-> {}]
    /\ running = [h \in H |-> TRUE] /\ stopped = [h \in H |-> FALSE] /\ gone = {}
    /\ pc = [h \in H |-> "none"] /\ i = [h \in H |-> 1]
    /\ target = [h \in H |-> 1] /\ at = [h \in H |-> 0]
    /\ undefined = 0

------------------------------------------------------------------------------
(* The main thread: InitServer, Bind, Listen.                              *)

\* The constructor of a handler starts its thread, before there is a socket.
InitServer ==
    /\ main = "init"
    /\ pc' = [pc EXCEPT ![k] = "top"]
    /\ IF k < Handlers THEN k' = k + 1 /\ UNCHANGED main ELSE k' = 1 /\ main' = "bind"
    /\ UNCHANGED <<listening, accepted, cur, minId, minClient, queueVars, clientVars, stopVars,
                   i, sendVars>>

\* Without a socket Close has nothing to do, in the destructor neither, and the
\* handlers run on; where only bind fails, Close stops them.
Bind ==
    /\ main = "bind" /\ main' \in {"nosocket", "close", "listen"}
    /\ listening' = (main' = "listen")
    /\ UNCHANGED <<accepted, cur, minId, minClient, k, queueVars, clientVars, stopVars, pc, i,
                   sendVars>>

Listen ==
    /\ main = "listen" /\ main' = "run"
    /\ UNCHANGED <<listening, accepted, cur, minId, minClient, k, queueVars, clientVars,
                   stopVars, pc, i, sendVars>>

Start == InitServer \/ Bind \/ Listen

------------------------------------------------------------------------------
(* The main thread: OnRun.                                                 *)

GetClientNum(h) == count[h] + Len(clients[h])

\* accept, and the first reading of the first handler's number.
Accept ==
    /\ main = "run" /\ accepted < MaxConn
    /\ \E d \in Descriptors \ fds :
          /\ fds' = fds \cup {d}
          /\ sock' = [sock EXCEPT ![accepted + 1] = d]
    /\ accepted' = accepted + 1 /\ cur' = accepted + 1
    /\ main' = "pick" /\ k' = 1 /\ minId' = 1 /\ minClient' = GetClientNum(1)
    /\ UNCHANGED <<listening, queueVars, clients, created, deleted, hasChange, watched,
                   stopVars, pc, i, sendVars>>

\* The number is read once to compare it and once more to keep it.
PickCompare ==
    /\ main = "pick" /\ k <= Handlers
    /\ IF minClient > GetClientNum(k) THEN main' = "take" /\ UNCHANGED k
       ELSE k' = k + 1 /\ UNCHANGED main
    /\ UNCHANGED <<listening, accepted, cur, minId, minClient, queueVars, clientVars,
                   stopVars, pc, i, sendVars>>

PickTake ==
    /\ main = "take"
    /\ minId' = k /\ minClient' = GetClientNum(k)
    /\ k' = k + 1 /\ main' = "pick"
    /\ UNCHANGED <<listening, accepted, cur, queueVars, clientVars, stopVars, pc, i,
                   sendVars>>

PushJoin ==
    /\ main = "pick" /\ k > Handlers
    /\ ~locked[minId]
    /\ joins' = [joins EXCEPT ![minId] = Append(@, cur)]
    /\ count' = [count EXCEPT ![minId] = @ + 1]
    /\ main' = "run" /\ cur' = 0
    /\ UNCHANGED <<listening, accepted, minId, minClient, k, locked, clientVars, stopVars,
                   pc, i, sendVars>>

OnRun == PickCompare \/ PickTake \/ PushJoin

------------------------------------------------------------------------------
(* The main thread: Close, after listen or select failed or the user       *)
(* stopped the server.                                                     *)

CloseServer ==
    /\ main \in {"listen", "run"}
    /\ main' = "close" /\ listening' = FALSE /\ k' = 1
    /\ UNCHANGED <<accepted, cur, minId, minClient, queueVars, clientVars, stopVars, pc, i,
                   sendVars>>

\* Every client of a handler is deleted, which closes its socket if it is open.
DeleteClients(h) ==
    /\ fds' = fds \ Socks(clients[h])
    /\ sock' = [c \in Conns |-> IF c \in Elements(clients[h]) THEN 0 ELSE sock[c]]
    /\ deleted' = deleted \cup Elements(clients[h])
    /\ clients' = [clients EXCEPT ![h] = << >>]

StopHandler ==
    /\ main = "close" /\ k <= Handlers
    /\ running' = [running EXCEPT ![k] = FALSE]
    /\ main' = "wait"
    /\ UNCHANGED <<listening, accepted, cur, minId, minClient, k, queueVars, clientVars,
                   stopped, gone, pc, i, sendVars>>

\* Mistake: the handler's clients are not deleted with it.
DeleteHandlerOnly ==
    /\ main = "wait" /\ stopped[k]
    /\ gone' = gone \cup {k}
    /\ clients' = [clients EXCEPT ![k] = << >>]
    /\ k' = k + 1 /\ main' = "close"
    /\ UNCHANGED <<listening, accepted, cur, minId, minClient, queueVars, fds, sock,
                   created, deleted, hasChange, watched, running, stopped, pc, i, sendVars>>

DeleteHandler ==
    /\ main = "wait" /\ stopped[k]
    /\ DeleteClients(k)
    /\ gone' = gone \cup {k}
    /\ k' = k + 1 /\ main' = "close"
    /\ UNCHANGED <<listening, accepted, cur, minId, minClient, queueVars, created,
                   hasChange, watched, running, stopped, pc, i, sendVars>>

\* The queues are deleted with the entries they hold.
DeleteQueues ==
    /\ main = "close" /\ k > Handlers
    /\ joins' = [h \in H |-> << >>] /\ count' = [h \in H |-> 0]
    /\ main' = "closed"
    /\ UNCHANGED <<listening, accepted, cur, minId, minClient, k, locked, clientVars,
                   stopVars, pc, i, sendVars>>

CloseRest == StopHandler \/ DeleteHandler \/ DeleteQueues

------------------------------------------------------------------------------
(* A handler thread: new connections.                                      *)

Goto(h, from, to) == pc[h] = from /\ pc' = [pc EXCEPT ![h] = to]

\* Mistake: a handler with clients does not look at _isRunging.
StopWhenIdle(h) ==
    /\ Goto(h, "top", "stopped") /\ ~running[h] /\ clients[h] = << >>
    /\ stopped' = [stopped EXCEPT ![h] = TRUE]
    /\ UNCHANGED <<mainVars, queueVars, clientVars, running, gone, i, sendVars>>

Stop(h) ==
    /\ Goto(h, "top", "stopped") /\ ~running[h]
    /\ stopped' = [stopped EXCEPT ![h] = TRUE]
    /\ UNCHANGED <<mainVars, queueVars, clientVars, running, gone, i, sendVars>>

NoJoin(h) ==
    /\ Goto(h, "top", "check") /\ running[h] /\ count[h] = 0
    /\ UNCHANGED <<mainVars, queueVars, clientVars, stopVars, i, sendVars>>

\* Mistake: a handler with clients does not look at its queue.
LockQueueIdle(h) ==
    /\ Goto(h, "top", "drain") /\ running[h] /\ count[h] > 0
    /\ ~locked[h] /\ clients[h] = << >>
    /\ locked' = [locked EXCEPT ![h] = TRUE]
    /\ i' = [i EXCEPT ![h] = 1]
    /\ UNCHANGED <<mainVars, joins, count, clientVars, stopVars, sendVars>>

LockQueue(h) ==
    /\ Goto(h, "top", "drain") /\ running[h] /\ count[h] > 0
    /\ ~locked[h]
    /\ locked' = [locked EXCEPT ![h] = TRUE]
    /\ i' = [i EXCEPT ![h] = 1]
    /\ UNCHANGED <<mainVars, joins, count, clientVars, stopVars, sendVars>>

\* manualSize(-1) comes before push_back: in between GetClientNum is one short.
JoinUncount(h) ==
    /\ Goto(h, "drain", "join") /\ i[h] <= Len(joins[h])
    /\ count' = [count EXCEPT ![h] = @ - 1]
    /\ UNCHANGED <<mainVars, joins, locked, clientVars, stopVars, i, sendVars>>

JoinAdd(h) ==
    LET c == joins[h][i[h]] IN
    /\ Goto(h, "join", "drain")
    /\ clients' = [clients EXCEPT ![h] = Append(@, c)]
    /\ created' = created \cup {c}
    /\ i' = [i EXCEPT ![h] = @ + 1]
    /\ UNCHANGED <<mainVars, queueVars, fds, sock, deleted, hasChange, watched, stopVars,
                   sendVars>>

\* Mistake: the queue is unlocked and not cleared.
JoinsDoneKeep(h) ==
    /\ Goto(h, "drain", "check") /\ i[h] > Len(joins[h])
    /\ count' = [count EXCEPT ![h] = 0]
    /\ locked' = [locked EXCEPT ![h] = FALSE]
    /\ hasChange' = [hasChange EXCEPT ![h] = TRUE]
    /\ UNCHANGED <<mainVars, joins, fds, sock, clients, created, deleted, watched, stopVars,
                   i, sendVars>>

JoinsDone(h) ==
    /\ Goto(h, "drain", "check") /\ i[h] > Len(joins[h])
    /\ joins' = [joins EXCEPT ![h] = << >>]
    /\ count' = [count EXCEPT ![h] = 0]
    /\ locked' = [locked EXCEPT ![h] = FALSE]
    /\ hasChange' = [hasChange EXCEPT ![h] = TRUE]
    /\ UNCHANGED <<mainVars, fds, sock, clients, created, deleted, watched, stopVars, i,
                   sendVars>>

------------------------------------------------------------------------------
(* A handler thread: select and the clients.                               *)

NoClient(h) ==
    /\ Goto(h, "check", "top") /\ clients[h] = << >>
    /\ UNCHANGED <<mainVars, queueVars, clientVars, stopVars, i, sendVars>>

\* _fdRead_backup is rebuilt when the clients have changed.
Rebuild(h) ==
    /\ watched' = [watched EXCEPT ![h] = IF hasChange[h] THEN Socks(clients[h]) ELSE @]
    /\ hasChange' = [hasChange EXCEPT ![h] = FALSE]

Select(h) ==
    /\ Goto(h, "check", "serve") /\ clients[h] # << >>
    /\ Rebuild(h)
    /\ i' = [i EXCEPT ![h] = 1]
    /\ UNCHANGED <<mainVars, queueVars, fds, sock, clients, created, deleted, stopVars,
                   sendVars>>

SelectError(h) ==
    /\ Goto(h, "check", "top") /\ clients[h] # << >>
    /\ Rebuild(h)
    /\ DeleteClients(h)
    /\ UNCHANGED <<mainVars, queueVars, created, stopVars, i, sendVars>>

Serving(h) == pc[h] \in {"serve", "sent", "sending"} /\ i[h] <= Len(clients[h])

\* The sockets are blocking and select promises no more than some room, so the
\* send of the whole buffer in ProcessorSend waits for the peer to read.
SendWaits(h) ==
    /\ Serving(h) /\ pc[h] # "sending"
    /\ pc' = [pc EXCEPT ![h] = "sending"]
    /\ UNCHANGED <<mainVars, queueVars, clientVars, stopVars, i, sendVars>>

\* ProcessorRecv, if the socket is readable, and ProcessorSend succeed, at once or
\* after the send has waited.
ClientServed(h) ==
    /\ Serving(h)
    /\ pc' = [pc EXCEPT ![h] = "serve"]
    /\ i' = [i EXCEPT ![h] = @ + 1]
    /\ UNCHANGED <<mainVars, queueVars, clientVars, stopVars, sendVars>>

\* Mistake: _clientSock keeps the closed descriptor.
ClientFailsKeep(h) ==
    /\ Serving(h)
    /\ pc' = [pc EXCEPT ![h] = "erase"]
    /\ fds' = fds \ {sock[clients[h][i[h]]]}
    /\ UNCHANGED <<mainVars, queueVars, sock, clients, created, deleted, hasChange, watched,
                   stopVars, i, sendVars>>

\* One of them fails, and has closed the socket.
ClientFails(h) ==
    LET c == clients[h][i[h]] IN
    /\ Serving(h)
    /\ pc' = [pc EXCEPT ![h] = "erase"]
    /\ fds' = fds \ {sock[c]}
    /\ sock' = [sock EXCEPT ![c] = 0]
    /\ UNCHANGED <<mainVars, queueVars, clients, created, deleted, hasChange, watched,
                   stopVars, i, sendVars>>

\* Mistake: the set of descriptors is not rebuilt after a client was deleted.
EraseNoChange(h) ==
    /\ Goto(h, "erase", "serve")
    /\ deleted' = deleted \cup {clients[h][i[h]]}
    /\ clients' = [clients EXCEPT ![h] = Erased(@, i[h])]
    /\ UNCHANGED <<mainVars, queueVars, fds, sock, created, hasChange, watched, stopVars, i,
                   sendVars>>

\* Mistake: the client is deleted and its place in the list is kept.
EraseNot(h) ==
    /\ Goto(h, "erase", "serve")
    /\ deleted' = deleted \cup {clients[h][i[h]]}
    /\ i' = [i EXCEPT ![h] = @ + 1]
    /\ hasChange' = [hasChange EXCEPT ![h] = TRUE]
    /\ UNCHANGED <<mainVars, queueVars, fds, sock, clients, created, watched, stopVars,
                   sendVars>>

\* The destructor finds the socket closed.
Erase(h) ==
    /\ Goto(h, "erase", "serve")
    /\ deleted' = deleted \cup {clients[h][i[h]]}
    /\ clients' = [clients EXCEPT ![h] = Erased(@, i[h])]
    /\ hasChange' = [hasChange EXCEPT ![h] = TRUE]
    /\ UNCHANGED <<mainVars, queueVars, fds, sock, created, watched, stopVars, i, sendVars>>

ClientsDone(h) ==
    /\ Goto(h, "serve", "top") /\ i[h] > Len(clients[h])
    /\ UNCHANGED <<mainVars, queueVars, clientVars, stopVars, i, sendVars>>

------------------------------------------------------------------------------
(* Broadcast, called by OnMsgHandle while a client is served, walks the    *)
(* lists of all handlers without a lock.                                   *)

First(h) == IF clients[h] = << >> THEN 0 ELSE Head(clients[h])
After(h, c) ==
    LET j == CHOOSE n \in DOMAIN clients[h] : clients[h][n] = c
    IN  IF j = Len(clients[h]) THEN 0 ELSE clients[h][j + 1]

\* Broadcast looks at _serverSock once.
BroadcastBegin(h) ==
    /\ listening
    /\ Goto(h, "serve", "send") /\ Serving(h)
    /\ sock[clients[h][i[h]]] \in watched[h]
    /\ target' = [target EXCEPT ![h] = 1]
    /\ at' = [at EXCEPT ![h] = First(1)]
    /\ UNCHANGED <<mainVars, queueVars, clientVars, stopVars, i, undefined>>

BroadcastTo(h) ==
    /\ pc[h] = "send" /\ target[h] <= Handlers
    /\ IF target[h] \in gone \/ at[h] \in deleted
       THEN undefined' = h /\ UNCHANGED <<target, at>>
       ELSE /\ UNCHANGED undefined
            /\ IF at[h] # 0
               THEN /\ at' = [at EXCEPT ![h] = After(target[h], at[h])]
                    /\ UNCHANGED target
               ELSE /\ target' = [target EXCEPT ![h] = @ + 1]
                    /\ at' = [at EXCEPT ![h] =
                                IF target[h] < Handlers THEN First(target[h] + 1) ELSE 0]
    /\ UNCHANGED <<mainVars, queueVars, clientVars, stopVars, pc, i>>

BroadcastEnd(h) ==
    /\ Goto(h, "send", "sent") /\ target[h] > Handlers
    /\ UNCHANGED <<mainVars, queueVars, clientVars, stopVars, i, sendVars>>

HandleThread(h) ==
    \/ Stop(h) \/ NoJoin(h) \/ LockQueue(h) \/ JoinUncount(h) \/ JoinAdd(h) \/ JoinsDone(h)
    \/ NoClient(h) \/ Select(h) \/ SelectError(h) \/ SendWaits(h) \/ ClientServed(h)
    \/ ClientFails(h) \/ Erase(h) \/ ClientsDone(h)
    \/ BroadcastBegin(h) \/ BroadcastTo(h) \/ BroadcastEnd(h)

Next ==
    /\ undefined = 0
    /\ \/ Start \/ Accept \/ OnRun \/ CloseServer \/ CloseRest
       \/ \E h \in H : HandleThread(h)

Spec == Init /\ [][Next]_vars

\* Threads are scheduled, but for one in a send that waits: it goes on when its
\* peer reads or is gone, and nothing obliges the peer to do either.
FairSpec ==
    /\ Spec
    /\ WF_vars(undefined = 0 /\ (OnRun \/ CloseRest))
    /\ \A h \in H : WF_vars(undefined = 0 /\ pc[h] # "sending" /\ HandleThread(h))
------------------------------------------------------------------------------
(* Properties.                                                             *)

TypeOK ==
    /\ main \in {"init", "bind", "nosocket", "listen", "run", "pick", "take", "close", "wait",
                "closed"}
    /\ listening \in BOOLEAN /\ accepted \in 0 .. MaxConn /\ cur \in 0 .. MaxConn
    /\ minId \in H /\ minClient \in Nat /\ k \in 1 .. Handlers + 1
    /\ fds \subseteq Descriptors /\ sock \in [Conns -> Descriptors \cup {0}]
    /\ joins \in [H -> Seq(Conns)] /\ count \in [H -> Nat] /\ locked \in [H -> BOOLEAN]
    /\ clients \in [H -> Seq(Conns)]
    /\ created \subseteq Conns /\ deleted \subseteq Conns
    /\ hasChange \in [H -> BOOLEAN] /\ watched \in [H -> SUBSET Descriptors]
    /\ running \in [H -> BOOLEAN] /\ stopped \in [H -> BOOLEAN] /\ gone \subseteq H
    /\ pc \in [H -> {"none", "top", "drain", "join", "check", "serve", "sending", "erase", "send",
                     "sent", "stopped"}]
    /\ i \in [H -> Nat \ {0}]
    /\ target \in [H -> 1 .. Handlers + 1] /\ at \in [H -> 0 .. MaxConn]
    /\ undefined \in 0 .. Handlers

\* A descriptor belongs to one connection at a time, and to one that is still
\* open: closing a client can never close another one's connection, although
\* descriptors are reused as soon as they are closed, and no descriptor is lost.
OwnDescriptor ==
    LET live == {c \in Conns : sock[c] # 0} IN
    /\ \A c, e \in live : sock[c] = sock[e] => c = e
    /\ {sock[c] : c \in live} = fds

\* The state is well typed, and a connection is in one place: in the main
\* thread's hands, in one queue or in one handler's list, once.
Queued(h) == IF pc[h] \in {"drain", "join"} THEN SubSeq(joins[h], i[h], Len(joins[h]))
             ELSE joins[h]
Entries(s, c) == {n \in DOMAIN s : s[n] = c}
InHand(c) == {<<"main", 0, 0>> : e \in {cur} \cap {c}}
InQueue(c) == UNION {{<<"queue", h, n>> : n \in Entries(Queued(h), c)} : h \in H}
InList(c) == UNION {{<<"list", h, n>> : n \in Entries(clients[h], c)} : h \in H}
OnePlace == TypeOK /\ \A c \in Conns : Cardinality(InHand(c) \cup InQueue(c) \cup InList(c)) <= 1

\* While a handler serves its clients and none of them has failed, the set it
\* gave to select is that of its clients' open sockets: INVALID_SOCKET is not
\* among them, nor a descriptor that is somebody else's by now.
WatchedAreClients ==
    \A h \in H :
        pc[h] \in {"serve", "sending", "send", "sent"} /\ ~hasChange[h] =>
            watched[h] = Socks(clients[h]) /\ 0 \notin watched[h]

\* Only a Broadcast to another handler's clients, or to a handler Close has
\* deleted meanwhile, can meet a deleted object; a handler's own are safe.
OwnClientsSafe == undefined # 0 => target[undefined] # undefined

\* Close closes every connection a handler has ever taken over.  The ones still
\* in a queue stay open.
TakenAreClosed == main = "closed" => \A c \in created : sock[c] = 0

\* A connection queued for a handler is taken over, unless the server closes or
\* that handler's thread is kept in a send for ever, by a client that does not
\* read: nothing else, no other handler and no Broadcast, can hold it up.
JoinIsServed ==
    \A c \in Conns, h \in H :
        \/ c \in Elements(joins[h]) ~> (c \in created \/ ~listening \/ undefined # 0)
        \/ <>[](pc[h] = "sending")

\* Close comes to its end, unless a destructor spins for ever because its thread
\* is kept in a send.
CloseEnds ==
    \/ main = "close" ~> (main = "closed" \/ undefined # 0)
    \/ <>[](main = "wait" /\ pc[k] = "sending")
==============================================================================
