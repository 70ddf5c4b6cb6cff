------------------------------ MODULE EchoSystem -----------------------------
(***************************************************************************)
(* The programs ServerTest (Server01) and ClientTest (Client02) together:  *)
(* two single threads that talk over blocking sockets.                     *)
(***************************************************************************)
EXTENDS SelectServer, SelectClient

vars == <<sockets, serverVars, clientVars>>

Init == SocketsInit /\ ServerInit /\ ClientInit

Server == ServerNext /\ UNCHANGED clientVars
Client == MainThread /\ UNCHANGED serverVars
User == inputThread /\ UNCHANGED serverVars

Next == Server \/ Client \/ User

\* Both threads are scheduled as long as they can go on; the user may never
\* stop the clients.
Spec == Init /\ [][Next]_vars /\ WF_vars(Server) /\ WF_vars(Client)

------------------------------------------------------------------------------
(* Safety.                                                                 *)

TypeOK == SocketsTypeOK /\ ServerTypeOK /\ ClientTypeOK

\* The sockets are blocking ones, so accept and recv must not be called where
\* nothing has come: accept waits only before the first client (the quirk of
\* select with no descriptor to look at), and every client select has named
\* still has something to be received when its turn comes.
OnlySendBlocks ==
    /\ spc = "accept" /\ Backlog = {} => clients = << >> /\ maxSock = INVALID_SOCKET
    /\ \A k \in DOMAIN clients :
          spc \in {"accept", "serve"} /\ k >= pos /\ sock[clients[k]] \in fdRead
             => ServerReadable(clients[k])

\* The clients the server keeps are the connections it has accepted and not
\* closed, each once and with its own descriptor; select is given these and no
\* closed one (which would fail it and end the server); when the server has
\* closed, nothing is left open or waiting in the backlog.
Registered ==
    /\ TypeOK
    /\ Listed = {c \in Clients : serverEnd[c] = "open"}
    /\ Cardinality(Listed) = Len(clients) /\ Cardinality(Socks) = Len(clients)
    /\ \A c \in Clients : sock[c] = INVALID_SOCKET <=> c \notin Listed
    /\ spc # "closed" /\ ~change => backup = {ServerSock} \cup Socks
    /\ ~listening => Listed \cup Backlog = {}

------------------------------------------------------------------------------
(* Liveness.                                                               *)

\* Both wait in send, each for the other to receive.
MutualWait == ServerWaits /\ ClientWaits

\* Every connection leaves the backlog and every send of a client returns,
\* unless both programs come to wait in send for ever.  (select finds room
\* before the server sends, and the blocking send then passes on a whole
\* buffer; a client receives and sends in one thread.)
OnlyMutualWait ==
    \/ /\ []<>(cpc # "send")
       /\ \A c \in Clients : []<>(serverEnd[c] # "backlog")
    \/ <>[]MutualWait
==============================================================================
