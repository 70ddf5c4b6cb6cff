---------------------------- MODULE EasyTcpSystem ----------------------------
(***************************************************************************)
(* The programs of EasyTcpServer and EasyTcpClient together.               *)
(***************************************************************************)
EXTENDS EasyTcpServer, EasyTcpClient

vars == <<sockets, serverVars, clientVars>>

Init == SocketsInit /\ ServerInit /\ ClientInit

Server == MainThread /\ UNCHANGED clientVars
Cell(h) == OnRunCell(h) /\ UNCHANGED clientVars
Sender(id) == sendThread(id) /\ UNCHANGED serverVars
Ends ==
    \/ ServerEnds /\ UNCHANGED clientVars
    \/ (cmdThread \/ MainReturns) /\ UNCHANGED serverVars

Next ==
    \/ Server \/ Ends
    \/ \E h \in Cells : Cell(h)
    \/ \E id \in Threads : Sender(id)

\* Every thread is scheduled as long as it can go on; that a user ends a program
\* or that select fails is possible at any time and never certain.
Spec ==
    /\ Init /\ [][Next]_vars
    /\ WF_vars(Server)
    /\ \A h \in Cells : WF_vars(Cell(h))
    /\ \A id \in Threads : WF_vars(Sender(id))

------------------------------------------------------------------------------
(* Safety.                                                                 *)

TypeOK ==
    /\ SocketsTypeOK
    /\ apc \in {"init", "run", "add", "join", "exit", "gone"}
    /\ accepted \in Clients \cup {NoClient} /\ clientCount \in Int
    /\ pc \in [Cells -> {"init", "loop", "select", "pass", "parse", "reply", "end"}]
    /\ buff \in [Cells -> Seq(Clients)] /\ list \in [Cells -> Seq(Clients)]
    /\ ready \in [Cells -> SUBSET Clients] /\ n \in [Cells -> Nat]
    /\ lastPos \in [Clients -> 0 .. MsgBufSize] /\ left \in [Cells -> 0 .. MsgLen]
    /\ tpc \in [Threads -> {"connect", "send", "sending", "close", "end"}]
    /\ turn \in [Threads -> 1 .. cCount + 1] /\ toSend \in [Threads -> 0 .. SendLen]
    /\ g_bRun \in BOOLEAN

\* The places clients have in the cells, taken over or not.
Places == UNION {{h} \X (1 .. getClientCount(h)) : h \in Cells}

\* The count of clients is that of the places they have in the cells, but for
\* the one whose joining is not yet counted when its cell has it, and may even
\* have lost it again; only a cell whose select failed leaves its clients
\* counted.
CountOK ==
    /\ TypeOK
    /\ LET late == IF apc = "join" THEN 1 ELSE 0 IN
          /\ clientCount + late >= Cardinality(Places)
          /\ (\A h \in Cells : pc[h] # "end") => clientCount + late = Cardinality(Places)

\* The descending pass, which erases clients on its way, gives every client its
\* turn once: it stays within the list, a recv finds what select has seen, and
\* there is room for it behind a cut message.
RecvIsSafe ==
    \A h \in Cells : Passing(h) =>
       /\ n[h] <= Len(list[h])
       /\ Turn(h) \in ready[h] => ServerReadable(Turn(h))
       /\ lastPos[Turn(h)] + RecvMax <= MsgBufSize

------------------------------------------------------------------------------
(* Liveness.                                                               *)

\* A client handed to a cell is taken over, unless the cell's thread has ended or
\* waits for ever: select has no time limit and does not look at the new
\* clients, so one of these can keep the send thread waiting, and with it the
\* old clients silent.
NewClientsTaken ==
    \A h \in Cells :
       \/ []<>(buff[h] = << >>)
       \/ <>[](pc[h] = "end")
       \/ <>[](CellWaits(h) /\ \E id \in Threads : SenderWaits(id))
==============================================================================
