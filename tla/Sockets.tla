------------------------------- MODULE Sockets -------------------------------
(***************************************************************************)
(* TCP connections as the select programs use them: the kernel, not part   *)
(* of the repository.  Sockets are blocking.  A connection carries units   *)
(* in both directions; the two kernel buffers of a direction together hold *)
(* Capacity units.                                                         *)
(***************************************************************************)
EXTENDS Naturals

CONSTANTS
    Clients,        \* connections, one per client object
    Capacity        \* units the kernel holds in each direction

ASSUME SocketsAssumption == Capacity \in Nat \ {0}

VARIABLES
    listening,      \* connections to the server are accepted into its backlog
    clientEnd,      \* each connection's socket in the client program
    serverEnd,      \* its socket in the server, which begins in the backlog
    up, down        \* units on their way to the server and to the client

sockets == <<listening, clientEnd, serverEnd, up, down>>

SocketsInit ==
    /\ listening = FALSE
    /\ clientEnd = [c \in Clients |-> "none"]
    /\ serverEnd = [c \in Clients |-> "none"]
    /\ up = [c \in Clients |-> 0] /\ down = [c \in Clients |-> 0]

SocketsTypeOK ==
    /\ listening \in BOOLEAN
    /\ clientEnd \in [Clients -> {"none", "open", "closed"}]
    /\ serverEnd \in [Clients -> {"none", "backlog", "open", "closed"}]
    /\ up \in [Clients -> 0 .. Capacity] /\ down \in [Clients -> 0 .. Capacity]

\* recv returns at once: there are units to take, or the peer has closed.
ServerReadable(c) == up[c] > 0 \/ clientEnd[c] = "closed"
ClientReadable(c) == down[c] > 0 \/ serverEnd[c] = "closed"

\* send makes progress at once: there is room, or the peer has closed.
ServerWritable(c) == down[c] < Capacity \/ clientEnd[c] = "closed"
ClientWritable(c) == up[c] < Capacity \/ serverEnd[c] = "closed"

\* recv may return any part of what has arrived.
AtMost(n, most) == 1 .. (IF n < most THEN n ELSE most)

\* close, or the end of the process, ends connections on one side; what they
\* have yet to be received there is gone.
ServerCloses(C) ==
    /\ serverEnd' = [c \in Clients |-> IF c \in C /\ serverEnd[c] # "none" THEN "closed"
                                       ELSE serverEnd[c]]
    /\ up' = [c \in Clients |-> IF c \in C THEN 0 ELSE up[c]]
ClientCloses(C) ==
    /\ clientEnd' = [c \in Clients |-> IF c \in C THEN "closed" ELSE clientEnd[c]]
    /\ down' = [c \in Clients |-> IF c \in C THEN 0 ELSE down[c]]
==============================================================================
