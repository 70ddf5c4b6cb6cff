------------------------- MODULE MC_ClientSocketSend --------------------------
(* ClientSocketSend for TLC: two threads besides the handler. *)
EXTENDS ClientSocketSend

CONSTANTS s1, s2
==============================================================================
