---------------------------- MODULE MessageChannel ----------------------------
(***************************************************************************)
(* What a connection promises: the receiver is handed the sender's         *)
(* messages whole, in order, without loss, repetition or invention.        *)
(***************************************************************************)
EXTENDS Naturals, Sequences

CONSTANT Messages
VARIABLES sent, received

TypeOK == sent \in Seq(Messages) /\ received \in Seq(Messages)

Init == sent = << >> /\ received = << >>

Send ==
    /\ \E m \in Messages : sent' = Append(sent, m)
    /\ UNCHANGED received

Deliver ==
    /\ Len(received) < Len(sent)
    /\ received' = Append(received, sent[Len(received) + 1])
    /\ UNCHANGED sent

Next == Send \/ Deliver

Spec == Init /\ [][Next]_<<sent, received>>
==============================================================================
