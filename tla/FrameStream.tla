----------------------------- MODULE FrameStream -----------------------------
(***************************************************************************)
(* What reading frames off a connection promises: the packets a client     *)
(* sent are handed to the packet decoder whole, in order, each once.       *)
(***************************************************************************)
EXTENDS Naturals, Sequences

CONSTANT Packet

VARIABLES
    sent,       \* packets the client sent
    delivered   \* frames handed to the packet decoder

vars == <<sent, delivered>>

Init == sent = <<>> /\ delivered = <<>>

send(p) == sent' = Append(sent, p) /\ UNCHANGED delivered

deliver ==
    /\ Len(delivered) < Len(sent)
    /\ delivered' = Append(delivered, sent[Len(delivered) + 1])
    /\ UNCHANGED sent

Next == (\E p \in Packet : send(p)) \/ deliver

Spec == Init /\ [][Next]_vars

Fairness == WF_vars(deliver)
=============================================================================
