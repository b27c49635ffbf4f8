--------------------------- MODULE MCPacketFlow ---------------------------
(***************************************************************************)
(* PacketFlow for TLC: the strings, sequences of bytes, are given here.    *)
(***************************************************************************)
EXTENDS PacketFlow

MCString == {<<>>, <<NUL>>, <<97>>}

\* Topics and filters: legal ones, and ones with a wildcard in a wrong place.
MCTopicString == {<<>>, <<NUL>>, <<97>>, <<Plus>>, <<97, Plus>>, <<Plus, Slash>>, <<Hash, Slash>>}
=============================================================================
