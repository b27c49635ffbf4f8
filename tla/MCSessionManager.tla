-------------------------- MODULE MCSessionManager --------------------------
(***************************************************************************)
(* SessionManager for TLC: clients and connections are interchangeable,    *)
(* nothing in the specification chooses one of them.                       *)
(***************************************************************************)
EXTENDS SessionManager, TLC

Symmetry == Permutations(ClientId) \cup Permutations(Connection)
=============================================================================
