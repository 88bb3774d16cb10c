------------------------------- MODULE MCNode -------------------------------
(***************************************************************************)
(* The vertex universes of MCDAG, for a node.                              *)
(***************************************************************************)
EXTENDS Node, MCDAG

\* Peers prefer b's ordering of v0 and v1.
PeersOfB == {"gen", "v0", "v1", "b", "b2"}

PairContent == [h \in ContestHash \ {"a2", "b2", "s"} |-> ContestContent[h]]

PairHash == DOMAIN PairContent
=============================================================================
