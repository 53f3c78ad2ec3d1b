---------------------------- MODULE MCDerpClients ----------------------------
(* Three connections of one client and one of a mesh peer.                 *)
EXTENDS DerpClients

CONSTANTS a1, a2, a3, w, alice, peer

MCKeys  == {alice, peer}
MCKeyOf == [c \in Conns |-> IF c = w THEN peer ELSE alice]

=============================================================================
