------------------------------ MODULE MCDerpMesh ------------------------------
(* A mesh of four servers, seen from one of them.                          *)
EXTENDS DerpMesh

=============================================================================
