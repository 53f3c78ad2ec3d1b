------------------------- MODULE MCAccountCredential -------------------------
(* Instances of AccountCredential for TLC.                                 *)
EXTENDS AccountCredential, TLC

(* The handlers are interchangeable.                                       *)
HandlerSymmetry == Permutations(Handlers)

=============================================================================
