------------------------- MODULE MCPasswordRotation -------------------------
(* Instances of PasswordRotation for TLC.                                  *)
EXTENDS PasswordRotation

(* A run may be interrupted between any two of its steps.                  *)
EveryPoint == ProgramPoints \ {"idle"}

=============================================================================
