---------------------------- MODULE MCControlAuto ----------------------------
(* Instances of ControlAuto for TLC.                                       *)
EXTENDS ControlAuto

=============================================================================
