------------------------------ MODULE MCLogTail ------------------------------
(* Instances of LogTail for TLC.                                           *)
EXTENDS LogTail

=============================================================================
