--------------------------- MODULE MCUpdatePolicy ---------------------------
(* Instances of UpdatePolicy for TLC.                                      *)
EXTENDS UpdatePolicy

(* Every combination of unattended mode and the always-on policy.          *)
AllModes == Settings

(* A desktop, or a machine that runs unattended.                           *)
Unmanaged == [unattended : BOOLEAN, alwaysOn : {FALSE}]

(* A desktop whose administrator has set the always-on policy.             *)
ManagedDesktop == {[unattended |-> FALSE, alwaysOn |-> TRUE]}

=============================================================================
