---------------------------- MODULE MCQuotaPolicy ----------------------------
(* Instances of QuotaPolicy for TLC.                                       *)
EXTENDS QuotaPolicy

(* A rate above the throttle rate, a quota of one byte that blocks, and a  *)
(* quota that is used up and throttles.                                    *)
SomePolicies ==
    {[rate |-> 3, quota |-> 0, month |-> 0, action |-> "alert"],
     [rate |-> 0, quota |-> 1, month |-> 1, action |-> "block"],
     [rate |-> 3, quota |-> 1, month |-> 2, action |-> "throttle"]}

=============================================================================
