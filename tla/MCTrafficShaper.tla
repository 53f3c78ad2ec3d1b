--------------------------- MODULE MCTrafficShaper ---------------------------
(* Instances of TrafficShaper for TLC.                                     *)
EXTENDS TrafficShaper

(* No limits, limits below one byte per second, a limit on one direction   *)
(* only whose burst is cut off at MaxBurst.                                *)
SomeLimits ==
    {NoLimits, [d \in Dirs |-> 4],
     [d \in Dirs |-> IF d = "upload" THEN 48 ELSE 0]}

=============================================================================
