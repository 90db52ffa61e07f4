------------------------- MODULE MCPositionMonitor -------------------------
(* Instances of PositionMonitor for TLC: positions are model values. *)
EXTENDS PositionMonitor
=============================================================================
