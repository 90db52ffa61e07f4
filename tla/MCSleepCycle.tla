---------------------------- MODULE MCSleepCycle ----------------------------
(* Two Fridays, two weekends and the openings after them, tick by tick.      *)
EXTENDS SleepCycle

FridayNoon == Day * Friday + 4
SecondOpen == Day * (7 + Sunday) + OpenTime

\* The instance is one that the theorem about the weekly review speaks of.
ASSUME InstanceAssumption == LongWeekend
=============================================================================
