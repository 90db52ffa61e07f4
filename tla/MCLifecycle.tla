---------------------------- MODULE MCLifecycle ----------------------------
(* Instances of Lifecycle for TLC: services, versions and ticks are numbers. *)
EXTENDS Lifecycle

\* The second version of main does not pass its preflight.
Versions == {1, 2, 3}
Sound == {1, 3}
=============================================================================
