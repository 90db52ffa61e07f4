---------------------------- MODULE MCExecution ----------------------------
(* Instances of Execution for TLC: executors and requests are model values,  *)
(* interchangeable where no liveness is checked.                             *)
EXTENDS Execution, TLC

Symmetry == Permutations(Request) \cup Permutations(Executor)
=============================================================================
