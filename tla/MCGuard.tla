------------------------------- MODULE MCGuard ------------------------------
(* Instances of Guard for TLC: two executors, one symbol, orders of both kinds. *)
EXTENDS Guard, TLC

AllOnGold == [r \in Request |-> "gold"]
Symmetry == Permutations(Executor) \cup Permutations(Market)
=============================================================================
