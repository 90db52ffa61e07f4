--------------------------- MODULE MCPendingWatch ---------------------------
(* Instances of PendingWatch for TLC. *)
EXTENDS PendingWatch, TLC

Symmetry == Permutations(Request) \cup Permutations(Executor)
=============================================================================
