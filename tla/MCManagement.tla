---------------------------- MODULE MCManagement ----------------------------
(* Instances of Management for TLC: executors are model values.            *)
EXTENDS Management

\* The stop the trade is opened with, and the lowest quote: hard risk is reached.
Minus1 == -1
=============================================================================
