------------------------------ MODULE MCWatchdog ------------------------------
(* The watchdog with two nodes. *)
EXTENDS Watchdog, TLC

\* Nodes are interchangeable.
NodeSymmetry == Permutations(Node)

=============================================================================
