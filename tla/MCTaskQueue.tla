----------------------------- MODULE MCTaskQueue -----------------------------
(* The task queue with two nodes and four task ids. *)
EXTENDS TaskQueue, TLC

\* Nodes and task ids are interchangeable.
QueueSymmetry == Permutations(Node) \union Permutations(Task)

=============================================================================
