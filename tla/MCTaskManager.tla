--------------------------- MODULE MCTaskManager ---------------------------
(* TaskManager for TLC. *)
EXTENDS TaskManager, TLC

Symmetry == Permutations(Tasks) \cup Permutations(Workers) \cup Permutations(Handlers)
=============================================================================
