---------------------------- MODULE MCTaskQueue -----------------------------
(* Instances of the task queue for TLC. *)
EXTENDS TaskQueueRefinement, TLC

CONSTANTS f1, f2, f3, a1, a2, a3, a4, a5

MCSymmetry == Permutations({a1, a2, a3, a4, a5}) \cup Permutations({f1, f2, f3})

=============================================================================
