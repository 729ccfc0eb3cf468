-------------------------- MODULE MCExecutorService --------------------------
(* Instances of ExecutorService for TLC. *)
EXTENDS ExecutorService, TLC

Symmetry ==
  Permutations(Workers) \cup Permutations(Runnables) \cup Permutations(Funcs)
=============================================================================
