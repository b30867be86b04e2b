-------------------------- MODULE MCGenerationJob --------------------------
(* GenerationJob and its contract on small instances. *)
EXTENDS GenerationJobContract, TLC

Symmetry == Permutations(Workers) \cup Permutations(Outputs)
=============================================================================
