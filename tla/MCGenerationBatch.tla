------------------------- MODULE MCGenerationBatch -------------------------
(* GenerationBatch on small instances. *)
EXTENDS GenerationBatch, TLC
=============================================================================
