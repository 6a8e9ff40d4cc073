--------------------------- MODULE MCUsagePipeline ---------------------------
(* A small instance of UsagePipeline: one dimension of each family.         *)
EXTENDS UsagePipeline
=============================================================================
