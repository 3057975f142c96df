--------------------------- MODULE MCGCEvaluation ---------------------------
(* Small clusters for GCEvaluation: object names are interchangeable.      *)
EXTENDS GCEvaluation, TLC

Symmetry == Permutations(Names)
=============================================================================
