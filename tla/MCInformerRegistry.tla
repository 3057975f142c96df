------------------------ MODULE MCInformerRegistry --------------------------
(* Two targets of one irregular kind, and one target of each of two kinds.  *)
EXTENDS InformerRefinement, TLC

CONSTANTS w1, w2, p1, k1, k2, crd, pod

SameKind == [k \in Keys |-> crd]
OwnKind  == [k \in Keys |-> IF k = k1 THEN crd ELSE pod]

Symmetry == Permutations(Workers) \cup Permutations(Keys)
=============================================================================
