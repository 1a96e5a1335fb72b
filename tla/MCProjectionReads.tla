-------------------------- MODULE MCProjectionReads --------------------------
(* Model-checking instances of ProjectionReads.                              *)
EXTENDS ProjectionReads, TLC

Symmetry == Permutations(Registers)
=============================================================================
