---------------------------- MODULE MCPeriodClose ----------------------------
(* Model-checking instances of PeriodClose.                                  *)
EXTENDS PeriodClose, TLC

Symmetry == Permutations(Readers)
=============================================================================
