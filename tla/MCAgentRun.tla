----------------------------- MODULE MCAgentRun -----------------------------
(* Model-checking instances of AgentRun.                                     *)
EXTENDS AgentRun, TLC

Symmetry == Permutations(Runs) \cup Permutations(Paths)
=============================================================================
