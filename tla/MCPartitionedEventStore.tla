---------------------- MODULE MCPartitionedEventStore ----------------------
(* Model-checking instance of PartitionedEventStore.                        *)
EXTENDS PartitionedEventStore, TLC

Symmetry == Permutations(Procs) \cup Permutations(Ids) \cup Permutations(Paths)
=============================================================================
