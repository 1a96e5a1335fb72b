--------------------------- MODULE MCPostgresSync ---------------------------
(* Model-checking instances of PostgresSync.                                 *)
EXTENDS PostgresSync, TLC

CONSTANTS h1, h2, s1, s2, s3

\* Two syncs on the first host, one on the second.
Placement == [s \in Syncs |-> IF s = s3 THEN h2 ELSE h1]

Symmetry == Permutations(Ids) \cup Permutations(Syncs \ {s3})
=============================================================================
