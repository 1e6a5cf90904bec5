--------------------------- MODULE MCPgsqlStorage ---------------------------
(* Small instances of PgsqlStorage for TLC.                                 *)
EXTENDS PgsqlStorage, TLC

CONSTANTS s1, s2, k1, k2, d1, c1, c2

Symmetry == Permutations({s1, s2}) \cup Permutations({k1, k2}) \cup Permutations({c1, c2})
=============================================================================
