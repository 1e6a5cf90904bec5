---------------------------- MODULE MCPgsqlPool ----------------------------
(* Small instances of PgsqlPool for TLC.                                    *)
EXTENDS PgsqlPool, TLC

CONSTANTS w1, w2, w3

Two   == {w1, w2}
Three == {w1, w2, w3}

(* Sound for the safety runs: workers differ in nothing but their name. *)
Symmetry == Permutations(Three)
=============================================================================
