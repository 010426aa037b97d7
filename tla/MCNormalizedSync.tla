-------------------------- MODULE MCNormalizedSync --------------------------
(* NormalizedSync for TLC: queries, keys and values are interchangeable. *)
EXTENDS NormalizedSync, TLC

CONSTANTS q1, q2, q3, k1, k2, c1, c2, v1, v2

Perms == Permutations(Query) \cup Permutations(Key) \cup Permutations(Col) \cup Permutations(Val)

=============================================================================
