---------------------------- MODULE MCEdgeCache ----------------------------
(* TLC instances of EdgeCache. *)
EXTENDS EdgeCache, TLC

CONSTANTS r1, r2

\* s-maxage 5 minutes and 1 hour, max-age 1 and 10 minutes: the order is kept,
\* not the ratio.
Edges == [k \in Resources |-> IF k = "trail" THEN 3 ELSE 2]
Browsers == [k \in Resources |-> IF k = "trail" THEN 2 ELSE 1]

Symmetry == Permutations(Readers)
=============================================================================
