------------------------------ MODULE MCDeploy ------------------------------
(* TLC instances of Deploy. *)
EXTENDS Deploy, TLC

CONSTANTS a, b

\* One concept replaced by another, a commit that does not derive, then both.
Swap == 1 :> {a} @@ 2 :> {b} @@ 3 :> {} @@ 4 :> {a, b}
=============================================================================
