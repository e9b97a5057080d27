------------------------------ MODULE MiniMap ------------------------------
(***************************************************************************)
(* Where a concept's neighbours stand on its mini-map, and what the        *)
(* pointer finds there.  The layout is arithmetic over three counts: the   *)
(* prerequisites in a left column, what it unlocks in a right one, the     *)
(* adjacent along the top and bottom edges, alternating.                   *)
(***************************************************************************)
EXTENDS Integers, FiniteSets, FiniteSetsExt

CONSTANTS
  MaxColumn, \* bound: neighbours in a column
  MaxRow     \* bound: adjacent neighbours

W == 240
H == 132
columnInset == 40
rowInset == 22
MaxRadius == 11 \* hitRadius's default

VARIABLES requires, unlocks, adjacent \* how many of each the concept has

vars == <<requires, unlocks, adjacent>>

-----------------------------------------------------------------------------
\* math.Round / Math.round of a / b, for positive operands.
Round(a, b) == (2 * a + b) \div (2 * b)

\* The i-th of n spread over a length: n items make n + 1 gaps.
Spread(length, i, n) == Round(length * i, n + 1)

column(name, n, x) == {[group |-> name, i |-> i, x |-> x, y |-> Spread(H, i, n)] : i \in 1..n}

row(n) ==
  {[group |-> "adjacent", i |-> i, x |-> Spread(W, i, n),
    y |-> IF i % 2 = 1 THEN rowInset ELSE H - rowInset] : i \in 1..n}

Center == [group |-> "center", i |-> 0, x |-> W \div 2, y |-> H \div 2]

Nodes == column("requires", requires, columnInset)
         \cup column("unlocks", unlocks, W - columnInset)
         \cup row(adjacent)
Targets == Nodes \cup {Center}

-----------------------------------------------------------------------------
\* Squared distance, and hitRadius as its square times four: half the closest
\* gap, at most MaxRadius.
Gap(p, q) == (p.x - q.x) * (p.x - q.x) + (p.y - q.y) * (p.y - q.y)
Pairs == {pq \in Targets \X Targets : pq[1] # pq[2]}

Diameter2 == Min({4 * MaxRadius * MaxRadius} \cup {Gap(pq[1], pq[2]) : pq \in Pairs})

-----------------------------------------------------------------------------
Init == requires = 0 /\ unlocks = 0 /\ adjacent = 0

\* The content gains an edge.
AddRequires == requires < MaxColumn /\ requires' = requires + 1 /\ UNCHANGED <<unlocks, adjacent>>
AddUnlocks == unlocks < MaxColumn /\ unlocks' = unlocks + 1 /\ UNCHANGED <<requires, adjacent>>
AddAdjacent == adjacent < MaxRow /\ adjacent' = adjacent + 1 /\ UNCHANGED <<requires, unlocks>>

Next == AddRequires \/ AddUnlocks \/ AddAdjacent

Spec == Init /\ [][Next]_vars

-----------------------------------------------------------------------------
\* MiniMap.tsx: "Halving the closest gap makes the boundary the true midpoint,
\* and keeps it that way at densities the graph has not reached yet."  So every
\* dot has a hit area.
EveryDotCanBePointedAt == Diameter2 > 0
=============================================================================
