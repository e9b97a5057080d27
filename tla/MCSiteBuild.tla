---------------------------- MODULE MCSiteBuild ----------------------------
(***************************************************************************)
(* TLC instances of SiteBuild: every small graph with one plain site, and  *)
(* no edges with every naming of the domains and every small lemniscate,   *)
(* a part of which may be missing.                                         *)
(***************************************************************************)
EXTENDS SiteBuild

\* A plural, a separator, and names with one address or none.
MCKey == [n \in {"Text", "Texts", "A&B", "A-B", "!"} |->
            CASE n \in {"Text", "Texts"} -> "text" [] n = "A&B" -> "a&b" [] n = "A-B" -> "ab" [] OTHER -> "!"]
MCSlug == [n \in {"Text", "Texts", "A&B", "A-B", "!"} |->
             CASE n = "Text" -> "text" [] n = "Texts" -> "texts" [] n = "!" -> "" [] OTHER -> "a-b"]

Bead(id, t, label) == [id |-> id, t |-> t, label |-> label]
Thread == [left |-> <<Bead(1, "fraction", "yes")>>, right |-> <<Bead(2, "fraction", "no")>>, chips |-> <<1, 3>>]

Plain == [domain |-> [c \in Concepts |-> <<IF c = 3 THEN "A-B" ELSE "Text", "Text">>],
          tier |-> [c \in Concepts |-> IF c = 1 THEN "verified" ELSE "frontier"],
          updated |-> [c \in Concepts |-> c], layout |-> Thread, edges |-> 3]

Beads == {Bead(id, "fraction", "yes") : id \in Concepts \cup {Ghost}}
           \cup {Bead(2, "2", "yes"), Bead(2, "fraction", "none")}

MCInputs ==
  {Plain}
  \cup {[Plain EXCEPT !.domain = d, !.edges = 0] : d \in [Concepts -> (DOMAIN MCKey) \X {"Text", "Texts"}]}
  \cup {[Plain EXCEPT !.layout.left = l, !.layout.right = r, !.layout.chips = chips, !.edges = 0] :
          l \in {<<>>} \cup {<<b>> : b \in Beads}, chips \in {<<>>, <<1>>, <<1, 1>>, <<Ghost>>},
          r \in {<<>>} \cup {<<a, b>> : a, b \in Beads}}
  \cup {[Plain EXCEPT !.layout = [p \in there |-> Thread[p]], !.edges = 0] : there \in SUBSET parts}
=============================================================================
