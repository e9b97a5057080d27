--------------------------- MODULE MCTrailClient ---------------------------
(***************************************************************************)
(* Readers with two tabs, for TLC. One shares, while a deploy takes a      *)
(* concept out, and may adopt what was shared; one does so with the only   *)
(* concept there is, in a browser that keeps pages to come Back to; one,   *)
(* in a browser that does not lock storage, may adopt a walk somebody else *)
(* shared; one changes depths.                                             *)
(***************************************************************************)
EXTENDS TrailClient, TLC

CONSTANTS c1, c2, c3, math

\* In an order no visit here would give it.
OneWalk == <<[id |-> c2, depth |-> Initial], [id |-> c1, depth |-> Initial]>>

Sharing == [locking |-> TRUE, keeping |-> FALSE, opens |-> Concepts, depths |-> {Initial}, maxStops |-> 2,
            shared |-> {}, sharers |-> Tabs, doomed |-> {c2}]

Keeping == [Sharing EXCEPT !.keeping = TRUE, !.sharers = {}, !.doomed = {}]

MCSessions ==
  {Sharing,
   [Sharing EXCEPT !.keeping = TRUE, !.opens = {c2}],
   [Keeping EXCEPT !.locking = FALSE, !.shared = {OneWalk}],
   [Keeping EXCEPT !.opens = {c1, c2}, !.depths = {Initial, math}]}

\* Without is the filter it stands for.
Small == SeqOf([id : Concepts, depth : {Initial}], 3)
ASSUME WithoutAssumption ==
  \A trail \in Small, ids \in SUBSET Concepts :
    Without(trail, ids) = SelectSeq(trail, LAMBDA s : s.id \notin ids)

TabSymmetry == Permutations(Tabs)
=============================================================================
