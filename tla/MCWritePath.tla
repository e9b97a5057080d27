---------------------------- MODULE MCWritePath ----------------------------
(***************************************************************************)
(* A small instance of WritePath for TLC: two walks over two concepts, one *)
(* of which names both, so a deploy can take a stop away from one walk or  *)
(* from both. The first post may be anything, the second is of the longer  *)
(* walk, the third is a request: two posts for the same walk, and one more *)
(* than two days have slots for.                                           *)
(***************************************************************************)
EXTENDS WritePath

CONSTANTS c1, c2, w1, w2, p1, p2, p3

MCStopsOf == [w \in {w1, w2} |-> IF w = w1 THEN {c1} ELSE {c1, c2}]

MCNext ==
  /\ Next
  /\ body'[p2] # body[p2] => body'[p2].kind = "trail" /\ body'[p2].walk = w2
  /\ body'[p3] # body[p3] => body'[p3].kind = "request"

MCSpec == Init /\ [][MCNext]_vars /\ \A p \in Posts : WF_vars(Handle(p))
=============================================================================
