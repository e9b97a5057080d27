---------------------------- MODULE GraphContract ----------------------------
(***************************************************************************)
(* What deriving a graph promises, stated apart from the loop that pushes  *)
(* rows: each side, once, either takes the authored edges and holds the    *)
(* one graph they say, or refuses them; and which of the two is a matter   *)
(* of the edges alone, not of the order they are met in.                   *)
(***************************************************************************)
CONSTANTS
  Concepts, \* the ids that have a file
  Ghost     \* an id no file has

VARIABLES
  content, \* the authored edges
  verdict, \* verdict[s]: "open", "ok" or "refused"
  graph    \* graph[s]: <<c, g, d>> if c's page names d in group g

contractVars == <<content, verdict, graph>>

\* Every edge, seen from both of its ends.
BothEnds(e) ==
  IF e.kind = "requires" THEN {<<e.from, "requires", e.to>>, <<e.to, "unlocks", e.from>>}
  ELSE {<<e.from, "adjacent", e.to>>, <<e.to, "adjacent", e.from>>}

Relations(edges) == UNION {BothEnds(e) : e \in edges}

\* A pair is related once, though both of its ends may say it is adjacent.
Consistent(edges) ==
  \A e, f \in edges : e # f /\ {e.from, e.to} = {f.from, f.to} => e.kind = "adjacent" /\ f.kind = "adjacent"

\* What side s takes.  The TypeScript side knows no rule against an adjacency of
\* a concept to itself.
Accepts(s, edges) ==
  /\ \A e \in edges : e.to \in Concepts
  /\ \A e \in edges : e.from = e.to => s = "ts" /\ e.kind = "adjacent"
  /\ Consistent(edges)

ContractInit ==
  /\ content \subseteq [from : Concepts, kind : {"requires", "adjacent"}, to : Concepts \cup {Ghost}]
  /\ verdict = [s \in {"go", "ts"} |-> "open"]
  /\ graph = [s \in {"go", "ts"} |-> {}]

Decide(s) ==
  /\ verdict[s] = "open"
  /\ \/ /\ Accepts(s, content)
        /\ verdict' = [verdict EXCEPT ![s] = "ok"]
        /\ graph' = [graph EXCEPT ![s] = Relations(content)]
     \/ /\ ~Accepts(s, content)
        /\ verdict' = [verdict EXCEPT ![s] = "refused"]
        /\ UNCHANGED graph
  /\ UNCHANGED content

ContractSpec == ContractInit /\ [][\E s \in {"go", "ts"} : Decide(s)]_contractVars
=============================================================================
