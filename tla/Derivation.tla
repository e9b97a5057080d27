----------------------------- MODULE Derivation -----------------------------
(***************************************************************************)
(* One graph, derived twice: publish.Derive (Go) makes what the API        *)
(* serves, resolveGraph (TypeScript) what the static pages show.  Both     *)
(* walk the authored edges in order, invert `requires` into `unlocks`,     *)
(* symmetrise `adjacent`, and refuse a graph in which a pair of concepts   *)
(* is related twice.  validate-content reads the same files in CI.         *)
(***************************************************************************)
EXTENDS Naturals, Sequences, SequencesExt, FiniteSets

CONSTANTS
  Size \* the concepts are 1..Size, in slug order

ASSUME DerivationAssumption == Size \in Nat \ {0}

Concepts == 1..Size
Ghost == Size + 1 \* an id no file has
Kinds == {"requires", "adjacent"}
Groups == {"requires", "unlocks", "adjacent"}
Sides == {"go", "ts"}

Authored == [from : Concepts, kind : Kinds, to : Concepts \cup {Ghost}]

VARIABLES
  content, \* the authored edges, over all the files
  repeated,\* those a file lists more than once in one group
  todo,    \* todo[s]: the edges side s has still to resolve
  again,   \* again[s]: those of them it has still to meet a second time
  out,     \* out[s][c][g]: the targets s has pushed on group g of concept c
  verdict  \* verdict[s]: "open", "ok" or "refused"

derivation == <<content, repeated, todo, again, out, verdict>>

-----------------------------------------------------------------------------
\* By node, `requires` before `adjacent`, as both loops go; in what order a file
\* lists the targets of one kind is its own affair.
Before(e, f) ==
  \/ e.from < f.from
  \/ e.from = f.from /\ e.kind = "requires" /\ f.kind = "adjacent"

Earliest(edges) == {e \in edges : \A f \in edges : ~Before(f, e)}

\* The first arrival wins.
push(o, c, g, target) ==
  IF target \in ToSet(o[c][g]) THEN o ELSE [o EXCEPT ![c][g] = Append(@, target)]

\* (Mutation: adjacency is declared from one side only.)
resolveOneSided(s, o, e) ==
  IF e.kind = "requires"
  THEN push(push(o, e.from, "requires", e.to), e.to, "unlocks", e.from)
  ELSE push(o, e.from, "adjacent", e.to)

\* The row on the node that declares the edge, then its inverse on the target;
\* both sides do the same.
resolve(s, o, e) ==
  IF e.kind = "requires"
  THEN push(push(o, e.from, "requires", e.to), e.to, "unlocks", e.from)
  ELSE push(push(o, e.from, "adjacent", e.to), e.to, "adjacent", e.from)

\* What a side refuses at once.  Only the Go side looks for an edge to itself.
target(s, e) == e.to # Ghost /\ (s = "go" => e.to # e.from)

\* checkOneRelationship / assertOneRelationship, on one concept's three groups.
checkOneRelationship(row) ==
  LET all == row["requires"] \o row["unlocks"] \o row["adjacent"]
  IN  \A i, j \in DOMAIN all : i # j => all[i] # all[j]

\* sortEdges: the targets in slug order, the k-th of them at place k.
Sorted(targets) ==
  [k \in 1..Cardinality(targets) |->
     CHOOSE c \in targets : Cardinality({d \in targets : d <= c}) = k]

-----------------------------------------------------------------------------
DeriveInit(maxEdges) ==
  /\ \E s \in BoundedSeq(Authored, maxEdges) :
       /\ content = ToSet(s)
       /\ repeated = {e \in content : \E i, j \in DOMAIN s : i # j /\ s[i] = e /\ s[j] = e}
  /\ todo = [s \in Sides |-> content] /\ again = [s \in Sides |-> repeated]
  /\ out = [s \in Sides |-> [c \in Concepts |-> [g \in Groups |-> <<>>]]]
  /\ verdict = [s \in Sides |-> "open"]

\* One edge of the loop.
Edge(s, e) ==
  /\ verdict[s] = "open"
  /\ IF target(s, e)
     THEN out' = [out EXCEPT ![s] = resolve(s, @, e)] /\ UNCHANGED verdict
     ELSE verdict' = [verdict EXCEPT ![s] = "refused"] /\ UNCHANGED out
  /\ IF e \in again[s] THEN again' = [again EXCEPT ![s] = @ \ {e}] /\ UNCHANGED todo
     ELSE todo' = [todo EXCEPT ![s] = @ \ {e}] /\ UNCHANGED again
  /\ UNCHANGED <<content, repeated>>

\* The loop is done: sort every group, then check every concept.
Finish(s) ==
  /\ verdict[s] = "open" /\ todo[s] = {}
  /\ out' = [out EXCEPT ![s] = [c \in Concepts |-> [g \in Groups |-> Sorted(ToSet(out[s][c][g]))]]]
  /\ verdict' = [verdict EXCEPT ![s] =
       IF \A c \in Concepts : checkOneRelationship(out[s][c]) THEN "ok" ELSE "refused"]
  /\ UNCHANGED <<content, repeated, todo, again>>

Step(s) == Finish(s) \/ \E e \in Earliest(todo[s]) : Edge(s, e)

\* The Go run first: the two share nothing.
Derive == Step("go") \/ (verdict["go"] # "open" /\ Step("ts"))

-----------------------------------------------------------------------------
Done == \A s \in Sides : verdict[s] # "open"

Rows(s, c, g) == ToSet(out[s][c][g])

\* validate-content.mjs, per file: dangling and self edges, and a target named
\* twice; and a `requires` that is required back.
relationshipErrors ==
  {e \in content : \/ e.to \in {Ghost, e.from} \/ e \in repeated
                   \/ \E f \in content \ {e} : <<e.from, e.to>> = <<f.from, f.to>>
                   \/ e.kind = "requires" /\ [from |-> e.to, kind |-> "requires", to |-> e.from] \in content}

Pair(e) == {e.from, e.to}

\* (Mutation: the claims are kept by who makes them of whom.)
seenDirected(e) == CHOOSE f \in Earliest({f \in content : <<f.from, f.to>> = <<e.from, e.to>>}) : TRUE

\* The first claim made on a pair, over the files in order.
seen(e) == CHOOSE f \in Earliest({f \in content : Pair(f) = Pair(e)}) : TRUE

\* The claims that clash with it.
claims == {e \in content : /\ seen(e) # e \/ e \in repeated
                           /\ seen(e).kind # e.kind \/ e.kind = "requires"}

Validated == relationshipErrors = {} /\ claims = {}

\* neighborhood: the lines on a concept's mini-map, running from prerequisite
\* to dependent.
links(s, c) ==
  {<<e, c>> : e \in Rows(s, c, "requires")} \cup {<<c, e>> : e \in Rows(s, c, "unlocks")}

-----------------------------------------------------------------------------
\* "Content mistakes should fail where content is checked": what passes the content
\* check the publish takes, and what the check refuses the publish refuses, but for
\* a target listed twice in one group, which both derivations drop unseen; though
\* one looks at files and the other at what they derive.  From content that passes,
\* the pages are derived like the API's graph: a page and its mini-map agree.
ValidatedDerivesAlike ==
  Done => /\ Validated <=> verdict["go"] = "ok" /\ repeated = {}
          /\ Validated => verdict["ts"] = "ok" /\ out["ts"] = out["go"]

\* What is served is one graph seen from every side: unlocks is exactly the
\* inverse of requires, adjacency is mutual, and the mini-maps of two concepts
\* draw the same line between them, in the same direction.
ServedGraphIsOne ==
  verdict["go"] = "ok" =>
    \A c, d \in Concepts :
      /\ d \in Rows("go", c, "requires") <=> c \in Rows("go", d, "unlocks")
      /\ d \in Rows("go", c, "adjacent") <=> c \in Rows("go", d, "adjacent")
      /\ \A l \in links("go", c) : d \in {l[1], l[2]} => l \in links("go", d)

\* What a side holds once it has accepted.
derivedGraph ==
  [s \in Sides |-> IF verdict[s] = "ok" THEN {t \in Concepts \X Groups \X Concepts : t[3] \in Rows(s, t[1], t[2])}
                   ELSE {}]

Contract == INSTANCE GraphContract WITH graph <- derivedGraph

\* Both loops do what the contract says, an edge at a time: whichever way the
\* files list their edges, a side takes exactly the edges that relate no pair
\* twice, and holds exactly what they say, from both ends of each.
ContractSpec == Contract!ContractSpec
=============================================================================
