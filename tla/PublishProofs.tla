---------------------------- MODULE PublishProofs ----------------------------
(***************************************************************************)
(* For any authored graph, any naming of the domains and any lemniscate:   *)
(* what the content check passes is derived alike by both sides, into one  *)
(* graph, and a site that was built is whole.  For any history of merges,  *)
(* any number of failures and any graphs: a publish leaves exactly its     *)
(* commit's graph, the site never shows what is not stored and answered,   *)
(* and a green run leaves no skew.                                         *)
(***************************************************************************)
EXTENDS SiteBuild, Deploy, FiniteSetTheorems, WellFoundedInduction, TLAPS

\* The edge that c authors to d.
Link(c, kind, d) == [from |-> c, kind |-> kind, to |-> d]

\* What a set of edges says of c and d, seen from c.
Related(edges, c, g, d) ==
  \/ g = "requires" /\ Link(c, "requires", d) \in edges
  \/ g = "unlocks" /\ Link(d, "requires", c) \in edges
  \/ g = "adjacent" /\ (Link(c, "adjacent", d) \in edges \/ Link(d, "adjacent", c) \in edges)

Targets(edges, c, g) == {d \in Concepts : Related(edges, c, g, d)}

OneRelationship(edges) ==
  \A c, d \in Concepts : \A g, h \in Groups :
    Related(edges, c, g, d) /\ Related(edges, c, h, d) => g = h

Sound(s, edges) == \A e \in edges : target(s, e)

\* The edges a side has met, at least once.
Met(s) == (content \ todo[s]) \cup (repeated \ again[s])

\* What a side has pushed is what the edges it has met say.
SideInv(s) ==
  /\ verdict[s] = "open" =>
       /\ Sound(s, Met(s))
       /\ \A c \in Concepts : \A g \in Groups :
            /\ Rows(s, c, g) = Targets(Met(s), c, g)
            /\ IsInjective(out[s][c][g])
  /\ verdict[s] = "ok" =>
       /\ Sound(s, content) /\ OneRelationship(content)
       /\ \A c \in Concepts : \A g \in Groups : out[s][c][g] = Sorted(Targets(content, c, g))
  /\ verdict[s] = "refused" => ~(Sound(s, content) /\ OneRelationship(content))

DeriveType ==
  /\ content \subseteq Authored /\ repeated \subseteq content
  /\ todo \in [Sides -> SUBSET content] /\ again \in [Sides -> SUBSET repeated]
  /\ out \in [Sides -> [Concepts -> [Groups -> Seq(Concepts)]]]
  /\ verdict \in [Sides -> {"open", "ok", "refused"}]

Buildable == verdict["ts"] = "ok" /\ placesLayout /\ \A g \in directory : ~refusesAddress(g)

BuildInv ==
  /\ input \in Inputs /\ built \in {"open", "built", "failed"}
  /\ built = "built" => Buildable
  /\ built = "failed" => verdict["ts"] # "open" /\ ~Buildable

SiteIInv == DeriveType /\ SideInv("go") /\ SideInv("ts") /\ BuildInv

-----------------------------------------------------------------------------
\* Lemmas about the operators of the derivation.

\* A set of numbers that is not empty has a least one.
LEMMA Least ==
  ASSUME NEW S \in SUBSET Nat, S # {}
  PROVE  \E m \in S : \A k \in S : m <= k
<1>1. PICK m \in S : \A k \in S : <<k, m>> \notin OpToRel(<, Nat)
  BY NatLessThanWellFounded, WFMin
<1>2. \A k \in S : ~(k < m)
  BY <1>1 DEF OpToRel
<1> QED BY <1>2

\* Of edges there is one that comes first.
LEMMA EarliestExists ==
  ASSUME NEW edges \in SUBSET Authored, edges # {}
  PROVE  Earliest(edges) # {}
<1> DEFINE nodes == {e.from : e \in edges}
<1>1. nodes \in SUBSET Nat /\ nodes # {}
  BY DEF Authored, Concepts
<1>2. PICK m \in nodes : \A k \in nodes : m <= k
  BY <1>1, Least
<1>3. PICK e \in edges : e.from = m
  BY <1>2
<1>4. ASSUME NEW f \in edges PROVE ~(f.from < m)
  <2>1. f.from \in nodes
    OBVIOUS
  <2>2. m <= f.from /\ m \in Nat /\ f.from \in Nat
    BY <1>1, <1>2, <2>1
  <2> QED BY <2>2
<1>5. CASE \E f \in edges : f.from = m /\ f.kind = "requires"
  <2>1. PICK f \in edges : f.from = m /\ f.kind = "requires"
    BY <1>5
  <2>2. \A h \in edges : ~Before(h, f)
    BY <1>4, <2>1 DEF Before
  <2> QED BY <2>1, <2>2 DEF Earliest
<1>6. CASE \A f \in edges : f.from = m => f.kind # "requires"
  <2>1. \A h \in edges : ~Before(h, e)
    BY <1>3, <1>4, <1>6 DEF Before
  <2> QED BY <1>3, <2>1 DEF Earliest
<1> QED BY <1>5, <1>6

\* The first claim on the pair of an edge of the content.
LEMMA FirstClaim ==
  ASSUME content \subseteq Authored, NEW e \in content
  PROVE  seen(e) \in content /\ Pair(seen(e)) = Pair(e)
<1> DEFINE on == {f \in content : Pair(f) = Pair(e)}
<1>1. on \in SUBSET Authored /\ on # {}
  OBVIOUS
<1>2. seen(e) \in Earliest(on)
  BY <1>1, EarliestExists DEF seen
<1> QED BY <1>2 DEF Earliest

\* The content check passes exactly the content that lists no target twice, whose
\* edges the Go side resolves and whose rows relate no pair twice.
LEMMA CheckedMeansSound ==
  ASSUME content \subseteq Authored, repeated \subseteq content
  PROVE  Validated <=> Sound("go", content) /\ OneRelationship(content) /\ repeated = {}
<1>0. /\ \A e \in content : /\ e.from \in Concepts /\ e.kind \in {"requires", "adjacent"}
                            /\ e.to \in Concepts \cup {Ghost} /\ e = Link(e.from, e.kind, e.to)
      /\ \A c, k, d : Link(c, k, d).from = c /\ Link(c, k, d).kind = k /\ Link(c, k, d).to = d
      /\ \A c, k, d : Pair(Link(c, k, d)) = {c, d}
  BY DEF Authored, Kinds, Link, Pair
<1>1. ASSUME Validated PROVE Sound("go", content)
  BY <1>0, <1>1 DEF Validated, relationshipErrors, Sound, target
<1>2. ASSUME Validated, NEW c \in Concepts, NEW d \in Concepts
      PROVE  /\ ~(Link(c, "requires", d) \in content /\ Link(d, "requires", c) \in content)
             /\ ~(Link(c, "requires", d) \in content /\ Link(c, "adjacent", d) \in content)
  BY <1>0, <1>2 DEF Validated, relationshipErrors, Link
<1>3. ASSUME Validated, NEW e \in content, NEW f \in content, Pair(e) = Pair(f),
             e.kind = "requires", f.kind = "adjacent"
      PROVE  FALSE
  <2>1. seen(e) = e
    BY <1>3 DEF Validated, claims
  <2>2. seen(f) = seen(e)
    BY <1>3 DEF seen
  <2> QED BY <1>3, <2>1, <2>2 DEF Validated, claims
<1>4. ASSUME Validated PROVE OneRelationship(content)
  <2> SUFFICES ASSUME NEW c \in Concepts, NEW d \in Concepts, NEW g \in Groups, NEW h \in Groups,
                      Related(content, c, g, d), Related(content, c, h, d), g # h
               PROVE  FALSE
    BY DEF OneRelationship
  <2>1. \A a, b \in Concepts : ~(/\ Link(a, "requires", b) \in content
                                 /\ Link(a, "adjacent", b) \in content \/ Link(b, "adjacent", a) \in content)
    <3> SUFFICES ASSUME NEW a \in Concepts, NEW b \in Concepts, Link(a, "requires", b) \in content,
                        Link(a, "adjacent", b) \in content \/ Link(b, "adjacent", a) \in content
                 PROVE  FALSE
      OBVIOUS
    <3>1. Pair(Link(a, "requires", b)) = Pair(Link(a, "adjacent", b))
          /\ Pair(Link(a, "requires", b)) = Pair(Link(b, "adjacent", a))
      BY DEF Pair, Link
    <3> QED BY <1>0, <1>3, <1>4, <3>1
  <2> QED BY <1>2, <1>4, <2>1 DEF Groups, Related
<1>a. ASSUME Validated PROVE repeated = {}
  BY <1>a DEF Validated, relationshipErrors
<1>5. ASSUME Sound("go", content), OneRelationship(content), repeated = {} PROVE relationshipErrors = {}
  <2>0. \A e \in content : e.to \in Concepts /\ e.to # e.from
    BY <1>0, <1>5 DEF Sound, target
  <2>1. ASSUME NEW e \in content, NEW f \in content \ {e}, <<e.from, e.to>> = <<f.from, f.to>> PROVE FALSE
    <3>1. Link(e.from, "requires", e.to) \in content /\ Link(e.from, "adjacent", e.to) \in content
      BY <1>0, <2>1
    <3>2. Related(content, e.from, "requires", e.to) /\ Related(content, e.from, "adjacent", e.to)
      BY <3>1 DEF Related
    <3> QED BY <1>0, <1>5, <2>0, <3>2 DEF OneRelationship, Groups
  <2>2. ASSUME NEW e \in content, e.kind = "requires", Link(e.to, "requires", e.from) \in content PROVE FALSE
    <3>1. Related(content, e.from, "requires", e.to) /\ Related(content, e.from, "unlocks", e.to)
      BY <1>0, <2>2 DEF Related
    <3> QED BY <1>0, <1>5, <2>0, <3>1 DEF OneRelationship, Groups
  <2> QED BY <2>0, <2>1, <2>2, <1>5 DEF relationshipErrors, Link, Sound, target
<1>6. ASSUME Sound("go", content), OneRelationship(content), repeated = {} PROVE claims = {}
  <2> SUFFICES ASSUME NEW e \in content, seen(e) # e, seen(e).kind # e.kind \/ e.kind = "requires"
               PROVE  FALSE
    BY <1>6 DEF claims
  <2> DEFINE f == seen(e)
  <2>0. f \in content /\ f # e /\ Pair(f) = Pair(e)
    BY FirstClaim
  <2> HIDE DEF f
  <2>1. e.to \in Concepts /\ f.to \in Concepts /\ e.from \in Concepts /\ f.from \in Concepts
    BY <1>0, <1>6, <2>0 DEF Sound, target
  <2>2. \/ f.from = e.from /\ f.to = e.to
        \/ f.from = e.to /\ f.to = e.from
    BY <2>0 DEF Pair
  <2>3. CASE e.kind = "requires" /\ f.kind = "requires"
    <3>1. f.from = e.to /\ f.to = e.from
      BY <1>0, <2>0, <2>2, <2>3
    <3>2. Related(content, e.from, "requires", e.to) /\ Related(content, e.from, "unlocks", e.to)
      BY <1>0, <2>0, <2>3, <3>1 DEF Related
    <3> QED BY <1>6, <2>1, <3>2 DEF OneRelationship, Groups
  <2>4. CASE e.kind = "requires" /\ f.kind = "adjacent"
    <3>1. Related(content, e.from, "requires", e.to) /\ Related(content, e.from, "adjacent", e.to)
      BY <1>0, <2>0, <2>2, <2>4 DEF Related
    <3> QED BY <1>6, <2>1, <3>1 DEF OneRelationship, Groups
  <2>5. CASE e.kind = "adjacent" /\ f.kind = "requires"
    <3>1. Related(content, f.from, "requires", f.to) /\ Related(content, f.from, "adjacent", f.to)
      BY <1>0, <2>0, <2>2, <2>5 DEF Related
    <3> QED BY <1>6, <2>1, <3>1 DEF OneRelationship, Groups
  <2>6. f.kind # e.kind \/ e.kind = "requires"
    BY DEF f
  <2> QED BY <1>0, <2>0, <2>3, <2>4, <2>5, <2>6
<1> QED BY <1>1, <1>a, <1>4, <1>5, <1>6 DEF Validated

\* A row with one more entry.
LEMMA AppendedRow ==
  ASSUME NEW s \in Seq(Concepts), NEW d \in Concepts
  PROVE  /\ Append(s, d) \in Seq(Concepts) /\ ToSet(Append(s, d)) = ToSet(s) \cup {d}
         /\ IsInjective(s) /\ d \notin ToSet(s) => IsInjective(Append(s, d))
<1>1. /\ Append(s, d) \in Seq(Concepts) /\ Len(s) \in Nat
      /\ DOMAIN s = 1..Len(s) /\ DOMAIN Append(s, d) = 1..(Len(s) + 1)
      /\ \A i \in 1..Len(s) : Append(s, d)[i] = s[i]
      /\ Append(s, d)[Len(s) + 1] = d
  OBVIOUS
<1>2. \A i \in 1..(Len(s) + 1) : i \in 1..Len(s) \/ i = Len(s) + 1
  BY <1>1
<1>3. \A i \in 1..Len(s) : i \in 1..(Len(s) + 1)
  BY <1>1
<1>4. Len(s) + 1 \in 1..(Len(s) + 1)
  BY <1>1
<1>5. ToSet(Append(s, d)) = ToSet(s) \cup {d}
  BY <1>1, <1>2, <1>3, <1>4 DEF ToSet
<1>6. ASSUME IsInjective(s), d \notin ToSet(s) PROVE IsInjective(Append(s, d))
  BY <1>1, <1>2, <1>6 DEF ToSet, IsInjective
<1> QED BY <1>1, <1>5, <1>6

\* The rows of one side's concepts.
RowsOf == [Concepts -> [Groups -> Seq(Concepts)]]

\* A push puts its target on one row, once.
LEMMA PushedRow ==
  ASSUME NEW o \in RowsOf, NEW c \in Concepts, NEW g \in Groups, NEW d \in Concepts
  PROVE  /\ push(o, c, g, d) \in RowsOf
         /\ \A b \in Concepts : \A h \in Groups :
              /\ ToSet(push(o, c, g, d)[b][h]) =
                   IF b = c /\ h = g THEN ToSet(o[b][h]) \cup {d} ELSE ToSet(o[b][h])
              /\ IsInjective(o[b][h]) => IsInjective(push(o, c, g, d)[b][h])
<1>1. CASE d \in ToSet(o[c][g])
  <2>1. push(o, c, g, d) = o
    BY <1>1 DEF push
  <2> QED BY <1>1, <2>1
<1>2. CASE d \notin ToSet(o[c][g])
  <2> DEFINE longer == Append(o[c][g], d)
             q == [o EXCEPT ![c][g] = longer]
  <2>1. push(o, c, g, d) = q
    BY <1>2 DEF push
  <2>2. o[c][g] \in Seq(Concepts)
    BY DEF RowsOf
  <2>3. /\ longer \in Seq(Concepts) /\ ToSet(longer) = ToSet(o[c][g]) \cup {d}
        /\ IsInjective(o[c][g]) => IsInjective(longer)
    BY <1>2, <2>2, AppendedRow
  <2> HIDE DEF longer
  <2>4. q \in RowsOf /\ \A b \in Concepts : \A h \in Groups :
          q[b][h] = IF b = c /\ h = g THEN longer ELSE o[b][h]
    BY <2>3 DEF RowsOf
  <2> HIDE DEF q
  <2>5. ASSUME NEW b \in Concepts, NEW h \in Groups
        PROVE  /\ ToSet(q[b][h]) = IF b = c /\ h = g THEN ToSet(o[b][h]) \cup {d} ELSE ToSet(o[b][h])
               /\ IsInjective(o[b][h]) => IsInjective(q[b][h])
    <3>1. CASE b = c /\ h = g
      <4>1. q[b][h] = longer /\ o[b][h] = o[c][g]
        BY <2>4, <3>1
      <4> QED BY <2>3, <3>1, <4>1
    <3>2. CASE ~(b = c /\ h = g)
      <4>1. q[b][h] = o[b][h]
        BY <2>4, <3>2
      <4> QED BY <3>2, <4>1
    <3> QED BY <3>1, <3>2
  <2> QED BY <2>1, <2>4, <2>5
<1> QED BY <1>1, <1>2

\* An edge puts on the rows what it says of its two ends, and no more.
LEMMA ResolvedRows ==
  ASSUME NEW s, NEW o \in RowsOf, NEW edges, NEW e \in Authored, e.to \in Concepts,
         \A c \in Concepts : \A g \in Groups :
           ToSet(o[c][g]) = Targets(edges, c, g) /\ IsInjective(o[c][g])
  PROVE  /\ resolve(s, o, e) \in RowsOf
         /\ \A c \in Concepts : \A g \in Groups :
              /\ ToSet(resolve(s, o, e)[c][g]) = Targets(edges \cup {e}, c, g)
              /\ IsInjective(resolve(s, o, e)[c][g])
<1>0. /\ e.from \in Concepts /\ e.kind \in {"requires", "adjacent"} /\ e = Link(e.from, e.kind, e.to)
      /\ \A c, k, d : Link(c, k, d).from = c /\ Link(c, k, d).kind = k /\ Link(c, k, d).to = d
  BY DEF Authored, Kinds, Link
<1>1. Groups = {"requires", "unlocks", "adjacent"}
  BY DEF Groups
<1>2. \A c \in Concepts : \A g \in Groups : \A d \in Concepts :
        Related(edges \cup {e}, c, g, d) <=>
          \/ Related(edges, c, g, d)
          \/ e.kind = "requires" /\ g = "requires" /\ c = e.from /\ d = e.to
          \/ e.kind = "requires" /\ g = "unlocks" /\ c = e.to /\ d = e.from
          \/ e.kind = "adjacent" /\ g = "adjacent" /\ ((c = e.from /\ d = e.to) \/ (c = e.to /\ d = e.from))
  BY <1>0 DEF Related
<1>3. CASE e.kind = "requires"
  <2> DEFINE p == push(o, e.from, "requires", e.to)
             q == push(p, e.to, "unlocks", e.from)
  <2>1. resolve(s, o, e) = q
    BY <1>3 DEF resolve
  <2>2. /\ p \in RowsOf
        /\ \A b \in Concepts : \A h \in Groups :
             /\ ToSet(p[b][h]) =
                  IF b = e.from /\ h = "requires" THEN ToSet(o[b][h]) \cup {e.to} ELSE ToSet(o[b][h])
             /\ IsInjective(o[b][h]) => IsInjective(p[b][h])
    BY <1>0, <1>1, PushedRow
  <2> HIDE DEF p
  <2>3. /\ q \in RowsOf
        /\ \A b \in Concepts : \A h \in Groups :
             /\ ToSet(q[b][h]) =
                  IF b = e.to /\ h = "unlocks" THEN ToSet(p[b][h]) \cup {e.from} ELSE ToSet(p[b][h])
             /\ IsInjective(p[b][h]) => IsInjective(q[b][h])
    BY <1>0, <1>1, <2>2, PushedRow
  <2> HIDE DEF q
  <2>4. ASSUME NEW c \in Concepts, NEW g \in Groups
        PROVE  ToSet(q[c][g]) = Targets(edges \cup {e}, c, g)
    <3>1. ToSet(q[c][g]) = Targets(edges, c, g)
            \cup (IF c = e.from /\ g = "requires" THEN {e.to} ELSE {})
            \cup (IF c = e.to /\ g = "unlocks" THEN {e.from} ELSE {})
      <4>1. ToSet(o[c][g]) = Targets(edges, c, g)
        OBVIOUS
      <4>2. ToSet(p[c][g]) = ToSet(o[c][g]) \cup (IF c = e.from /\ g = "requires" THEN {e.to} ELSE {})
        BY <2>2
      <4>3. ToSet(q[c][g]) = ToSet(p[c][g]) \cup (IF c = e.to /\ g = "unlocks" THEN {e.from} ELSE {})
        BY <2>3
      <4> QED BY <4>1, <4>2, <4>3
    <3>2. \A d \in Concepts : d \in ToSet(q[c][g]) <=> Related(edges \cup {e}, c, g, d)
      BY <1>0, <1>2, <1>3, <3>1 DEF Targets
    <3>3. ToSet(q[c][g]) \subseteq Concepts
      BY <1>0, <3>1 DEF Targets
    <3> QED BY <3>2, <3>3 DEF Targets
  <2> QED BY <2>1, <2>2, <2>3, <2>4
<1>4. CASE e.kind = "adjacent"
  <2> DEFINE p == push(o, e.from, "adjacent", e.to)
             q == push(p, e.to, "adjacent", e.from)
  <2>1. resolve(s, o, e) = q
    BY <1>4 DEF resolve
  <2>2. /\ p \in RowsOf
        /\ \A b \in Concepts : \A h \in Groups :
             /\ ToSet(p[b][h]) =
                  IF b = e.from /\ h = "adjacent" THEN ToSet(o[b][h]) \cup {e.to} ELSE ToSet(o[b][h])
             /\ IsInjective(o[b][h]) => IsInjective(p[b][h])
    BY <1>0, <1>1, PushedRow
  <2> HIDE DEF p
  <2>3. /\ q \in RowsOf
        /\ \A b \in Concepts : \A h \in Groups :
             /\ ToSet(q[b][h]) =
                  IF b = e.to /\ h = "adjacent" THEN ToSet(p[b][h]) \cup {e.from} ELSE ToSet(p[b][h])
             /\ IsInjective(p[b][h]) => IsInjective(q[b][h])
    BY <1>0, <1>1, <2>2, PushedRow
  <2> HIDE DEF q
  <2>4. ASSUME NEW c \in Concepts, NEW g \in Groups
        PROVE  ToSet(q[c][g]) = Targets(edges \cup {e}, c, g)
    <3>1. ToSet(q[c][g]) = Targets(edges, c, g)
            \cup (IF c = e.from /\ g = "adjacent" THEN {e.to} ELSE {})
            \cup (IF c = e.to /\ g = "adjacent" THEN {e.from} ELSE {})
      <4>1. ToSet(o[c][g]) = Targets(edges, c, g)
        OBVIOUS
      <4>2. ToSet(p[c][g]) = ToSet(o[c][g]) \cup (IF c = e.from /\ g = "adjacent" THEN {e.to} ELSE {})
        BY <2>2
      <4>3. ToSet(q[c][g]) = ToSet(p[c][g]) \cup (IF c = e.to /\ g = "adjacent" THEN {e.from} ELSE {})
        BY <2>3
      <4> QED BY <4>1, <4>2, <4>3
    <3>2. \A d \in Concepts : d \in ToSet(q[c][g]) <=> Related(edges \cup {e}, c, g, d)
      BY <1>0, <1>2, <1>4, <3>1 DEF Targets
    <3>3. ToSet(q[c][g]) \subseteq Concepts
      BY <1>0, <3>1 DEF Targets
    <3> QED BY <3>2, <3>3 DEF Targets
  <2> QED BY <2>1, <2>2, <2>3, <2>4
<1> QED BY <1>0, <1>3, <1>4

\* With rows of distinct entries, no entry is found twice exactly when no two of
\* the three rows of a concept share one.
LEMMA CheckedRows ==
  ASSUME NEW row \in [Groups -> Seq(Concepts)], \A g \in Groups : IsInjective(row[g])
  PROVE  checkOneRelationship(row) <=>
           \A g, h \in Groups : \A d \in ToSet(row[g]) \cap ToSet(row[h]) : g = h
<1> DEFINE r == row["requires"]
           u == row["unlocks"]
           a == row["adjacent"]
           all == r \o u \o a
           at(g) == IF g = "requires" THEN 0 ELSE IF g = "unlocks" THEN Len(r) ELSE Len(r) + Len(u)
<1>0. Groups = {"requires", "unlocks", "adjacent"}
  BY DEF Groups
<1>1. r \in Seq(Concepts) /\ u \in Seq(Concepts) /\ a \in Seq(Concepts)
  BY <1>0
<1>2. /\ \A g \in Groups : Len(row[g]) \in Nat /\ DOMAIN row[g] = 1..Len(row[g]) /\ at(g) \in Nat
      /\ DOMAIN all = 1..(Len(r) + Len(u) + Len(a))
  BY <1>0, <1>1
<1>3. \A g \in Groups : \A i \in DOMAIN row[g] : at(g) + i \in DOMAIN all /\ all[at(g) + i] = row[g][i]
  BY <1>0, <1>1
<1>4. \A k \in DOMAIN all : \E g \in Groups : \E i \in DOMAIN row[g] : k = at(g) + i
  <2> SUFFICES ASSUME NEW k \in DOMAIN all PROVE \E g \in Groups : \E i \in DOMAIN row[g] : k = at(g) + i
    OBVIOUS
  <2>0. k \in 1..(Len(r) + Len(u) + Len(a)) /\ Len(r) \in Nat /\ Len(u) \in Nat /\ Len(a) \in Nat
    BY <1>0, <1>2
  <2>1. CASE k <= Len(r)
    <3>1. k \in DOMAIN row["requires"] /\ k = at("requires") + k
      BY <1>0, <1>2, <2>0, <2>1
    <3> QED BY <1>0, <3>1
  <2>2. CASE Len(r) < k /\ k <= Len(r) + Len(u)
    <3>1. k - Len(r) \in DOMAIN row["unlocks"] /\ k = at("unlocks") + (k - Len(r))
      BY <1>0, <1>2, <2>0, <2>2
    <3> QED BY <1>0, <3>1
  <2>3. CASE Len(r) + Len(u) < k
    <3> DEFINE i == k - (Len(r) + Len(u))
    <3>1. i \in DOMAIN row["adjacent"] /\ k = at("adjacent") + i
      BY <1>0, <1>2, <2>0, <2>3
    <3> HIDE DEF i
    <3> QED BY <1>0, <3>1
  <2>4. k <= Len(r) \/ (Len(r) < k /\ k <= Len(r) + Len(u)) \/ Len(r) + Len(u) < k
    <3> HIDE DEF r, u, a, all
    <3>1. \A x, y, z \in Nat : x <= y \/ (y < x /\ x <= y + z) \/ y + z < x
      OBVIOUS
    <3>2. k \in Nat
      BY <2>0
    <3> QED BY <2>0, <3>1, <3>2
  <2> QED BY <2>1, <2>2, <2>3, <2>4
<1>5. \A g, h \in Groups : \A i \in DOMAIN row[g], j \in DOMAIN row[h] :
        at(g) + i = at(h) + j => g = h /\ i = j
  BY <1>0, <1>2
<1>6. checkOneRelationship(row) <=> \A i, j \in DOMAIN all : i # j => all[i] # all[j]
  BY DEF checkOneRelationship
<1> HIDE DEF r, u, a, all, at
<1>7. ASSUME checkOneRelationship(row), NEW g \in Groups, NEW h \in Groups, NEW d \in ToSet(row[g]) \cap ToSet(row[h])
      PROVE  g = h
  <2>1. PICK i \in DOMAIN row[g] : row[g][i] = d
    BY DEF ToSet
  <2>2. PICK j \in DOMAIN row[h] : row[h][j] = d
    BY DEF ToSet
  <2>3. at(g) + i = at(h) + j
    BY <1>3, <1>6, <1>7, <2>1, <2>2
  <2> QED BY <1>5, <2>1, <2>2, <2>3
<1>8. ASSUME \A g, h \in Groups : \A d \in ToSet(row[g]) \cap ToSet(row[h]) : g = h,
             NEW m \in DOMAIN all, NEW n \in DOMAIN all, all[m] = all[n]
      PROVE  m = n
  <2>1. PICK g \in Groups : \E i \in DOMAIN row[g] : m = at(g) + i
    BY <1>4
  <2>2. PICK h \in Groups : \E j \in DOMAIN row[h] : n = at(h) + j
    BY <1>4
  <2>3. PICK i \in DOMAIN row[g] : m = at(g) + i
    BY <2>1
  <2>4. PICK j \in DOMAIN row[h] : n = at(h) + j
    BY <2>2
  <2>5. row[g][i] = row[h][j]
    BY <1>3, <1>8, <2>3, <2>4
  <2>6. row[g][i] \in ToSet(row[g]) /\ row[h][j] \in ToSet(row[h])
    BY DEF ToSet
  <2>7. g = h
    BY <1>8, <2>5, <2>6
  <2> QED BY <2>3, <2>4, <2>5, <2>7 DEF IsInjective
<1> QED BY <1>6, <1>7, <1>8

\* There are as many concepts as the size says.
LEMMA ConceptCount == IsFiniteSet(Concepts) /\ Size \in Nat /\ Size # 0
<1>1. 1 \in Int /\ Size \in Int /\ Size \in Nat /\ Size # 0
  BY DerivationAssumption
<1>2. IsFiniteSet(1..Size)
  BY <1>1, FS_Interval
<1> QED BY <1>1, <1>2 DEF Concepts

\* Targets sorted are the same targets, each at its rank.
LEMMA SortedTargets ==
  ASSUME NEW T \in SUBSET Concepts
  PROVE  Sorted(T) \in Seq(Concepts) /\ ToSet(Sorted(T)) = T
<1> DEFINE below(i) == {j \in T : j <= i}
           n == Cardinality(T)
<1>0. \A x \in T : x \in Nat /\ x \in Int
  BY ConceptCount DEF Concepts
<1>1. IsFiniteSet(T) /\ n \in Nat
  BY ConceptCount, FS_Subset, FS_CardinalityType
<1>2. IsFiniteSet(1..n) /\ Cardinality(1..n) = n
  <2>1. 1 \in Int /\ n \in Int
    BY <1>1
  <2>2. IsFiniteSet(1..n) /\ Cardinality(1..n) = IF 1 > n THEN 0 ELSE n - 1 + 1
    BY <2>1, FS_Interval
  <2> HIDE DEF n
  <2> QED BY <1>1, <2>2
<1>3. ASSUME NEW i \in T
      PROVE  /\ below(i) \in SUBSET T /\ i \in below(i) /\ IsFiniteSet(below(i))
             /\ Cardinality(below(i)) \in Nat /\ Cardinality(below(i)) <= n
             /\ Cardinality(below(i)) # 0
  <2>1. below(i) \in SUBSET T /\ i \in below(i)
    BY <1>0
  <2>2. IsFiniteSet(below(i)) /\ Cardinality(below(i)) <= n
    BY <1>1, <2>1, FS_Subset
  <2>3. Cardinality(below(i)) # 0
    BY <2>1, <2>2, FS_EmptySet
  <2> QED BY <2>1, <2>2, <2>3, FS_CardinalityType
<1>4. ASSUME NEW i \in T, NEW j \in T, i < j
      PROVE  Cardinality(below(i)) < Cardinality(below(j))
  <2>1. below(i) \in SUBSET below(j) /\ j \in below(j) /\ j \notin below(i)
    <3>1. i \in Int /\ j \in Int /\ ~(j <= i) /\ j <= j
      BY <1>0, <1>4
    <3>2. \A x \in T : x <= i => x <= j
      BY <1>0, <1>4
    <3> QED BY <3>1, <3>2
  <2>2. /\ Cardinality(below(i)) <= Cardinality(below(j))
        /\ Cardinality(below(j)) = Cardinality(below(i)) => below(j) = below(i)
    BY <1>3, <2>1, FS_Subset
  <2>3. Cardinality(below(i)) # Cardinality(below(j))
    BY <2>1, <2>2
  <2> QED BY <1>3, <2>2, <2>3
<1> DEFINE rank == [i \in T |-> Cardinality(below(i))]
<1>5. rank \in [T -> 1..n] /\ \A i \in T : rank[i] = Cardinality({d \in T : d <= i})
  <2> HIDE DEF n
  <2> QED BY <1>1, <1>3
<1>6. \A i, j \in T : rank[i] = rank[j] => i = j
  <2> SUFFICES ASSUME NEW i \in T, NEW j \in T, i # j
               PROVE  rank[i] # rank[j]
    OBVIOUS
  <2>1. i < j \/ j < i
    BY <1>0
  <2>2. Cardinality(below(i)) # Cardinality(below(j))
    BY <1>3, <1>4, <2>1
  <2> QED BY <2>2
<1>7. \A k \in 1..n : \E i \in T : rank[i] = k
  <2>1. rank \in Injection(T, 1..n)
    <3> HIDE DEF rank, n
    <3> QED BY <1>5, <1>6 DEF Injection, IsInjective
  <2>2. rank \in Surjection(T, 1..n)
    <3> HIDE DEF rank
    <3> QED BY <1>2, <2>1, FS_Injection
  <2> QED BY <2>2 DEF Surjection
<1> HIDE DEF rank, below
<1>8. \A k \in 1..n : Sorted(T)[k] \in T /\ rank[Sorted(T)[k]] = k
  <2> SUFFICES ASSUME NEW k \in 1..n PROVE Sorted(T)[k] \in T /\ rank[Sorted(T)[k]] = k
    OBVIOUS
  <2>1. Sorted(T)[k] = CHOOSE c \in T : Cardinality({d \in T : d <= c}) = k
    BY DEF Sorted
  <2>2. \E c \in T : Cardinality({d \in T : d <= c}) = k
    BY <1>5, <1>7
  <2>3. Sorted(T)[k] \in T /\ Cardinality({d \in T : d <= Sorted(T)[k]}) = k
    BY <2>1, <2>2
  <2> QED BY <1>5, <2>3
<1>9. DOMAIN Sorted(T) = 1..n /\ Sorted(T) \in [1..n -> T]
  BY <1>8 DEF Sorted
<1> HIDE DEF n
<1>10. Sorted(T) \in Seq(Concepts)
  BY <1>1, <1>9
<1>11. \A i \in T : rank[i] \in 1..n /\ Sorted(T)[rank[i]] = i
  BY <1>5, <1>6, <1>8
<1>12. ToSet(Sorted(T)) = T
  BY <1>8, <1>9, <1>11 DEF ToSet
<1> QED BY <1>10, <1>12

-----------------------------------------------------------------------------
\* Lemmas about one step of the derivation.

\* What a side is at: its edges and rows are of their types.
LEMMA SideTypes ==
  ASSUME DeriveType, NEW s \in Sides
  PROVE  /\ todo[s] \subseteq content /\ out[s] \in RowsOf
         /\ verdict[s] \in {"open", "ok", "refused"}
BY DEF DeriveType, RowsOf

\* The other side, and the content, are left alone.
Others(s) ==
  /\ content' = content /\ repeated' = repeated /\ verdict' \in [Sides -> {"open", "ok", "refused"}]
  /\ \A r \in Sides \ {s} : todo'[r] = todo[r] /\ again'[r] = again[r] /\ out'[r] = out[r] /\ verdict'[r] = verdict[r]

\* An edge of the loop.
LEMMA EdgeStep ==
  ASSUME DeriveType, NEW s \in Sides, SideInv(s), NEW e \in todo[s], Edge(s, e)
  PROVE  DeriveType' /\ SideInv(s)' /\ Others(s)
<1>0. /\ todo[s] \subseteq content /\ out[s] \in RowsOf /\ content \subseteq Authored
      /\ e \in content /\ e \in Authored /\ verdict[s] = "open"
      /\ content' = content /\ repeated' = repeated /\ repeated \subseteq content
      /\ IF e \in again[s] THEN again' = [again EXCEPT ![s] = @ \ {e}] /\ todo' = todo
         ELSE todo' = [todo EXCEPT ![s] = @ \ {e}] /\ again' = again
  BY SideTypes DEF DeriveType, Edge
<1>1. /\ todo' \in [Sides -> SUBSET content] /\ again' \in [Sides -> SUBSET repeated]
      /\ IF e \in again[s] THEN again'[s] = again[s] \ {e} /\ todo'[s] = todo[s]
         ELSE todo'[s] = todo[s] \ {e} /\ again'[s] = again[s]
      /\ \A r \in Sides \ {s} : todo'[r] = todo[r] /\ again'[r] = again[r]
  BY <1>0 DEF DeriveType
<1>2. Met(s)' = Met(s) \cup {e}
  <2>1. again[s] \subseteq repeated
    BY DEF DeriveType
  <2> QED BY <1>0, <1>1, <2>1 DEF Met
<1>2a. Met(s) \subseteq content
  BY <1>0 DEF Met
<1>3. CASE target(s, e)
  <2> DEFINE rows == resolve(s, out[s], e)
  <2>1. out' = [out EXCEPT ![s] = rows] /\ verdict' = verdict
    BY <1>0, <1>3 DEF Edge
  <2>2. e.to \in Concepts
    BY <1>0, <1>3 DEF target, Authored
  <2>3. \A c \in Concepts : \A g \in Groups :
          ToSet(out[s][c][g]) = Targets(Met(s), c, g) /\ IsInjective(out[s][c][g])
    BY <1>0 DEF SideInv, Rows
  <2>4. /\ rows \in RowsOf
        /\ \A c \in Concepts : \A g \in Groups :
             /\ ToSet(rows[c][g]) = Targets(Met(s) \cup {e}, c, g)
             /\ IsInjective(rows[c][g])
    <3> DEFINE o == out[s]
               done == Met(s)
    <3>1. /\ o \in RowsOf /\ e \in Authored
          /\ \A c \in Concepts : \A g \in Groups :
               ToSet(o[c][g]) = Targets(done, c, g) /\ IsInjective(o[c][g])
      BY <1>0, <2>3
    <3> HIDE DEF o, done
    <3>2. /\ resolve(s, o, e) \in RowsOf
          /\ \A c \in Concepts : \A g \in Groups :
               /\ ToSet(resolve(s, o, e)[c][g]) = Targets(done \cup {e}, c, g)
               /\ IsInjective(resolve(s, o, e)[c][g])
      BY <2>2, <3>1, ResolvedRows
    <3> QED BY <3>2 DEF o, done
  <2> HIDE DEF rows
  <2>5. out' \in [Sides -> RowsOf] /\ out'[s] = rows /\ \A r \in Sides \ {s} : out'[r] = out[r]
    BY <2>1, <2>4 DEF DeriveType, RowsOf
  <2>6. DeriveType' /\ Others(s)
    BY <1>0, <1>1, <2>1, <2>5 DEF DeriveType, RowsOf, Others
  <2>7. Sound(s, Met(s)')
    BY <1>0, <1>2, <1>3 DEF SideInv, Sound
  <2>8. SideInv(s)'
    BY <1>0, <1>2, <2>1, <2>4, <2>5, <2>7 DEF SideInv, Rows
  <2> QED BY <2>6, <2>8
<1>4. CASE ~target(s, e)
  <2>1. verdict' = [verdict EXCEPT ![s] = "refused"] /\ out' = out
    BY <1>0, <1>4 DEF Edge
  <2>2. verdict'[s] = "refused" /\ verdict' \in [Sides -> {"open", "ok", "refused"}]
        /\ \A r \in Sides \ {s} : verdict'[r] = verdict[r]
    BY <2>1 DEF DeriveType
  <2>3. ~Sound(s, content')
    BY <1>0, <1>4 DEF Sound
  <2> QED BY <1>0, <1>1, <2>1, <2>2, <2>3 DEF DeriveType, SideInv, Others, Sound, OneRelationship, Related, target
<1> QED BY <1>3, <1>4

\* The end of the loop.
LEMMA FinishStep ==
  ASSUME DeriveType, NEW s \in Sides, SideInv(s), Finish(s)
  PROVE  DeriveType' /\ SideInv(s)' /\ Others(s)
<1>0. /\ todo[s] = {} /\ out[s] \in RowsOf /\ content \subseteq Authored
      /\ verdict[s] = "open" /\ content' = content /\ repeated' = repeated /\ todo' = todo /\ again' = again
      /\ Met(s) = content
  BY SideTypes DEF DeriveType, Finish, Met
<1>1. /\ Sound(s, content)
      /\ \A c \in Concepts : \A g \in Groups :
           ToSet(out[s][c][g]) = Targets(content, c, g) /\ IsInjective(out[s][c][g])
  BY <1>0 DEF SideInv, Rows
<1> DEFINE rows == [c \in Concepts |-> [g \in Groups |-> Sorted(ToSet(out[s][c][g]))]]
           passed == \A c \in Concepts : checkOneRelationship(out[s][c])
<1>2. \A c \in Concepts : \A g \in Groups :
        rows[c][g] = Sorted(Targets(content, c, g)) /\ Sorted(Targets(content, c, g)) \in Seq(Concepts)
  <2>1. \A c \in Concepts : \A g \in Groups : Targets(content, c, g) \in SUBSET Concepts
    BY DEF Targets
  <2> QED BY <1>1, <2>1, SortedTargets
<1>3. rows \in RowsOf
  BY <1>2 DEF RowsOf
<1>4. passed <=> OneRelationship(content)
  <2>1. ASSUME NEW c \in Concepts
        PROVE  checkOneRelationship(out[s][c]) <=>
                 \A d \in Concepts : \A g, h \in Groups :
                   Related(content, c, g, d) /\ Related(content, c, h, d) => g = h
    <3>1. out[s][c] \in [Groups -> Seq(Concepts)] /\ \A g \in Groups : IsInjective(out[s][c][g])
      BY <1>0, <1>1 DEF RowsOf
    <3>2. checkOneRelationship(out[s][c]) <=>
            \A g, h \in Groups : \A d \in ToSet(out[s][c][g]) \cap ToSet(out[s][c][h]) : g = h
      BY <3>1, CheckedRows
    <3>3. \A g \in Groups : \A d : d \in ToSet(out[s][c][g]) <=> d \in Concepts /\ Related(content, c, g, d)
      BY <1>1 DEF Targets
    <3> QED BY <3>2, <3>3
  <2> QED BY <2>1 DEF OneRelationship
<1>5. out' = [out EXCEPT ![s] = rows] /\ verdict' = [verdict EXCEPT ![s] = IF passed THEN "ok" ELSE "refused"]
  BY DEF Finish
<1> HIDE DEF rows, passed
<1>6. /\ out' \in [Sides -> RowsOf] /\ out'[s] = rows /\ \A r \in Sides \ {s} : out'[r] = out[r]
      /\ verdict' \in [Sides -> {"open", "ok", "refused"}]
      /\ verdict'[s] = IF passed THEN "ok" ELSE "refused"
      /\ \A r \in Sides \ {s} : verdict'[r] = verdict[r]
  BY <1>3, <1>5 DEF DeriveType, RowsOf
<1>7. DeriveType' /\ Others(s)
  BY <1>0, <1>6 DEF DeriveType, RowsOf, Others
<1>8. SideInv(s)'
  BY <1>0, <1>1, <1>2, <1>4, <1>6 DEF SideInv
<1> QED BY <1>7, <1>8

\* A step of one side says nothing of the other.
LEMMA OtherSide ==
  ASSUME NEW s \in Sides, NEW r \in Sides \ {s}, SideInv(r), Others(s)
  PROVE  SideInv(r)'
<1>1. /\ content' = content /\ repeated' = repeated /\ todo'[r] = todo[r] /\ again'[r] = again[r]
      /\ out'[r] = out[r] /\ verdict'[r] = verdict[r]
  BY DEF Others
<1> QED BY <1>1 DEF SideInv, Rows, Met

\* A step of one side.
LEMMA SideStep ==
  ASSUME DeriveType, NEW s \in Sides, SideInv(s), Step(s)
  PROVE  DeriveType' /\ SideInv(s)' /\ Others(s) /\ verdict[s] = "open"
<1>1. CASE Finish(s)
  BY <1>1, FinishStep DEF Finish
<1>2. CASE \E e \in Earliest(todo[s]) : Edge(s, e)
  <2>1. PICK e \in todo[s] : Edge(s, e)
    BY <1>2 DEF Earliest
  <2> QED BY <2>1, EdgeStep DEF Edge
<1> QED BY <1>1, <1>2 DEF Step

\* Each side keeps what it has pushed to what it has resolved.
LEMMA DeriveStep ==
  ASSUME DeriveType, SideInv("go"), SideInv("ts"), Derive
  PROVE  /\ DeriveType' /\ SideInv("go")' /\ SideInv("ts")'
         /\ verdict["ts"] # "open" => verdict'["ts"] = verdict["ts"]
<1>1. "go" \in Sides /\ "ts" \in Sides \ {"go"} /\ "go" \in Sides \ {"ts"} /\ "ts" \in Sides
  BY DEF Sides
<1>2. CASE Step("go")
  BY <1>1, <1>2, SideStep, OtherSide DEF Others
<1>3. CASE Step("ts")
  BY <1>1, <1>3, SideStep, OtherSide DEF Others
<1> QED BY <1>2, <1>3 DEF Derive

\* The lemniscate and the addresses are of the input alone.
LEMMA InputStays ==
  ASSUME input' = input
  PROVE  /\ placesLayout' = placesLayout
         /\ (\A g \in directory : ~refusesAddress(g))' <=> \A g \in directory : ~refusesAddress(g)
<1>1. placesLayout' = placesLayout
  BY DEF placesLayout, part, layout
<1>2. (\A g \in directory : ~refusesAddress(g))' <=> \A g \in directory : ~refusesAddress(g)
  BY DEF directory, Heading, Section, refusesAddress, domain
<1> QED BY <1>1, <1>2

\* A step of the derivation does not touch what the build looks at beside it.
LEMMA BuildStays ==
  ASSUME BuildInv, UNCHANGED building, verdict["ts"] # "open" => verdict'["ts"] = verdict["ts"]
  PROVE  BuildInv'
<1>1. input' = input /\ built' = built
  BY DEF building
<1> QED BY <1>1, InputStays DEF BuildInv, Buildable

\* What the build decides is whether it could be built.
LEMMA BuildStep ==
  ASSUME DeriveType, SideInv("go"), SideInv("ts"), BuildInv, Build
  PROVE  SiteIInv'
<1>0. /\ content' = content /\ repeated' = repeated /\ todo' = todo /\ again' = again
      /\ out' = out /\ verdict' = verdict /\ input' = input
      /\ verdict["ts"] # "open" /\ built' = IF Buildable THEN "built" ELSE "failed"
  BY DEF Build, derivation, Buildable
<1>1. DeriveType' /\ SideInv("go")' /\ SideInv("ts")'
  BY <1>0 DEF DeriveType, SideInv, Rows, Met
<1>2. Buildable' <=> Buildable
  BY <1>0, InputStays DEF Buildable
<1>3. BuildInv'
  BY <1>0, <1>2 DEF BuildInv
<1> QED BY <1>1, <1>3 DEF SiteIInv

\* At first nothing is resolved and nothing is built.
LEMMA SiteInitHolds == SiteInit => SiteIInv
<1> SUFFICES ASSUME SiteInit PROVE SiteIInv
  OBVIOUS
<1>1. /\ input \in Inputs /\ built = "open"
      /\ \E s \in BoundedSeq(Authored, input.edges) : content = ToSet(s)
      /\ repeated \subseteq content
      /\ todo = [s \in Sides |-> content] /\ again = [s \in Sides |-> repeated]
      /\ out = [s \in Sides |-> [c \in Concepts |-> [g \in Groups |-> <<>>]]]
      /\ verdict = [s \in Sides |-> "open"]
  BY DEF SiteInit, DeriveInit
<1>2. content \subseteq Authored
  BY <1>1 DEF BoundedSeq, SeqOf, ToSet
<1>3. DeriveType
  BY <1>1, <1>2 DEF DeriveType
<1>4. ASSUME NEW s \in Sides PROVE SideInv(s)
  <2>1. verdict[s] = "open" /\ Met(s) = {}
        /\ \A c \in Concepts : \A g \in Groups : out[s][c][g] = <<>>
    BY <1>1 DEF Met
  <2>2. \A c \in Concepts : \A g \in Groups : Rows(s, c, g) = {} /\ IsInjective(out[s][c][g])
    BY <2>1 DEF Rows, ToSet, IsInjective
  <2>3. \A c \in Concepts : \A g \in Groups : Targets({}, c, g) = {}
    BY DEF Targets, Related
  <2>4. Sound(s, {})
    BY DEF Sound
  <2> QED BY <2>1, <2>2, <2>3, <2>4 DEF SideInv
<1>5. BuildInv
  BY <1>1 DEF BuildInv
<1> QED BY <1>3, <1>4, <1>5 DEF SiteIInv, Sides

\* The invariant of the derivation and of the build, whatever is authored.
THEOREM SiteInvariance == SiteSpec => []SiteIInv
<1>1. SiteIInv /\ [SiteNext]_<<derivation, building>> => SiteIInv'
  <2> SUFFICES ASSUME SiteIInv, [SiteNext]_<<derivation, building>> PROVE SiteIInv'
    OBVIOUS
  <2>1. CASE Build
    BY <2>1, BuildStep DEF SiteIInv
  <2>2. CASE Derive /\ UNCHANGED building
    BY <2>2, DeriveStep, BuildStays DEF SiteIInv
  <2>3. CASE UNCHANGED <<derivation, building>>
    <3>1. /\ content' = content /\ repeated' = repeated /\ todo' = todo /\ again' = again
          /\ out' = out /\ verdict' = verdict /\ UNCHANGED building
      BY <2>3 DEF derivation
    <3>2. DeriveType' /\ SideInv("go")' /\ SideInv("ts")'
      BY <3>1 DEF DeriveType, SideInv, Rows, Met, SiteIInv
    <3> QED BY <3>1, <3>2, BuildStays DEF SiteIInv
  <2> QED BY <2>1, <2>2, <2>3 DEF SiteNext
<1> QED BY SiteInitHolds, <1>1, PTL DEF SiteSpec

\* What the content check passes the publish takes, and what the check refuses the
\* publish refuses but for a target listed twice in a group (validate-content and
\* publish.Derive); what passes is derived alike by resolveGraph: in any number of
\* concepts, files and edges, in whatever order a file lists them.
THEOREM DerivedAlike == SiteSpec => []ValidatedDerivesAlike
<1>1. SiteIInv => ValidatedDerivesAlike
  <2> SUFFICES ASSUME SiteIInv, Done PROVE /\ Validated <=> verdict["go"] = "ok" /\ repeated = {}
                                           /\ Validated => verdict["ts"] = "ok" /\ out["ts"] = out["go"]
    BY DEF ValidatedDerivesAlike
  <2>0. /\ "go" \in Sides /\ "ts" \in Sides /\ content \subseteq Authored /\ repeated \subseteq content
        /\ out \in [Sides -> [Concepts -> [Groups -> Seq(Concepts)]]]
    BY DEF SiteIInv, DeriveType, Sides
  <2>1. verdict["go"] \in {"ok", "refused"} /\ verdict["ts"] \in {"ok", "refused"}
    BY <2>0 DEF SiteIInv, DeriveType, Done
  <2>2. Validated <=> Sound("go", content) /\ OneRelationship(content) /\ repeated = {}
    BY <2>0, CheckedMeansSound
  <2>3. verdict["go"] = "ok" <=> Sound("go", content) /\ OneRelationship(content)
    BY <2>1 DEF SiteIInv, SideInv
  <2>4. ASSUME Validated PROVE verdict["ts"] = "ok" /\ out["ts"] = out["go"]
    <3>1. Sound("ts", content)
      BY <2>2, <2>4 DEF Sound, target
    <3>2. verdict["ts"] = "ok" /\ verdict["go"] = "ok"
      BY <2>1, <2>2, <2>3, <2>4, <3>1 DEF SiteIInv, SideInv
    <3>3. \A c \in Concepts : \A g \in Groups : out["ts"][c][g] = out["go"][c][g]
      BY <3>2 DEF SiteIInv, SideInv
    <3>4. \A c \in Concepts : out["ts"][c] = out["go"][c]
      BY <2>0, <3>3
    <3>5. out["ts"] = out["go"]
      BY <2>0, <3>4
    <3> QED BY <3>2, <3>5
  <2> QED BY <2>2, <2>3, <2>4
<1> QED BY SiteInvariance, <1>1, PTL

\* What the publish stores is one graph from whichever concept it is read: the
\* inverse and the symmetry of resolve, and the lines of neighborhood.
THEOREM OneGraph == SiteSpec => []ServedGraphIsOne
<1>1. SiteIInv => ServedGraphIsOne
  <2> SUFFICES ASSUME SiteIInv, verdict["go"] = "ok", NEW c \in Concepts, NEW d \in Concepts
               PROVE  /\ d \in Rows("go", c, "requires") <=> c \in Rows("go", d, "unlocks")
                      /\ d \in Rows("go", c, "adjacent") <=> c \in Rows("go", d, "adjacent")
                      /\ \A l \in links("go", c) : d \in {l[1], l[2]} => l \in links("go", d)
    BY DEF ServedGraphIsOne
  <2>1. \A a \in Concepts : \A g \in Groups : Rows("go", a, g) = Targets(content, a, g)
    <3> SUFFICES ASSUME NEW a \in Concepts, NEW g \in Groups PROVE Rows("go", a, g) = Targets(content, a, g)
      OBVIOUS
    <3>1. out["go"][a][g] = Sorted(Targets(content, a, g))
      BY DEF SiteIInv, SideInv
    <3>2. Targets(content, a, g) \in SUBSET Concepts
      BY DEF Targets
    <3> QED BY <3>1, <3>2, SortedTargets DEF Rows
  <2>2. \A a, b \in Concepts : \A g \in Groups : b \in Rows("go", a, g) <=> Related(content, a, g, b)
    BY <2>1 DEF Targets
  <2>3. \A a, b \in Concepts :
          /\ b \in Rows("go", a, "requires") <=> a \in Rows("go", b, "unlocks")
          /\ b \in Rows("go", a, "adjacent") <=> a \in Rows("go", b, "adjacent")
    BY <2>2 DEF Related, Groups
  <2>4. ASSUME NEW l \in links("go", c), d \in {l[1], l[2]} PROVE l \in links("go", d)
    <3>1. CASE \E e \in Rows("go", c, "requires") : l = <<e, c>>
      <4>1. PICK e \in Rows("go", c, "requires") : l = <<e, c>>
        BY <3>1
      <4>2. e \in Concepts
        BY <2>1, <4>1 DEF Targets, Groups
      <4>3. c \in Rows("go", e, "unlocks") /\ (d = e \/ d = c)
        BY <2>3, <2>4, <4>1, <4>2
      <4> QED BY <4>1, <4>3 DEF links
    <3>2. CASE \E e \in Rows("go", c, "unlocks") : l = <<c, e>>
      <4>1. PICK e \in Rows("go", c, "unlocks") : l = <<c, e>>
        BY <3>2
      <4>2. e \in Concepts
        BY <2>1, <4>1 DEF Targets, Groups
      <4>3. c \in Rows("go", e, "requires") /\ (d = e \/ d = c)
        BY <2>3, <2>4, <4>1, <4>2
      <4> QED BY <4>1, <4>3 DEF links
    <3> QED BY <2>4, <3>1, <3>2 DEF links
  <2> QED BY <2>3, <2>4
<1> QED BY SiteInvariance, <1>1, PTL

\* What a side accepts, as the contract says it, is what it finds sound and
\* related once.
LEMMA AcceptedMeansSound ==
  ASSUME content \subseteq Authored, NEW s \in Sides
  PROVE  Contract!Accepts(s, content) <=> Sound(s, content) /\ OneRelationship(content)
<1>0. /\ \A e \in content : /\ e.from \in Concepts /\ e.kind \in {"requires", "adjacent"}
                            /\ e.to \in Concepts \cup {Ghost} /\ e = Link(e.from, e.kind, e.to)
      /\ \A c, k, d : Link(c, k, d).from = c /\ Link(c, k, d).kind = k /\ Link(c, k, d).to = d
      /\ s \in {"go", "ts"} /\ Ghost \notin Concepts
  BY ConceptCount DEF Authored, Kinds, Link, Sides, Ghost, Concepts
<1>1. ASSUME Contract!Accepts(s, content) PROVE Sound(s, content)
  BY <1>0, <1>1 DEF Contract!Accepts, Sound, target
<1>2. ASSUME Contract!Accepts(s, content) PROVE OneRelationship(content)
  <2> SUFFICES ASSUME NEW c \in Concepts, NEW d \in Concepts, NEW g \in Groups, NEW h \in Groups,
                      Related(content, c, g, d), Related(content, c, h, d), g # h
               PROVE  FALSE
    BY DEF OneRelationship
  <2>1. \A a, b \in Concepts : ~(/\ Link(a, "requires", b) \in content
                                 /\ \/ Link(b, "requires", a) \in content
                                    \/ Link(a, "adjacent", b) \in content
                                    \/ Link(b, "adjacent", a) \in content)
    <3> SUFFICES ASSUME NEW a \in Concepts, NEW b \in Concepts, Link(a, "requires", b) \in content,
                        NEW f \in {Link(b, "requires", a), Link(a, "adjacent", b), Link(b, "adjacent", a)},
                        f \in content
                 PROVE  FALSE
      OBVIOUS
    <3>1. a # b
      BY <1>0, <1>2 DEF Contract!Accepts
    <3>2. f # Link(a, "requires", b) /\ {f.from, f.to} = {a, b}
      BY <1>0, <3>1
    <3> QED BY <1>0, <1>2, <3>2 DEF Contract!Accepts, Contract!Consistent
  <2> QED BY <2>1 DEF Groups, Related
<1>3. ASSUME Sound(s, content), OneRelationship(content) PROVE Contract!Accepts(s, content)
  <2>0. \A e \in content : e.to \in Concepts
    BY <1>0, <1>3 DEF Sound, target
  <2>1. ASSUME NEW e \in content, e.from = e.to PROVE s = "ts" /\ e.kind = "adjacent"
    <3>1. s = "ts"
      BY <1>0, <1>3, <2>1 DEF Sound, target
    <3>2. e.kind = "requires" => Related(content, e.from, "requires", e.to) /\ Related(content, e.from, "unlocks", e.to)
      BY <1>0, <2>1 DEF Related
    <3> QED BY <1>0, <1>3, <2>0, <3>1, <3>2 DEF OneRelationship, Groups
  <2>2. ASSUME NEW e \in content, NEW f \in content, e # f, {e.from, e.to} = {f.from, f.to}, e.kind = "requires"
        PROVE  FALSE
    <3>1. \/ f.from = e.from /\ f.to = e.to
          \/ f.from = e.to /\ f.to = e.from
      BY <2>2
    <3>2. Related(content, e.from, "requires", e.to)
      BY <1>0, <2>2 DEF Related
    <3>3. CASE f.kind = "requires"
      <4>1. f.from = e.to /\ f.to = e.from
        BY <1>0, <2>2, <3>1, <3>3
      <4>2. Related(content, e.from, "unlocks", e.to)
        BY <1>0, <3>3, <4>1 DEF Related
      <4> QED BY <1>0, <1>3, <2>0, <3>2, <4>2 DEF OneRelationship, Groups
    <3>4. CASE f.kind = "adjacent"
      <4>1. Related(content, e.from, "adjacent", e.to)
        BY <1>0, <3>1, <3>4 DEF Related
      <4> QED BY <1>0, <1>3, <2>0, <3>2, <4>1 DEF OneRelationship, Groups
    <3> QED BY <1>0, <3>3, <3>4
  <2>3. Contract!Consistent(content)
    BY <1>0, <2>2 DEF Contract!Consistent
  <2> QED BY <2>0, <2>1, <2>3 DEF Contract!Accepts
<1> QED BY <1>1, <1>2, <1>3

\* The rows of the edges' targets are the edges, seen from both ends.
LEMMA RowsAreRelations ==
  ASSUME NEW edges \in SUBSET Authored, \A e \in edges : e.to \in Concepts
  PROVE  {t \in Concepts \X Groups \X Concepts : t[3] \in Targets(edges, t[1], t[2])} = Contract!Relations(edges)
<1>0. /\ \A e \in edges : /\ e.from \in Concepts /\ e.kind \in {"requires", "adjacent"}
                          /\ e.to \in Concepts /\ e = Link(e.from, e.kind, e.to)
      /\ \A c, k, d : Link(c, k, d).from = c /\ Link(c, k, d).kind = k /\ Link(c, k, d).to = d
  BY DEF Authored, Kinds, Link
<1> DEFINE rows == {t \in Concepts \X Groups \X Concepts : t[3] \in Targets(edges, t[1], t[2])}
<1>1. \A c, d \in Concepts : \A g \in Groups : <<c, g, d>> \in rows <=> Related(edges, c, g, d)
  BY DEF Targets
<1>2. \A t \in rows : \E c, d \in Concepts : \E g \in Groups : t = <<c, g, d>>
  OBVIOUS
<1>3. \A t : t \in Contract!Relations(edges) <=> \E e \in edges : t \in Contract!BothEnds(e)
  BY DEF Contract!Relations
<1> HIDE DEF rows
<1>4. ASSUME NEW t \in Contract!Relations(edges) PROVE t \in rows
  <2>1. PICK e \in edges : t \in Contract!BothEnds(e)
    BY <1>3
  <2>2. CASE e.kind = "requires"
    <3>1. Related(edges, e.from, "requires", e.to) /\ Related(edges, e.to, "unlocks", e.from)
      BY <1>0, <2>2 DEF Related
    <3> QED BY <1>0, <1>1, <2>1, <2>2, <3>1 DEF Groups, Contract!BothEnds
  <2>3. CASE e.kind = "adjacent"
    <3>1. Related(edges, e.from, "adjacent", e.to) /\ Related(edges, e.to, "adjacent", e.from)
      BY <1>0, <2>3 DEF Related
    <3> QED BY <1>0, <1>1, <2>1, <2>3, <3>1 DEF Groups, Contract!BothEnds
  <2> QED BY <1>0, <2>2, <2>3
<1>5. ASSUME NEW t \in rows PROVE t \in Contract!Relations(edges)
  <2>1. PICK c \in Concepts : \E d \in Concepts : \E g \in Groups : t = <<c, g, d>>
    BY <1>2
  <2>2. PICK d \in Concepts : \E g \in Groups : t = <<c, g, d>>
    BY <2>1
  <2>3. PICK g \in Groups : t = <<c, g, d>>
    BY <2>2
  <2>4. Related(edges, c, g, d)
    BY <1>1, <1>5, <2>3
  <2>5. \A a, b, k : /\ k = "requires" => Contract!BothEnds(Link(a, k, b)) = {<<a, "requires", b>>, <<b, "unlocks", a>>}
                     /\ k = "adjacent" => Contract!BothEnds(Link(a, k, b)) = {<<a, "adjacent", b>>, <<b, "adjacent", a>>}
    BY <1>0 DEF Contract!BothEnds
  <2>6. CASE g = "requires"
    BY <1>3, <2>3, <2>4, <2>5, <2>6 DEF Related
  <2>7. CASE g = "unlocks"
    BY <1>3, <2>3, <2>4, <2>5, <2>7 DEF Related
  <2>8. CASE g = "adjacent"
    BY <1>3, <2>3, <2>4, <2>5, <2>8 DEF Related
  <2> QED BY <2>6, <2>7, <2>8 DEF Groups
<1> QED BY <1>4, <1>5 DEF rows

\* A side that comes to its verdict does what the contract says; until then the
\* contract sees nothing.
LEMMA StepOfContract ==
  ASSUME DeriveType, NEW s \in Sides, SideInv(s)', DeriveType', Others(s),
         verdict[s] = "open"
  PROVE  Contract!Decide(s) \/ UNCHANGED Contract!contractVars
<1>0. /\ content' = content /\ content \subseteq Authored /\ Sides = {"go", "ts"}
      /\ verdict' \in [Sides -> {"open", "ok", "refused"}]
      /\ \A r \in Sides \ {s} : verdict'[r] = verdict[r] /\ out'[r] = out[r]
  BY DEF Others, DeriveType, Sides
<1>1. /\ derivedGraph \in [Sides -> SUBSET (Concepts \X Groups \X Concepts)]
      /\ derivedGraph' \in [Sides -> SUBSET (Concepts \X Groups \X Concepts)]
      /\ \A r \in Sides \ {s} : derivedGraph'[r] = derivedGraph[r]
      /\ derivedGraph[s] = {}
  BY <1>0 DEF derivedGraph, Rows
<1>2. Contract!Accepts(s, content) <=> Sound(s, content) /\ OneRelationship(content)
  BY <1>0, AcceptedMeansSound
<1>3. verdict \in [Sides -> {"open", "ok", "refused"}]
  BY DEF DeriveType
<1>4. CASE verdict'[s] = "open"
  <2>1. derivedGraph'[s] = derivedGraph[s]
    BY <1>1, <1>4 DEF derivedGraph
  <2>2. derivedGraph' = derivedGraph
    BY <1>1, <2>1
  <2>3. verdict' = verdict
    BY <1>0, <1>3, <1>4
  <2> QED BY <1>0, <2>2, <2>3 DEF Contract!contractVars
<1>5. CASE verdict'[s] = "ok"
  <2>1. /\ Sound(s, content) /\ OneRelationship(content)
        /\ \A c \in Concepts : \A g \in Groups : out'[s][c][g] = Sorted(Targets(content, c, g))
    BY <1>0, <1>5 DEF SideInv
  <2>2. \A c \in Concepts : \A g \in Groups : ToSet(out'[s][c][g]) = Targets(content, c, g)
    <3>1. \A c \in Concepts : \A g \in Groups : Targets(content, c, g) \in SUBSET Concepts
      BY DEF Targets
    <3> QED BY <2>1, <3>1, SortedTargets
  <2>3. derivedGraph'[s] = {t \in Concepts \X Groups \X Concepts : t[3] \in Targets(content, t[1], t[2])}
    <3>1. derivedGraph'[s] = {t \in Concepts \X Groups \X Concepts : t[3] \in ToSet(out'[s][t[1]][t[2]])}
      BY <1>5 DEF derivedGraph, Rows
    <3>2. \A t \in Concepts \X Groups \X Concepts : ToSet(out'[s][t[1]][t[2]]) = Targets(content, t[1], t[2])
      BY <2>2
    <3> QED BY <3>1, <3>2
  <2>4. \A e \in content : e.to \in Concepts
    BY <1>0, <2>1 DEF Sound, target, Authored
  <2>5. derivedGraph'[s] = Contract!Relations(content)
    BY <1>0, <2>3, <2>4, RowsAreRelations
  <2>6. derivedGraph' = [derivedGraph EXCEPT ![s] = Contract!Relations(content)]
    BY <1>1, <2>5
  <2>7. verdict' = [verdict EXCEPT ![s] = "ok"]
    BY <1>0, <1>3, <1>5
  <2> QED BY <1>0, <1>2, <2>1, <2>6, <2>7 DEF Contract!Decide
<1>6. CASE verdict'[s] = "refused"
  <2>1. ~Contract!Accepts(s, content)
    BY <1>0, <1>2, <1>6 DEF SideInv
  <2>2. derivedGraph'[s] = {}
    BY <1>6 DEF derivedGraph
  <2>3. derivedGraph' = derivedGraph
    BY <1>1, <2>2
  <2>4. verdict' = [verdict EXCEPT ![s] = "refused"]
    BY <1>0, <1>3, <1>6
  <2> QED BY <1>0, <2>1, <2>3, <2>4 DEF Contract!Decide
<1> QED BY <1>0, <1>4, <1>5, <1>6

\* Both implementations of the derivation (publish.Derive and resolveGraph) keep
\* the contract: each decides once, by the edges alone, and holds what they say.
THEOREM DerivationImplements == SiteSpec => ContractSpec
<1>1. SiteInit => Contract!ContractInit
  <2> SUFFICES ASSUME SiteInit PROVE Contract!ContractInit
    OBVIOUS
  <2>1. content \subseteq Authored /\ verdict = [s \in Sides |-> "open"]
    BY SiteInitHolds DEF SiteIInv, DeriveType, SiteInit, DeriveInit
  <2>2. derivedGraph = [s \in Sides |-> {}]
    BY <2>1 DEF derivedGraph
  <2> QED BY <2>1, <2>2 DEF Contract!ContractInit, Sides, Authored, Kinds
<1>2. ASSUME SiteIInv, SiteIInv', [SiteNext]_<<derivation, building>>
      PROVE  [\E s \in {"go", "ts"} : Contract!Decide(s)]_(Contract!contractVars)
  <2>0. Sides = {"go", "ts"}
    BY DEF Sides
  <2>1. CASE Derive
    <3>1. PICK s \in Sides : Step(s)
      BY <2>0, <2>1 DEF Derive
    <3>2. SideInv(s) /\ SideInv(s)' /\ DeriveType /\ DeriveType'
      BY <1>2, <2>0 DEF SiteIInv
    <3>3. Others(s) /\ verdict[s] = "open"
      BY <3>1, <3>2, SideStep
    <3> QED BY <2>0, <3>2, <3>3, StepOfContract
  <2>2. CASE Build \/ UNCHANGED <<derivation, building>>
    <3>1. content' = content /\ verdict' = verdict /\ out' = out
      BY <2>2 DEF Build, derivation
    <3> QED BY <3>1 DEF Contract!contractVars, derivedGraph, Rows
  <2> QED BY <1>2, <2>1, <2>2 DEF SiteNext
<1> QED BY <1>1, <1>2, SiteInvariance, PTL DEF SiteSpec, ContractSpec, Contract!ContractSpec

-----------------------------------------------------------------------------
\* Lemmas about the site.

\* A function on the concepts has a greatest value.
LEMMA GreatestExists ==
  ASSUME NEW f \in [Concepts -> Nat]
  PROVE  \E c \in Concepts : \A d \in Concepts : f[d] <= f[c]
<1> DEFINE has(n) == \E c \in 1..n : \A d \in 1..n : f[d] <= f[c]
           without == {n \in 1..Size : ~has(n)}
<1>0. Size \in Nat /\ Size # 0 /\ Concepts = 1..Size
  BY ConceptCount DEF Concepts
<1>1. ASSUME without # {} PROVE FALSE
  <2>1. without \in SUBSET Nat
    BY <1>0
  <2>2. PICK n \in without : \A k \in without : n <= k
    BY <1>1, <2>1, Least
  <2>3. n \in 1..Size /\ ~has(n)
    BY <2>2
  <2>4. CASE n = 1
    <3>1. 1 \in 1..1 /\ \A d \in 1..1 : d = 1
      OBVIOUS
    <3>2. f[1] \in Nat
      BY <1>0, <2>3, <2>4
    <3> QED BY <2>3, <2>4, <3>1, <3>2
  <2>5. CASE n # 1
    <3>1. n - 1 \in 1..Size /\ n \in Nat /\ ~(n <= n - 1)
      BY <1>0, <2>3, <2>5
    <3>2. has(n - 1)
      <4>1. n - 1 \notin without
        BY <2>2, <3>1
      <4> HIDE DEF has
      <4> QED BY <3>1, <4>1
    <3>3. PICK c \in 1..(n - 1) : \A d \in 1..(n - 1) : f[d] <= f[c]
      BY <3>2
    <3>4. /\ f[c] \in Nat /\ f[n] \in Nat /\ c \in 1..n /\ n \in 1..n
          /\ \A d \in 1..n : (d \in 1..(n - 1) \/ d = n) /\ f[d] \in Nat
      <4>1. n \in Nat /\ c \in Nat /\ 1 <= c /\ c <= n - 1 /\ n \in 1..Size
        BY <2>3, <3>1, <3>3
      <4>2. c \in 1..n /\ n \in 1..n /\ c \in 1..Size
        BY <1>0, <4>1
      <4>3. \A d \in 1..n : (d \in 1..(n - 1) \/ d = n) /\ d \in 1..Size
        BY <1>0, <4>1
      <4> QED BY <1>0, <4>1, <4>2, <4>3
    <3>5. CASE f[n] <= f[c]
      <4>1. \A d \in 1..n : f[d] <= f[c]
        BY <3>3, <3>4, <3>5
      <4> QED BY <2>3, <3>4, <4>1
    <3>6. CASE ~(f[n] <= f[c])
      <4>1. \A d \in 1..n : f[d] <= f[n]
        BY <3>3, <3>4, <3>6
      <4> QED BY <2>3, <3>4, <4>1
    <3> QED BY <3>5, <3>6
  <2> QED BY <2>4, <2>5
<1>2. Size \in 1..Size
  BY <1>0
<1>3. has(Size)
  BY <1>1, <1>2
<1> QED BY <1>0, <1>3

\* The newest date is no older than any.
LEMMA NewestOfAll ==
  ASSUME input \in Inputs
  PROVE  \A c \in Concepts : input.updated[c] <= newestOf
<1> DEFINE dates == {input.updated[c] : c \in Concepts}
<1>1. input.updated \in [Concepts -> Nat]
  BY SiteBuildAssumption
<1>2. PICK c \in Concepts : \A d \in Concepts : input.updated[d] <= input.updated[c]
  BY <1>1, GreatestExists
<1>3. \E m \in dates : \A k \in dates : m >= k
  BY <1>1, <1>2
<1>4. newestOf \in dates /\ \A k \in dates : newestOf >= k
  <2> HIDE DEF dates
  <2>1. Max(dates) \in dates /\ \A k \in dates : Max(dates) >= k
    BY <1>3 DEF Max
  <2> QED BY <2>1 DEF newestOf, dates
<1> QED BY <1>1, <1>4

\* A domain has one heading, and every heading is a concept's domain.
LEMMA Headings ==
  /\ \A g \in directory : /\ g = Heading(g.name)
                          /\ \E c \in Concepts : domain[c][1] = g.name
                          /\ g.count = Cardinality({c \in Concepts : domain[c][1] = g.name})
                          /\ \A e \in g.sections : \A d \in e.entries : d \in Concepts /\ domain[d][1] = g.name
  /\ \A c \in Concepts : Heading(domain[c][1]) \in directory /\ Heading(domain[c][1]).name = domain[c][1]
<1>1. ASSUME NEW top
      PROVE  /\ Heading(top).name = top
             /\ Heading(top).sections = {Section(c) : c \in {d \in Concepts : domain[d][1] = top}}
             /\ Heading(top).count = Cardinality(UNION {s.entries : s \in Heading(top).sections})
  BY DEF Heading
<1>2. ASSUME NEW top, NEW e \in Heading(top).sections, NEW d \in e.entries
      PROVE  d \in Concepts /\ domain[d][1] = top
  <2>1. e \in {Section(c) : c \in {x \in Concepts : domain[x][1] = top}}
    BY <1>1, <1>2
  <2>2. PICK c \in Concepts : domain[c][1] = top /\ e = Section(c)
    BY <2>1
  <2> QED BY <1>2, <2>2 DEF Section
<1>3. ASSUME NEW top
      PROVE  Heading(top).count = Cardinality({c \in Concepts : domain[c][1] = top})
  <2>1. ASSUME NEW c \in Concepts, domain[c][1] = top
        PROVE  Section(c) \in Heading(top).sections /\ c \in Section(c).entries
    <3>1. Heading(top).sections = {Section(x) : x \in {d \in Concepts : domain[d][1] = top}}
      BY <1>1
    <3>2. Section(c) \in Heading(top).sections
      BY <2>1, <3>1
    <3>3. c \in Section(c).entries
      BY DEF Section
    <3> QED BY <3>2, <3>3
  <2>2. UNION {s.entries : s \in Heading(top).sections} = {c \in Concepts : domain[c][1] = top}
    BY <1>2, <2>1
  <2> QED BY <1>1, <2>2
<1>4. ASSUME NEW g \in directory
      PROVE  /\ g = Heading(g.name)
             /\ \E c \in Concepts : domain[c][1] = g.name
             /\ g.count = Cardinality({c \in Concepts : domain[c][1] = g.name})
             /\ \A e \in g.sections : \A d \in e.entries : d \in Concepts /\ domain[d][1] = g.name
  <2>1. PICK c \in Concepts : g = Heading(domain[c][1])
    BY DEF directory
  <2>2. g.name = domain[c][1]
    BY <1>1, <2>1
  <2>3. g = Heading(g.name)
    BY <2>1, <2>2
  <2>4. g.count = Cardinality({x \in Concepts : domain[x][1] = g.name})
    BY <1>3, <2>3
  <2> QED BY <1>2, <2>2, <2>3, <2>4
<1>5. \A c \in Concepts : Heading(domain[c][1]) \in directory
  BY DEF directory
<1> QED BY <1>1, <1>4, <1>5

\* With an address each, a domain's page shows the concepts of that domain; the
\* other pages their own.
LEMMA ShownPages ==
  ASSUME \A g \in directory : ~refusesAddress(g)
  PROVE  /\ \A g, h \in directory : DomainPath(g) = DomainPath(h) => g = h
         /\ \A g \in directory : Shown(DomainPath(g)) = {c \in Concepts : domain[c][1] = g.name}
         /\ \A c \in Concepts : Shown(ConceptPath(c)) = {c}
         /\ \A r \in {"/", "/concepts"} : Shown(FixedPath(r)) = Concepts
<1>1. ASSUME NEW g \in directory, NEW h \in directory, DomainPath(g) = DomainPath(h) PROVE g = h
  <2>1. slugFor[g.name] = slugFor[h.name]
    BY <1>1 DEF DomainPath
  <2> QED BY <2>1 DEF refusesAddress
<1>2. /\ \A g : DomainPath(g).route = "concepts"
      /\ \A c : ConceptPath(c).route = "c" /\ ConceptPath(c).of = c
      /\ \A r : FixedPath(r).route = r
  BY DEF DomainPath, ConceptPath, FixedPath
<1>3. ASSUME NEW g \in directory PROVE Shown(DomainPath(g)) = {c \in Concepts : domain[c][1] = g.name}
  BY <1>1, <1>2 DEF Shown
<1>4. ASSUME NEW c \in Concepts PROVE Shown(ConceptPath(c)) = {c}
  BY <1>2 DEF Shown
<1>5. ASSUME NEW r \in {"/", "/concepts"} PROVE Shown(FixedPath(r)) = Concepts
  BY <1>2 DEF Shown
<1> QED BY <1>1, <1>3, <1>4, <1>5

\* What a site that was built looks like.
LEMMA BuiltIsWhole ==
  ASSUME input \in Inputs, \A g \in directory : ~refusesAddress(g)
  PROVE  /\ \A p, q \in sitemapPages : p.path = q.path => p = q
         /\ {p.path : p \in sitemapPages} = Pages \ {FixedPath(r) : r \in {"/search", "/request", "/t", "/404"}}
         /\ \A p \in sitemapPages : /\ p.listed \subseteq Shown(p.path) /\ Shown(p.path) # {}
                                    /\ \A c \in Shown(p.path) : input.updated[c] <= p.lastmod
         /\ \A c \in Concepts : Cardinality({g \in directory : c \in Shown(DomainPath(g))}) = 1
         /\ \A g \in directory : g.count = Cardinality(Shown(DomainPath(g)))
<1> DEFINE DomainEntry(g) == [path |-> DomainPath(g), lastmod |-> newestOf, listed |-> UNION {s.entries : s \in g.sections}]
           ConceptEntry(c) == [path |-> ConceptPath(c), lastmod |-> input.updated[c], listed |-> {c}]
           RouteEntry(r) == [path |-> FixedPath(r), lastmod |-> newestOf, listed |-> {}]
           Entry(p) == \/ \E g \in directory : p = DomainEntry(g)
                       \/ \E c \in Concepts : p = ConceptEntry(c)
                       \/ \E r \in {"/", "/concepts"} : p = RouteEntry(r)
<1>1. \A p : p \in sitemapPages <=> Entry(p)
  BY DEF sitemapPages, indexedDomains, indexedConcepts, indexedRoutes
<1>2. /\ \A g : DomainPath(g).route = "concepts"
      /\ \A c : ConceptPath(c).route = "c" /\ ConceptPath(c).of = c
      /\ \A r : FixedPath(r).route = r
  BY DEF DomainPath, ConceptPath, FixedPath
<1>3. /\ \A g : DomainEntry(g).path = DomainPath(g) /\ DomainEntry(g).lastmod = newestOf
      /\ \A c : /\ ConceptEntry(c).path = ConceptPath(c) /\ ConceptEntry(c).lastmod = input.updated[c]
                /\ ConceptEntry(c).listed = {c}
      /\ \A r : /\ RouteEntry(r).path = FixedPath(r) /\ RouteEntry(r).lastmod = newestOf
                /\ RouteEntry(r).listed = {}
      /\ \A g \in directory : \A d \in DomainEntry(g).listed : d \in Concepts /\ domain[d][1] = g.name
  <2>1. ASSUME NEW g \in directory, NEW d \in DomainEntry(g).listed
        PROVE  d \in Concepts /\ domain[d][1] = g.name
    <3>1. PICK e \in g.sections : d \in e.entries
      BY <2>1
    <3> QED BY <3>1, Headings
  <2> QED BY <2>1
<1> HIDE DEF DomainEntry, ConceptEntry, RouteEntry
<1>4. ASSUME NEW p \in sitemapPages, NEW q \in sitemapPages, p.path = q.path PROVE p = q
  <2>1. CASE \E g \in directory : p = DomainEntry(g)
    <3>1. PICK g \in directory : p = DomainEntry(g)
      BY <2>1
    <3>2. p.path = DomainPath(g) /\ q.path.route = "concepts"
      BY <1>2, <1>3, <1>4, <3>1
    <3>3. \E h \in directory : q = DomainEntry(h)
      BY <1>1, <1>2, <1>3, <3>2
    <3> QED BY <1>3, <1>4, <3>1, <3>3, ShownPages
  <2>2. CASE \E c \in Concepts : p = ConceptEntry(c)
    <3>1. PICK c \in Concepts : p = ConceptEntry(c)
      BY <2>2
    <3>2. q.path.route = "c" /\ q.path.of = c
      BY <1>2, <1>3, <1>4, <3>1
    <3>3. PICK d \in Concepts : q = ConceptEntry(d)
      BY <1>1, <1>2, <1>3, <3>2
    <3>4. d = c
      BY <1>2, <1>3, <3>2, <3>3
    <3> QED BY <3>1, <3>3, <3>4
  <2>3. CASE \E r \in {"/", "/concepts"} : p = RouteEntry(r)
    <3>1. PICK r \in {"/", "/concepts"} : p = RouteEntry(r)
      BY <2>3
    <3>2. q.path.route = r
      BY <1>2, <1>3, <1>4, <3>1
    <3>3. PICK t \in {"/", "/concepts"} : q = RouteEntry(t)
      BY <1>1, <1>2, <1>3, <3>2
    <3>4. t = r
      BY <1>2, <1>3, <3>2, <3>3
    <3> QED BY <3>1, <3>3, <3>4
  <2> QED BY <1>1, <2>1, <2>2, <2>3
<1>5. {p.path : p \in sitemapPages} = Pages \ {FixedPath(r) : r \in {"/search", "/request", "/t", "/404"}}
  <2> DEFINE tools == {FixedPath(r) : r \in {"/search", "/request", "/t", "/404"}}
  <2>1. ASSUME NEW p \in sitemapPages PROVE p.path \in Pages \ tools
    <3>1. CASE \E g \in directory : p = DomainEntry(g)
      BY <1>2, <1>3, <3>1 DEF Pages
    <3>2. CASE \E c \in Concepts : p = ConceptEntry(c)
      BY <1>2, <1>3, <3>2 DEF Pages
    <3>3. CASE \E r \in {"/", "/concepts"} : p = RouteEntry(r)
      BY <1>2, <1>3, <3>3 DEF Pages
    <3> QED BY <1>1, <3>1, <3>2, <3>3
  <2>2. ASSUME NEW x \in Pages \ tools PROVE \E p \in sitemapPages : x = p.path
    <3>1. CASE \E g \in directory : x = DomainPath(g)
      <4>1. PICK g \in directory : x = DomainPath(g)
        BY <3>1
      <4>2. DomainEntry(g) \in sitemapPages /\ DomainEntry(g).path = x
        BY <1>1, <1>3, <4>1
      <4> QED BY <4>2
    <3>2. CASE \E c \in Concepts : x = ConceptPath(c)
      <4>1. PICK c \in Concepts : x = ConceptPath(c)
        BY <3>2
      <4>2. ConceptEntry(c) \in sitemapPages /\ ConceptEntry(c).path = x
        BY <1>1, <1>3, <4>1
      <4> QED BY <4>2
    <3>3. CASE \E r \in {"/", "/concepts"} : x = FixedPath(r)
      <4>1. PICK r \in {"/", "/concepts"} : x = FixedPath(r)
        BY <3>3
      <4>2. RouteEntry(r) \in sitemapPages /\ RouteEntry(r).path = x
        BY <1>1, <1>3, <4>1
      <4> QED BY <4>2
    <3> QED BY <3>1, <3>2, <3>3 DEF Pages
  <2> HIDE DEF tools
  <2>3. {p.path : p \in sitemapPages} = Pages \ tools
    BY <2>1, <2>2
  <2> QED BY <2>3 DEF tools
<1>6. ASSUME NEW p \in sitemapPages
      PROVE  /\ p.listed \subseteq Shown(p.path) /\ Shown(p.path) # {}
             /\ \A c \in Shown(p.path) : input.updated[c] <= p.lastmod
  <2>0. \A c \in Concepts : input.updated[c] <= newestOf /\ input.updated[c] <= input.updated[c]
    BY NewestOfAll, SiteBuildAssumption
  <2>1. CASE \E g \in directory : p = DomainEntry(g)
    <3>1. PICK g \in directory : p = DomainEntry(g)
      BY <2>1
    <3>2. Shown(p.path) = {c \in Concepts : domain[c][1] = g.name}
      BY <1>3, <3>1, ShownPages
    <3>3. \E c \in Concepts : domain[c][1] = g.name
      BY Headings
    <3> QED BY <1>3, <2>0, <3>1, <3>2, <3>3
  <2>2. CASE \E c \in Concepts : p = ConceptEntry(c)
    <3>1. PICK c \in Concepts : p = ConceptEntry(c)
      BY <2>2
    <3>2. Shown(p.path) = {c}
      BY <1>3, <3>1, ShownPages
    <3> QED BY <1>3, <2>0, <3>1, <3>2
  <2>3. CASE \E r \in {"/", "/concepts"} : p = RouteEntry(r)
    <3>1. PICK r \in {"/", "/concepts"} : p = RouteEntry(r)
      BY <2>3
    <3>2. Shown(p.path) = Concepts
      BY <1>3, <3>1, ShownPages
    <3>3. 1 \in Concepts
      BY ConceptCount DEF Concepts
    <3> QED BY <1>3, <2>0, <3>1, <3>2, <3>3
  <2> QED BY <1>1, <2>1, <2>2, <2>3
<1>7. ASSUME NEW c \in Concepts PROVE Cardinality({g \in directory : c \in Shown(DomainPath(g))}) = 1
  <2>1. \A g \in directory : c \in Shown(DomainPath(g)) <=> g.name = domain[c][1]
    BY ShownPages
  <2>2. {g \in directory : c \in Shown(DomainPath(g))} = {Heading(domain[c][1])}
    BY <2>1, Headings
  <2> QED BY <2>2, FS_Singleton
<1>8. \A g \in directory : g.count = Cardinality(Shown(DomainPath(g)))
  BY ShownPages, Headings
<1> QED BY <1>4, <1>5, <1>6, <1>7, <1>8

\* What passed the content check and was not built has a name without an address,
\* a part of the lemniscate missing, or a bead whose label the build does not know.
LEMMA FailedAtTheBuild ==
  ASSUME DeriveType, SideInv("ts"), verdict["ts"] # "open", ~Buildable, Passed
  PROVE  \/ \E g \in directory : refusesAddress(g)
         \/ ~(parts \subseteq DOMAIN layout)
         \/ \E b \in lobes : \E i \in DOMAIN part(b[1]) : ~Labelled(part(b[1])[i])
<1>1. verdict["ts"] = "ok"
  <2>1. /\ verdict["ts"] \in {"ok", "refused"}
        /\ content \subseteq Authored /\ repeated \subseteq content
    BY DEF DeriveType, Sides
  <2>2. Sound("go", content) /\ OneRelationship(content)
    BY <2>1, CheckedMeansSound DEF Passed
  <2>3. Sound("ts", content)
    BY <2>2 DEF Sound, target
  <2> QED BY <2>1, <2>2, <2>3 DEF SideInv
<1>2. CASE ~placesLayout /\ parts \subseteq DOMAIN layout
  <2>1. PICK b \in lobes : \E i \in DOMAIN part(b[1]) :
          ~(part(b[1])[i].id \in Concepts /\ Fraction(part(b[1])[i].t) /\ Labelled(part(b[1])[i]))
    BY <1>2 DEF placesLayout, Passed, validateLayout
  <2>2. \A i \in DOMAIN part(b[1]) : part(b[1])[i].id \in Concepts /\ Fraction(part(b[1])[i].t)
    BY DEF Passed, validateLayout, staleLobes
  <2> QED BY <2>1, <2>2
<1> QED BY <1>1, <1>2 DEF Buildable

\* Whatever the domains are called and however the lemniscate is drawn, a site
\* that was built shows every concept under one address and lists every page
\* (domainRoutes, siteindex.ts), and what the content check passes is built but
\* for what only the build looks at.
THEOREM WholeSite == SiteSpec => []SiteIsWhole
<1>1. SiteIInv => SiteIsWhole
  <2> SUFFICES ASSUME SiteIInv PROVE SiteIsWhole
    OBVIOUS
  <2>1. CASE built = "built"
    <3>1. input \in Inputs /\ \A g \in directory : ~refusesAddress(g)
      BY <2>1 DEF SiteIInv, BuildInv, Buildable
    <3> QED BY <2>1, <3>1, BuiltIsWhole DEF SiteIsWhole
  <2>2. CASE built = "failed"
    <3>1. verdict["ts"] # "open" /\ ~Buildable
      BY <2>2 DEF SiteIInv, BuildInv
    <3> QED BY <2>2, <3>1, FailedAtTheBuild DEF SiteIInv, SiteIsWhole
  <2>3. CASE built = "open"
    BY <2>3 DEF SiteIsWhole
  <2> QED BY <2>1, <2>2, <2>3 DEF SiteIInv, BuildInv
<1> QED BY SiteInvariance, <1>1, PTL

-----------------------------------------------------------------------------
\* The deploy workflow.

\* What the graph of v wants stored of concept c.
Wanted(v, c) == IF c \in GraphOf[v] THEN v ELSE 0

\* Commits are started in order: what is queued is no older than what runs, and
\* what runs is no older than what was published last.
OrderInv ==
  /\ published <= head
  /\ commit # 0 => published <= commit /\ commit <= head
  /\ queued # 0 => published <= queued /\ commit <= queued /\ queued <= head

\* While the writes of a Sync are going out, each of them is one that its commit
\* wants, and none having failed, what is not yet as wanted is still to come.
WritingInv ==
  step = "write" =>
    /\ \A w \in pending :
         w.to = IF w.at = "stats" THEN commit ELSE Wanted(commit, w.id)
    /\ ~broken =>
         /\ \A c \in Ids :
              /\ doc[c] = Wanted(commit, c)
                   \/ [at |-> "doc", id |-> c, to |-> Wanted(commit, c)] \in pending
              /\ hood[c] = Wanted(commit, c)
                   \/ [at |-> "hood", id |-> c, to |-> Wanted(commit, c)] \in pending
         /\ stats = commit \/ [at |-> "stats", to |-> commit] \in pending

\* The three systems follow in the order of the workflow.
StageInv ==
  /\ step \in {"api", "site", "check"} => published = commit /\ StoreIs(commit)
  /\ step \in {"site", "check"} => api = commit
  /\ step = "check" => site = commit

IInv == TypeOK /\ OrderInv /\ WritingInv /\ StageInv /\ SiteNeverAhead /\ GreenMeansConverged
-----------------------------------------------------------------------------
\* Lemmas about one step.

\* A write names one document and is one of three kinds.
LEMMA WriteKinds ==
  ASSUME NEW w \in Writes
  PROVE  /\ w.at \in {"doc", "hood", "stats"} /\ w.to \in Versions
         /\ w.at # "stats" => w.id \in Ids /\ w = [at |-> w.at, id |-> w.id, to |-> w.to]
         /\ w.at = "stats" => w = [at |-> "stats", to |-> w.to]
BY DEF Writes

\* A write that lands sets the one document it names.
LEMMA AppliedSets ==
  ASSUME TypeOK, NEW w \in Writes, Applied(w)
  PROVE  /\ doc' \in [Ids -> Versions] /\ hood' \in [Ids -> Versions] /\ stats' \in Versions
         /\ \A c \in Ids : doc'[c] = IF w.at = "doc" /\ w.id = c THEN w.to ELSE doc[c]
         /\ \A c \in Ids : hood'[c] = IF w.at = "hood" /\ w.id = c THEN w.to ELSE hood[c]
         /\ stats' = IF w.at = "stats" THEN w.to ELSE stats
BY WriteKinds DEF TypeOK, Applied

\* What a Sync sends is of the type of writes, and wanted.
LEMMA WritesWanted ==
  ASSUME TypeOK, step = "list"
  PROVE  /\ WritesOf(commit) \subseteq Writes
         /\ \A w \in WritesOf(commit) :
              w.to = IF w.at = "stats" THEN commit ELSE Wanted(commit, w.id)
<1>1. commit \in 1..Commits
  BY DeployAssumption DEF TypeOK, Versions
<1>2. GraphOf[commit] \subseteq Ids /\ commit \in Versions /\ 0 \in Versions
  BY <1>1, DeployAssumption DEF Versions
<1> QED BY <1>2 DEF WritesOf, Writes, Wanted, existingConceptIDs

\* A run that ends leaves nothing under way.
Ended ==
  /\ commit' = 0 /\ step' = "idle" /\ pending' = {}
  /\ broken' \in BOOLEAN /\ red' \in BOOLEAN

\* The end of a run.
LEMMA EndEnds ==
  ASSUME NEW failed \in BOOLEAN, End(failed)
  PROVE  Ended
BY Zenon DEF End, Ended

\* Every variable stays in its type.
LEMMA TypeStep ==
  ASSUME TypeOK, [Next]_vars
  PROVE  TypeOK'
<1> USE DeployAssumption DEF TypeOK, Versions, Steps, store, served
<1>1. CASE Merge BY <1>1 DEF Merge
<1>2. CASE Rerun BY <1>2 DEF Rerun
<1>3. CASE Start BY <1>3 DEF Start
<1>4. CASE Fails
  <2>1. Ended /\ failures < MaxFailures /\ failures' = failures + 1
          /\ UNCHANGED <<head, queued, store, served, published>>
    BY <1>4, EndEnds, Zenon DEF Fails
  <2> QED BY <2>1 DEF Ended
<1>5. CASE List
  <2>1. CASE GraphOf[commit] = {} 
    <3>1. Ended /\ UNCHANGED <<head, queued, store, served, failures, published>>
      BY <1>5, <2>1, EndEnds, Zenon DEF List
    <3> QED BY <3>1 DEF Ended
  <2>2. CASE GraphOf[commit] # {} BY <1>5, <2>2, WritesWanted DEF List
  <2> QED BY <2>1, <2>2
<1>6. ASSUME NEW w \in pending, Write(w) PROVE TypeOK'
  <2>1. w \in Writes /\ step = "write"
    BY <1>6
  <2> QED BY <1>6, <2>1, AppliedSets DEF Write
<1>7. ASSUME NEW w \in pending, WriteFails(w) PROVE TypeOK'
  <2>1. w \in Writes /\ step = "write"
    BY <1>7
  <2>2. CASE Applied(w) BY <1>7, <2>1, <2>2, AppliedSets DEF WriteFails
  <2>3. CASE UNCHANGED store BY <1>7, <2>1, <2>3 DEF WriteFails
  <2> QED BY <1>7, <2>2, <2>3 DEF WriteFails
<1>8. CASE Flush
  <2>1. CASE broken
    <3>1. Ended /\ UNCHANGED <<published, head, queued, store, served, failures>>
      BY <1>8, <2>1, EndEnds, Zenon DEF Flush
    <3> QED BY <3>1 DEF Ended
  <2>2. CASE ~broken BY <1>8, <2>2 DEF Flush
  <2> QED BY <2>1, <2>2
<1>9. CASE ShipApi BY <1>9 DEF ShipApi
<1>10. CASE ShipSite BY <1>10 DEF ShipSite
<1>11. CASE Check
  <2>1. Ended /\ UNCHANGED <<head, queued, store, served, failures, published>>
    BY <1>11, EndEnds, Zenon DEF Check
  <2> QED BY <2>1 DEF Ended
<1>12. CASE UNCHANGED vars BY <1>12 DEF vars
<1> QED BY <1>1, <1>2, <1>3, <1>4, <1>5, <1>6, <1>7, <1>8, <1>9, <1>10, <1>11, <1>12 DEF Next, Run

\* Commits are started in the order of their merges.
LEMMA OrderStep ==
  ASSUME TypeOK, OrderInv, StageInv, [Next]_vars
  PROVE  OrderInv'
<1> USE DeployAssumption DEF TypeOK, Versions, OrderInv, store, served
<1>1. CASE Merge BY <1>1 DEF Merge
<1>2. CASE Rerun BY <1>2 DEF Rerun
<1>3. CASE Start BY <1>3 DEF Start
<1>4. CASE Fails BY <1>4 DEF Fails, End
<1>5. CASE List BY <1>5 DEF List, End
<1>6. ASSUME NEW w \in pending, Write(w) PROVE OrderInv' BY <1>6 DEF Write
<1>7. ASSUME NEW w \in pending, WriteFails(w) PROVE OrderInv' BY <1>7 DEF WriteFails
<1>8. CASE Flush BY <1>8 DEF Flush, End
<1>9. CASE ShipApi BY <1>9 DEF ShipApi
<1>10. CASE ShipSite BY <1>10 DEF ShipSite
<1>11. CASE Check BY <1>11 DEF Check, End
<1>12. CASE UNCHANGED vars BY <1>12 DEF vars
<1> QED BY <1>1, <1>2, <1>3, <1>4, <1>5, <1>6, <1>7, <1>8, <1>9, <1>10, <1>11, <1>12 DEF Next, Run


\* The listing makes one write of each document the commit wants otherwise.
LEMMA ListStep ==
  ASSUME TypeOK, List
  PROVE  WritingInv'
<1>1. CASE GraphOf[commit] = {}
  BY <1>1 DEF List, End, WritingInv
<1>2. CASE GraphOf[commit] # {}
  <2>1. /\ pending' = WritesOf(commit)
        /\ commit' = commit /\ doc' = doc /\ hood' = hood /\ stats' = stats
    BY <1>2 DEF List, store
  <2>2. \A w \in pending' : w.to = IF w.at = "stats" THEN commit' ELSE Wanted(commit, w.id)
    BY <2>1, WritesWanted DEF List
  <2>3. ASSUME NEW c \in Ids
        PROVE  /\ doc[c] = Wanted(commit, c)
                    \/ [at |-> "doc", id |-> c, to |-> Wanted(commit, c)] \in WritesOf(commit)
               /\ hood[c] = Wanted(commit, c)
                    \/ [at |-> "hood", id |-> c, to |-> Wanted(commit, c)] \in WritesOf(commit)
    <3>1. CASE c \in GraphOf[commit]
      BY <3>1 DEF Wanted, WritesOf
    <3>2. CASE c \in existingConceptIDs \ GraphOf[commit]
      BY <3>2 DEF Wanted, WritesOf
    <3>3. CASE c \notin existingConceptIDs /\ c \notin GraphOf[commit]
      BY <3>3 DEF Wanted, existingConceptIDs
    <3> QED BY <3>1, <3>2, <3>3
  <2>4. [at |-> "stats", to |-> commit] \in WritesOf(commit)
    BY DEF WritesOf
  <2> QED BY <2>1, <2>2, <2>3, <2>4 DEF WritingInv, Wanted
<1> QED BY <1>1, <1>2

\* A write that lands, or fails, leaves the others to come.
LEMMA OneWriteStep ==
  ASSUME TypeOK, WritingInv, NEW w \in pending, pending' = pending \ {w},
         UNCHANGED <<commit, step>>,
         \/ Applied(w) /\ UNCHANGED broken
         \/ broken'
  PROVE  WritingInv'
<1>1. w \in Writes /\ step = "write"
  BY DEF TypeOK
<1>2. \A u \in pending' :
        u.to = IF u.at = "stats" THEN commit' ELSE Wanted(commit', u.id)
  BY <1>1 DEF WritingInv
<1>3. ASSUME ~broken', Applied(w)
      PROVE  /\ \A c \in Ids :
                  /\ doc'[c] = Wanted(commit, c)
                       \/ [at |-> "doc", id |-> c, to |-> Wanted(commit, c)] \in pending'
                  /\ hood'[c] = Wanted(commit, c)
                       \/ [at |-> "hood", id |-> c, to |-> Wanted(commit, c)] \in pending'
             /\ stats' = commit \/ [at |-> "stats", to |-> commit] \in pending'
  <2>1. ~broken /\ w.to = IF w.at = "stats" THEN commit ELSE Wanted(commit, w.id)
    BY <1>1, <1>3 DEF WritingInv
  <2>2. ASSUME NEW c \in Ids
        PROVE  doc'[c] = Wanted(commit, c)
                 \/ [at |-> "doc", id |-> c, to |-> Wanted(commit, c)] \in pending'
    <3>1. CASE w = [at |-> "doc", id |-> c, to |-> Wanted(commit, c)]
      BY <1>1, <1>3, <3>1, AppliedSets
    <3>2. CASE w # [at |-> "doc", id |-> c, to |-> Wanted(commit, c)]
      <4>1. doc'[c] = doc[c] \/ doc'[c] = Wanted(commit, c)
        BY <1>1, <1>3, <2>1, AppliedSets
      <4> QED BY <1>1, <2>1, <3>2, <4>1 DEF WritingInv
    <3> QED BY <3>1, <3>2
  <2>3. ASSUME NEW c \in Ids
        PROVE  hood'[c] = Wanted(commit, c)
                 \/ [at |-> "hood", id |-> c, to |-> Wanted(commit, c)] \in pending'
    <3>1. CASE w = [at |-> "hood", id |-> c, to |-> Wanted(commit, c)]
      BY <1>1, <1>3, <3>1, AppliedSets
    <3>2. CASE w # [at |-> "hood", id |-> c, to |-> Wanted(commit, c)]
      <4>1. hood'[c] = hood[c] \/ hood'[c] = Wanted(commit, c)
        BY <1>1, <1>3, <2>1, AppliedSets
      <4> QED BY <1>1, <2>1, <3>2, <4>1 DEF WritingInv
    <3> QED BY <3>1, <3>2
  <2>4. stats' = commit \/ [at |-> "stats", to |-> commit] \in pending'
    BY <1>1, <1>3, <2>1, AppliedSets, WriteKinds DEF WritingInv
  <2> QED BY <2>2, <2>3, <2>4
<1> QED BY <1>1, <1>2, <1>3 DEF WritingInv, Wanted

\* The invariant of the writes is kept by every step.
LEMMA WritingStep ==
  ASSUME TypeOK, WritingInv, [Next]_vars
  PROVE  WritingInv'
<1>1. ASSUME step' # "write" PROVE WritingInv'
  BY <1>1 DEF WritingInv
<1>2. ASSUME UNCHANGED <<commit, step, pending, broken, store>> PROVE WritingInv'
  BY <1>2 DEF WritingInv, store, Wanted
<1>3. CASE List BY <1>3, ListStep
<1>4. ASSUME NEW w \in pending, Write(w) PROVE WritingInv'
  BY <1>4, OneWriteStep DEF Write
<1>5. ASSUME NEW w \in pending, WriteFails(w) PROVE WritingInv'
  BY <1>5, OneWriteStep DEF WriteFails
<1>6. CASE Start \/ Fails \/ Flush \/ ShipApi \/ ShipSite \/ Check
  BY <1>1, <1>6 DEF Start, Fails, Flush, ShipApi, ShipSite, Check, End, TypeOK
<1>7. CASE Merge \/ Rerun \/ UNCHANGED vars
  BY <1>2, <1>7 DEF Merge, Rerun, vars
<1> QED BY <1>3, <1>4, <1>5, <1>6, <1>7 DEF Next, Run

\* With nothing left to write and nothing failed, the store is the commit's graph.
LEMMA FlushedStore ==
  ASSUME TypeOK, WritingInv, step = "write", pending = {}, ~broken
  PROVE  StoreIs(commit)
BY DEF WritingInv, StoreIs, Wanted

\* Each step of the workflow starts from what the one before it left.
LEMMA StageStep ==
  ASSUME TypeOK, WritingInv, StageInv, [Next]_vars
  PROVE  StageInv'
<1>1. ASSUME step' \in {"idle", "list", "write"} PROVE StageInv'
  BY <1>1 DEF StageInv
<1>2. ASSUME UNCHANGED <<commit, step, published, store, api, site>> PROVE StageInv'
  BY <1>2 DEF StageInv, StoreIs, store
<1>3. CASE Start \/ Fails \/ List \/ Check
  BY <1>1, <1>3 DEF Start, Fails, List, Check, End
<1>4. CASE Flush
  <2>1. CASE broken BY <1>1, <1>4, <2>1 DEF Flush, End
  <2>2. CASE ~broken
    <3>1. step' = "api" /\ published' = commit' /\ commit' = commit /\ UNCHANGED store
      BY <1>4, <2>2 DEF Flush
    <3>2. StoreIs(commit)
      BY <1>4, <2>2, FlushedStore DEF Flush
    <3> QED BY <3>1, <3>2 DEF StageInv, StoreIs, store
  <2> QED BY <2>1, <2>2
<1>5. CASE ShipApi
  BY <1>5 DEF ShipApi, StageInv, StoreIs, store
<1>6. CASE ShipSite
  BY <1>6 DEF ShipSite, StageInv, StoreIs, store
<1>7. ASSUME NEW w \in pending, Write(w) \/ WriteFails(w) PROVE StageInv'
  BY <1>1, <1>7 DEF Write, WriteFails, TypeOK
<1>8. CASE Merge \/ Rerun \/ UNCHANGED vars
  BY <1>2, <1>8 DEF Merge, Rerun, vars, served
<1> QED BY <1>3, <1>4, <1>5, <1>6, <1>7, <1>8 DEF Next, Run

\* Only a run that got past the API ships a site, and runs come in order.
LEMMA SiteStep ==
  ASSUME TypeOK, OrderInv, StageInv, SiteNeverAhead, [Next]_vars
  PROVE  SiteNeverAhead'
<1> USE DEF TypeOK, Versions, SiteNeverAhead
<1>1. CASE ShipApi
  BY <1>1, DeployAssumption DEF ShipApi, StageInv
<1>2. CASE ShipSite
  BY <1>2, DeployAssumption DEF ShipSite, StageInv
<1>3. CASE Flush
  <2>1. api' = api /\ site' = site /\ published' \in {published, commit} /\ published <= commit
    BY <1>3 DEF Flush, served, OrderInv
  <2> QED BY <2>1, DeployAssumption
<1>4. ASSUME UNCHANGED <<served, published>> PROVE SiteNeverAhead'
  BY <1>4 DEF served
<1>5. CASE Merge \/ Rerun \/ Start \/ Fails \/ List \/ Check \/ UNCHANGED vars
  BY <1>4, <1>5 DEF Merge, Rerun, Start, Fails, List, Check, vars
<1>6. ASSUME NEW w \in pending, Write(w) \/ WriteFails(w) PROVE SiteNeverAhead'
  BY <1>4, <1>6 DEF Write, WriteFails
<1> QED BY <1>1, <1>2, <1>3, <1>5, <1>6 DEF Next, Run

\* A run that ends well has passed every stage; until the next one starts
\* nothing it left behind changes.
LEMMA GreenStep ==
  ASSUME TypeOK, StageInv, GreenMeansConverged, [Next]_vars
  PROVE  GreenMeansConverged'
<1>1. ASSUME step' # "idle" \/ red' PROVE GreenMeansConverged'
  BY <1>1 DEF GreenMeansConverged
<1>2. ASSUME UNCHANGED <<step, red, store, served>> PROVE GreenMeansConverged'
  BY <1>2 DEF GreenMeansConverged, StoreIs, store, served, Entries
<1>3. CASE Check
  <2>1. ASSUME ~red' PROVE Entries(index) = Entries(commit)
    BY <1>3, <2>1, Zenon DEF Check, End
  <2>2. site = commit /\ api = commit /\ StoreIs(commit)
    BY <1>3 DEF Check, StageInv
  <2>3. UNCHANGED <<store, served>>
    BY <1>3 DEF Check
  <2> QED BY <2>1, <2>2, <2>3 DEF GreenMeansConverged, StoreIs, store, served, Entries
<1>4. CASE Fails
  BY <1>1, <1>4, Zenon DEF Fails, End
<1>5. CASE List
  <2>1. step' # "idle" \/ red'
    BY <1>5, Zenon DEF List, End
  <2> QED BY <1>1, <2>1
<1>6. CASE Flush
  <2>1. step' # "idle" \/ red'
    BY <1>6, Zenon DEF Flush, End
  <2> QED BY <1>1, <2>1
<1>7. CASE Start \/ ShipApi \/ ShipSite
  BY <1>1, <1>7 DEF Start, ShipApi, ShipSite
<1>8. ASSUME NEW w \in pending, Write(w) \/ WriteFails(w) PROVE GreenMeansConverged'
  BY <1>1, <1>8 DEF Write, WriteFails, TypeOK
<1>9. CASE Merge \/ Rerun \/ UNCHANGED vars
  BY <1>2, <1>9 DEF Merge, Rerun, vars
<1> QED BY <1>3, <1>4, <1>5, <1>6, <1>7, <1>8, <1>9 DEF Next, Run

\* Nothing is stored, answered or shown at first.
LEMMA InductiveInit == Init => IInv
<1> SUFFICES ASSUME Init PROVE IInv
  OBVIOUS
<1>1. /\ head = 0 /\ queued = 0 /\ commit = 0 /\ step = "idle" /\ pending = {}
      /\ site = 0 /\ api = 0 /\ index = 0 /\ failures = 0 /\ published = 0 /\ stats = 0
      /\ doc = [c \in Ids |-> 0] /\ hood = [c \in Ids |-> 0]
  BY DEF Init
<1>2. broken \in BOOLEAN /\ red \in BOOLEAN
  BY Zenon DEF Init
<1>3. 0 \in Versions /\ 0 \in 0..MaxFailures
  BY DeployAssumption DEF Versions
<1>4. TypeOK
  BY <1>1, <1>2, <1>3 DEF TypeOK, Steps
<1>5. OrderInv /\ SiteNeverAhead /\ GreenMeansConverged
  BY <1>1 DEF OrderInv, SiteNeverAhead, GreenMeansConverged
<1>6. WritingInv /\ StageInv
  BY <1>1 DEF WritingInv, StageInv
<1> QED BY <1>4, <1>5, <1>6 DEF IInv

-----------------------------------------------------------------------------
\* The invariant holds of every behaviour of the workflow, whatever fails.
THEOREM Invariance == Spec => []IInv
<1>1. IInv /\ [Next]_vars => IInv'
  BY TypeStep, OrderStep, WritingStep, StageStep, SiteStep, GreenStep DEF IInv
<1> QED BY InductiveInit, <1>1, PTL DEF Spec

\* When the publish step of a run is over, the store holds exactly the graph of
\* its commit, whatever earlier runs left half done (Sync, and the jobs it asks).
THEOREM PublishIsExact == Spec => []PublishedExactly
<1>1. IInv => PublishedExactly
  BY DEF IInv, StageInv, PublishedExactly
<1> QED BY Invariance, <1>1, PTL

\* The pages are never ahead of the API, nor the API of the stored graph: the
\* order of the steps in deploy.yml, and of the runs in its concurrency group.
THEOREM SiteFollows == Spec => []SiteNeverAhead
<1>1. IInv => SiteNeverAhead
  BY DEF IInv
<1> QED BY Invariance, <1>1, PTL

\* A green run leaves what is stored, answered and shown at one commit, and an
\* index of its size.
THEOREM GreenConverges == Spec => []GreenMeansConverged
<1>1. IInv => GreenMeansConverged
  BY DEF IInv
<1> QED BY Invariance, <1>1, PTL

\* The workflow moves the store, the API and the site forward, each to what the
\* one before it holds (deploy.yml, whatever fails and is run again).
THEOREM DeployImplements == Spec => ReleaseSpec
<1>1. Init => Release!ReleaseInit
  BY DEF Init, Release!ReleaseInit
<1>2. ASSUME IInv, [Next]_vars
      PROVE  [Release!Merged \/ Release!Stored \/ Release!Shipped \/ Release!Shown]_(Release!releaseVars)
  <2> USE DEF Release!releaseVars
  <2>1. TypeOK /\ OrderInv /\ StageInv
    BY <1>2 DEF IInv
  <2>2. CASE Merge
    BY <2>2 DEF Merge, served, Release!Merged
  <2>3. CASE Rerun \/ Start \/ Fails \/ List
    BY <2>3 DEF Rerun, Start, Fails, List, served
  <2>4. ASSUME NEW w \in pending, Write(w) \/ WriteFails(w) PROVE UNCHANGED Release!releaseVars
    BY <2>4 DEF Write, WriteFails, served
  <2>5. CASE Flush
    <3>1. CASE broken
      BY <2>5, <3>1 DEF Flush, served
    <3>2. CASE ~broken
      <4>1. published' = commit /\ UNCHANGED <<head, api, site>> /\ step = "write"
        BY <2>5, <3>2 DEF Flush, served
      <4>2. commit # 0 /\ commit \in published..head
        BY <2>1, <4>1 DEF TypeOK, OrderInv, Versions
      <4>3. QED
        BY <4>1, <4>2 DEF Release!Stored
    <3>3. QED
      BY <3>1, <3>2
  <2>6. CASE ShipApi
    <3>1. step = "api" /\ api' = commit /\ UNCHANGED <<head, published, site>>
      BY <2>6 DEF ShipApi
    <3>2. QED
      BY <2>1, <3>1 DEF StageInv, Release!Shipped
  <2>7. CASE ShipSite
    <3>1. step = "site" /\ site' = commit /\ UNCHANGED <<head, published, api>>
      BY <2>7 DEF ShipSite
    <3>2. QED
      BY <2>1, <3>1 DEF StageInv, Release!Shown
  <2>8. CASE Check
    BY <2>8 DEF Check, served
  <2>9. CASE UNCHANGED vars
    BY <2>9 DEF vars, served
  <2>10. QED
    BY <1>2, <2>2, <2>3, <2>4, <2>5, <2>6, <2>7, <2>8, <2>9 DEF Next, Run
<1>3. QED
  BY <1>1, <1>2, Invariance, PTL DEF Spec, ReleaseSpec, Release!ReleaseSpec

\* The store, the API and the site are at commits that were merged or at none, and
\* writes are under way only in the publish step.
THEOREM TypeCorrect == Spec => []TypeOK
<1>1. IInv => TypeOK
  BY DEF IInv
<1> QED BY Invariance, <1>1, PTL
=============================================================================
