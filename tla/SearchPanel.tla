---------------------------- MODULE SearchPanel ----------------------------
(***************************************************************************)
(* Search: the index matched in the browser (web/src/lib/search.ts) and    *)
(* the panel over it (SearchPanel.tsx), as the overlay of a page or as the *)
(* /search page itself.  A query is a sequence of what was typed between   *)
(* blanks; a key press and the effects it causes are one step, the arrival *)
(* at /search two: its first effects, and the render they ask for.         *)
(***************************************************************************)
EXTENDS Integers, Sequences, SequencesExt, FiniteSets, FiniteSetsExt

CONSTANTS
  Nodes,    \* the concepts: [id, title, starts, words, inside, domain]
  Folded,   \* what is typed -> the term normalise makes of it, "" for none
  Queries,  \* bound: what the reader may type
  Limit, NearLimit, \* 12 and 4
  Modes     \* "overlay", "page"

\* Titles stand for their order: by title, and for one title by file.  No question
\* is longer than 249 terms: beyond that the weight of a term is not "larger than
\* any reachable per-term total".
Blank == " "
SearchPanelAssumption ==
  /\ Limit \in Nat \ {0} /\ NearLimit \in Nat \ {0} /\ Modes \subseteq {"overlay", "page"}
  /\ IsFiniteSet(Nodes)
  /\ \A a, b \in Nodes : a.title \in Nat /\ (a.title = b.title => a = b)
  /\ Folded[Blank] = ""
  /\ \A q \in Queries : q \in Seq(DOMAIN Folded) /\ Len(q) < 250

VARIABLES
  mode, open, query, index, cursor,
  opener,  \* what had focus when the overlay opened, or None
  address, \* the ?q= of /search
  pending, \* the question read from it and still to be rendered, at most one
  sent,    \* history: the question /search was reached with, until another is asked
  went,    \* the concept the reader was sent to, or None
  focus    \* the element that has focus, of the whole page

panelVars == <<mode, open, query, index, cursor, opener, address, pending, sent, went>>
None == "none"

-----------------------------------------------------------------------------
\* search.ts.

\* An entry keeps where a term may be found; titles stand for their order.
buildIndex ==
  {[id |-> n.id, title |-> n.title, starts |-> n.starts, words |-> n.words, inside |-> n.inside,
    elsewhere |-> n.domain \cup {n.id}] : n \in Nodes}

\* The terms, each where it was typed; filter drops the empty ones.
Terms(q) ==
  LET kept == {i \in DOMAIN q : Folded[q[i]] # ""} IN [i \in kept |-> Folded[q[i]]]
Count(terms) == Cardinality(DOMAIN terms)
IsBlank(q) == \A i \in DOMAIN q : q[i] = Blank

\* Where a term landed in an entry; the first place counts.
scoreTerm(e, t) ==
  CASE t \in e.starts -> 4
    [] t \in e.words \ e.starts -> 3
    [] t \in e.inside \ (e.starts \cup e.words) -> 2
    [] t \in e.elsewhere \ (e.starts \cup e.words \cup e.inside) -> 1
    [] OTHER -> 0

\* How many terms landed at n, and so the sum of where they landed.
Landed(e, q, n) == Cardinality({i \in DOMAIN Terms(q) : scoreTerm(e, Terms(q)[i]) = n})
Total(e, q) == 4 * Landed(e, q, 4) + 3 * Landed(e, q, 3) + 2 * Landed(e, q, 2) + Landed(e, q, 1)
Matched(e, q) == Cardinality({i \in DOMAIN Terms(q) : scoreTerm(e, Terms(q)[i]) > 0})

\* Sorted by value and then by title, and cut: each entry at the place that the
\* number of those before it gives.
Before(a, b, value) == value[a] > value[b] \/ (value[a] = value[b] /\ a.title < b.title)
Place(e, es, value) == Cardinality({x \in es : Before(x, e, value)}) + 1
Ranked(es, value, limit) ==
  [k \in 1..Min({limit, Cardinality(es)}) |-> CHOOSE e \in es : Place(e, es, value) = k]

\* Every term must match somewhere.
search(es, q) ==
  IF Terms(q) = <<>> THEN <<>>
  ELSE Ranked({e \in es : Matched(e, q) = Count(Terms(q))}, [e \in es |-> Total(e, q)], Limit)

\* (Mutation: where the terms landed counts as much as how many did.)
MATCHED_WEIGHT_of_one == 1

MATCHED_WEIGHT == 1000

\* What answered part of a question of several terms.
suggest(es, q) ==
  IF Count(Terms(q)) < 2 THEN <<>>
  ELSE Ranked({e \in es : Matched(e, q) > 0},
              [e \in es |-> MATCHED_WEIGHT * Matched(e, q) + Total(e, q)], NearLimit)

queryUrl(q) == IF IsBlank(q) THEN <<>> ELSE q

-----------------------------------------------------------------------------
\* What the panel shows.

Shown(q) == IF index = "ready" THEN search(buildIndex, q) ELSE <<>>
hits == Shown(query)
near == IF index = "ready" /\ hits = <<>> THEN suggest(buildIndex, query) ELSE <<>>

\* Its elements in tab order, and in the order of the trap's selector, which
\* finds the results too, though Tab does not.
Tabbable ==
  <<"box">> \o (IF query # <<>> THEN <<"clear">> ELSE <<>>)
    \o (IF index = "failed" \/ (index = "ready" /\ ~IsBlank(query) /\ hits = <<>>) THEN <<"browse">> ELSE <<>>)
    \o (IF near # <<>> THEN <<"near">> ELSE <<>>)
Stops == Tabbable \o (IF hits # <<>> THEN <<"hit">> ELSE <<>>)

InPanel == {"box", "clear", "browse", "near", "hit"}
Typing == {"box", "note"}
Here == open /\ went = None

Init ==
  /\ mode \in Modes /\ open = FALSE
  /\ query = <<>> /\ index = "idle" /\ cursor = 1 /\ opener = None /\ went = None
  /\ pending = {} /\ sent = {}
  /\ address \in (IF mode = "page" THEN Queries ELSE {<<>>})

load == index' = IF index = "idle" THEN "loading" ELSE index

\* (Mutation: the effect that writes the address stands before the one that reads.)
ArriveSwapped ==
  /\ mode = "page" /\ ~open /\ open' = TRUE /\ load /\ focus' = "box"
  /\ address' = queryUrl(query) /\ pending' = {queryUrl(query)} /\ sent' = {address}
  /\ UNCHANGED <<mode, query, cursor, opener, went>>

\* /search, the effects of the first render: the index at once, the question read
\* from the address, and the address written from the box, which is still empty.
Arrive ==
  /\ mode = "page" /\ ~open /\ open' = TRUE /\ load /\ focus' = "box"
  /\ pending' = {address} /\ address' = queryUrl(query) /\ sent' = {address}
  /\ UNCHANGED <<mode, query, cursor, opener, went>>

\* The render that reading asked for, and the address written from it.
Asked(q) ==
  /\ q \in pending /\ pending' = {} /\ query' = q /\ cursor' = 1 /\ address' = queryUrl(q)
  /\ UNCHANGED <<mode, open, index, opener, sent, went, focus>>

\* All but the address goes.
Reload ==
  /\ mode = "page" /\ Here /\ open' = FALSE
  /\ query' = <<>> /\ index' = "idle" /\ cursor' = 1 /\ focus' = "body"
  /\ pending' = {} /\ sent' = {}
  /\ UNCHANGED <<mode, opener, address, went>>

\* The fetch: an index, a malformed one, or none.  It is not asked for again.
IndexArrives ==
  /\ index = "loading" /\ index' \in {"ready", "failed"}
  /\ UNCHANGED <<mode, open, query, cursor, opener, address, pending, sent, went, focus>>

\* The header's button, or the slash anywhere but in a field: also in the panel.
openPanel ==
  /\ mode = "overlay" /\ went = None /\ focus \notin Typing
  /\ open' = TRUE /\ opener' = focus /\ load
  /\ focus' = IF open THEN focus ELSE "box"
  /\ UNCHANGED <<mode, query, cursor, address, pending, sent, went>>

\* Escape inside the panel or a click on its backdrop.  Focus goes back to the
\* opener, if it is still among the elements outside that can have it.
Close(outside) ==
  /\ mode = "overlay" /\ Here /\ open' = FALSE /\ opener' = None
  /\ focus' = IF opener \in outside THEN opener ELSE IF focus \in InPanel THEN "body" ELSE focus
  /\ UNCHANGED <<mode, query, index, cursor, address, pending, sent, went>>

\* The trap wraps at the first and the last of its stops.  Anywhere else Tab does
\* what Tab does: the next element, and after the last one, the page.
Tab ==
  /\ mode = "overlay" /\ Here /\ focus \in ToSet(Stops)
  /\ LET i == CHOOSE k \in DOMAIN Stops : Stops[k] = focus IN
     \/ focus' = IF i = Len(Stops) THEN Stops[1] ELSE IF i < Len(Tabbable) THEN Tabbable[i + 1] ELSE "elsewhere"
     \/ focus' = IF i = 1 THEN Last(Stops) ELSE Stops[i - 1]
  /\ UNCHANGED panelVars

\* A click on the box, or the reader coming back to it.
Click ==
  /\ Here /\ focus' = "box" /\ UNCHANGED panelVars

\* (Mutation: the highlight stays where it was.)
TypeOn(q) ==
  /\ Here /\ focus = "box" /\ query' = q /\ pending' = {} /\ sent' = {}
  /\ address' = IF mode = "page" THEN queryUrl(q) ELSE address
  /\ UNCHANGED <<mode, open, index, cursor, opener, went, focus>>

\* A new question: the highlight goes to the top, the address follows.  One still
\* to be rendered is older and gives way.
Type(q) ==
  /\ Here /\ focus = "box" /\ query' = q /\ cursor' = 1 /\ pending' = {} /\ sent' = {}
  /\ address' = IF mode = "page" THEN queryUrl(q) ELSE address
  /\ UNCHANGED <<mode, open, index, opener, went, focus>>

\* By pointer or space.  (Enter is taken by the highlight when there is one.)
Clear ==
  /\ Here /\ query # <<>>
  /\ query' = <<>> /\ cursor' = 1 /\ focus' = "box" /\ pending' = {} /\ sent' = {}
  /\ address' = IF mode = "page" THEN <<>> ELSE address
  /\ UNCHANGED <<mode, open, index, opener, went>>

\* Arrow keys go round; the pointer highlights what it enters.
Highlight ==
  /\ Here /\ hits # <<>>
  /\ \/ focus \in InPanel /\ cursor' \in {(cursor % Len(hits)) + 1, ((cursor - 2) % Len(hits)) + 1}
     \/ cursor' \in DOMAIN hits
  /\ UNCHANGED <<mode, open, query, index, opener, address, pending, sent, went, focus>>

\* Enter anywhere in the panel.
Enter ==
  /\ Here /\ focus \in InPanel /\ hits # <<>> /\ cursor \in DOMAIN hits
  /\ went' = hits[cursor].id
  /\ UNCHANGED <<mode, open, query, index, cursor, opener, address, pending, sent, focus>>

Next(outside) ==
        \/ Arrive \/ Reload \/ IndexArrives \/ openPanel \/ Close(outside) \/ Tab \/ Click
        \/ Clear \/ Highlight \/ Enter \/ \E q \in Queries : Type(q) \/ Asked(q)

-----------------------------------------------------------------------------
\* The combobox always has an active descendant among its results, so Enter
\* opens what is highlighted and never nothing, whatever was typed, highlighted
\* or loaded before.
MarkedIsThere == hits # <<>> => cursor \in DOMAIN hits

\* "On /search the URL is the question": reloaded, it asks what the box asks, and
\* says nothing when nothing is asked; and the box asks what the page was reached
\* with, until the reader asks something else, though the first render empties the
\* address before the second asks its question.
AddressIsTheQuestion ==
  mode = "page" /\ open =>
    /\ Terms(address) = Terms(query) /\ (IsBlank(query) => address = <<>>)
    /\ pending = {} => \A q \in sent : query = q

\* "Never a dead end": a question of several words that nothing answers whole is
\* offered what answers most of it first, however well a lesser one is placed;
\* and nothing is offered beside a result.
NearestAnswerMost ==
  /\ hits # <<>> => near = <<>>
  /\ \A i, j \in DOMAIN near : i < j => Matched(near[i], query) >= Matched(near[j], query)
  /\ index = "ready" /\ hits = <<>> /\ Count(Terms(query)) > 1 =>
       (near = <<>> <=> \A e \in buildIndex : Matched(e, query) = 0)

=============================================================================
