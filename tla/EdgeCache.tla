------------------------------ MODULE EdgeCache ------------------------------
(***************************************************************************)
(* Reads through Firebase Hosting's edge and the reader's browser, with    *)
(* the lifetimes apihttp/cache.go gives them: one concept, which publishes *)
(* may change or delete, and one shared trail that stops at it.  The trail *)
(* document never changes, but the `missing` mark on its stop is computed  *)
(* by every read of the store (markMissing) and cached with it.            *)
(* A request takes no time on this clock: the shortest lifetime is a       *)
(* minute and no request outlives ten seconds.                             *)
(***************************************************************************)
EXTENDS Naturals

CONSTANTS
  Readers,
  EdgeTTL,      \* EdgeTTL[k]: s-maxage of the resource k
  BrowserTTL,   \* BrowserTTL[k]: its max-age
  MaxTime,      \* bound: the clock
  MaxVersion    \* bound: publishes

Resources == {"concept", "trail"}

ASSUME EdgeCacheAssumption ==
  /\ MaxTime \in Nat /\ MaxVersion \in Nat \ {0}
  /\ EdgeTTL \in [Resources -> Nat] /\ BrowserTTL \in [Resources -> Nat]
  /\ \A k \in Resources : BrowserTTL[k] <= EdgeTTL[k]

VARIABLES
  now,
  newest,   \* the newest version published
  live,     \* the version in the store, 0 when the concept is deleted
  edge,     \* edge[k]: the response the edge holds
  browser,  \* browser[r][k]: the response the reader's browser holds
  req,      \* req[r]: the resource asked of the origin, and how far it is
  shown,    \* shown[r]: the answer just given to r, until time or the graph moves on
  held,     \* history: held[t], the versions in the store at some moment of t
  slips     \* history: the times at which markMissing's batch failed

vars == <<now, newest, live, edge, browser, req, shown, held, slips>>

Times == 0..MaxTime
Versions == 0..MaxVersion

None == [status |-> 0]

\* What a trail says of its stop: marked missing, or not.
Gone == 0
Stands == 1

\* A response: the concept's version, or what the trail says of its stop; and
\* when the origin made it, which is what its age counts from.
OK == [status : {200}, body : Versions, at : Times]
NotFound == [status |-> 404]
Answers == OK \cup {NotFound}

Idle == [at |-> "idle"]

TypeOK ==
  /\ now \in Times /\ newest \in Versions /\ live \in {0, newest}
  /\ edge \in [Resources -> OK \cup {None}]
  /\ browser \in [Readers -> [Resources -> OK \cup {None}]]
  /\ req \in [Readers -> {Idle} \cup [at : {"read", "mark"}, of : Resources]
                           \cup [at : {"answer"}, of : Resources, with : Answers]]
  /\ shown \in [Readers -> {None} \cup [of : Resources, answer : Answers]]
  /\ held \in [Times -> SUBSET Versions] /\ slips \subseteq Times

Init ==
  /\ now = 0 /\ newest = 1 /\ live = 1
  /\ edge = [k \in Resources |-> None]
  /\ browser = [r \in Readers |-> [k \in Resources |-> None]]
  /\ req = [r \in Readers |-> Idle] /\ shown = [r \in Readers |-> None]
  /\ held = [t \in Times |-> IF t = 0 THEN {1} ELSE {}] /\ slips = {}

-----------------------------------------------------------------------------

Tick ==
  /\ now < MaxTime
  /\ \A r \in Readers : req[r] = Idle
  /\ now' = now + 1
  /\ held' = [held EXCEPT ![now + 1] = {live}]
  /\ shown' = [r \in Readers |-> None]
  /\ UNCHANGED <<newest, live, edge, browser, req, slips>>

\* A merge rewrites the concept or deletes it; nothing purges the caches.
Publish ==
  /\ newest < MaxVersion
  /\ newest' = newest + 1
  /\ live' \in {0, newest + 1}
  /\ held' = [held EXCEPT ![now] = @ \cup {live'}]
  /\ shown' = [r \in Readers |-> None]
  /\ UNCHANGED <<now, edge, browser, req, slips>>

\* (Mutation: the lifetimes of the two routes exchanged.)
FreshSwapped(entry, ttl, k) ==
  entry # None /\ now - entry.at < ttl[IF k = "trail" THEN "concept" ELSE "trail"]

\* A cache may answer from what it holds while its age is below its lifetime;
\* the age counts from the origin's answer, the time spent at the edge included.
Fresh(entry, ttl, k) == entry # None /\ now - entry.at < ttl[k]

Show(r, k, answer) == shown' = [shown EXCEPT ![r] = [of |-> k, answer |-> answer]]

FromBrowser(r, k) ==
  /\ req[r] = Idle /\ Fresh(browser[r][k], BrowserTTL, k)
  /\ Show(r, k, browser[r][k])
  /\ UNCHANGED <<now, newest, live, edge, browser, req, held, slips>>

\* (Mutation: the browser counts the age from when it got the response.)
FromEdgeRestamped(r, k) ==
  /\ req[r] = Idle /\ ~Fresh(browser[r][k], BrowserTTL, k) /\ Fresh(edge[k], EdgeTTL, k)
  /\ browser' = [browser EXCEPT ![r][k] = [edge[k] EXCEPT !.at = now]]
  /\ Show(r, k, edge[k])
  /\ UNCHANGED <<now, newest, live, edge, req, held, slips>>

FromEdge(r, k) ==
  /\ req[r] = Idle /\ ~Fresh(browser[r][k], BrowserTTL, k) /\ Fresh(edge[k], EdgeTTL, k)
  /\ browser' = [browser EXCEPT ![r][k] = edge[k]]
  /\ Show(r, k, edge[k])
  /\ UNCHANGED <<now, newest, live, edge, req, held, slips>>

ToOrigin(r, k) ==
  /\ req[r] = Idle /\ ~Fresh(browser[r][k], BrowserTTL, k) /\ ~Fresh(edge[k], EdgeTTL, k)
  /\ req' = [req EXCEPT ![r] = [at |-> IF k = "trail" THEN "mark" ELSE "read", of |-> k]]
  /\ shown' = [shown EXCEPT ![r] = None]
  /\ UNCHANGED <<now, newest, live, edge, browser, held, slips>>

Reply(r, answer) == [req EXCEPT ![r] = [at |-> "answer", of |-> req[r].of, with |-> answer]]

\* Get and Neighborhood: the document, or 404 for want of one.
ReadConcept(r) ==
  /\ req[r].at = "read"
  /\ req' = Reply(r, IF live = 0 THEN NotFound ELSE [status |-> 200, body |-> live, at |-> now])
  /\ UNCHANGED <<now, newest, live, edge, browser, shown, held, slips>>

\* The trail exists; one batched read says whether its stop still does, and a
\* batch that fails leaves the trail unmarked.
markMissing(r) ==
  /\ req[r].at = "mark"
  /\ \/ /\ req' = Reply(r, [status |-> 200, body |-> IF live = 0 THEN Gone ELSE Stands,
                             at |-> now])
        /\ UNCHANGED slips
     \/ /\ req' = Reply(r, [status |-> 200, body |-> Stands, at |-> now])
        /\ slips' = slips \cup {now}
  /\ UNCHANGED <<now, newest, live, edge, browser, shown, held>>

\* A deadline, a rate limit, a fault: the answer is an error and no-store.
Fails(r) ==
  /\ req[r] # Idle
  /\ req' = [req EXCEPT ![r] = Idle]
  /\ UNCHANGED <<now, newest, live, edge, browser, shown, held, slips>>

\* CacheFor on a success, NoStore on anything else.
Deliver(r) ==
  /\ req[r].at = "answer"
  /\ LET k == req[r].of
         a == req[r].with
     IN /\ IF a.status = 200
           THEN /\ edge' = [edge EXCEPT ![k] = a]
                /\ browser' = [browser EXCEPT ![r][k] = a]
           ELSE UNCHANGED <<edge, browser>>
        /\ Show(r, k, a)
  /\ req' = [req EXCEPT ![r] = Idle]
  /\ UNCHANGED <<now, newest, live, held, slips>>

Next ==
  \/ Tick \/ Publish
  \/ \E r \in Readers :
       \/ \E k \in Resources : FromBrowser(r, k) \/ FromEdge(r, k) \/ ToOrigin(r, k)
       \/ ReadConcept(r) \/ markMissing(r) \/ Fails(r) \/ Deliver(r)

Spec == Init /\ [][Next]_vars

-----------------------------------------------------------------------------
\* The times no further back than an edge may keep k.
Window(k) == {t \in Times : t <= now /\ (t = now \/ now - t < EdgeTTL[k])}

Told(r, k, status) ==
  shown[r] # None /\ shown[r].of = k /\ shown[r].answer.status = status

\* "An s-maxage of N minutes means up to N minutes where the API serves the
\* previous graph": the browser's lifetime does not add to the edge's, and an
\* answer that was overtaken on its way to the edge does not either.
StaleAtMostOneLifetime ==
  \A r \in Readers : Told(r, "concept", 200) =>
    \E t \in Window("concept") : shown[r].answer.body \in held[t]

\* What a shared trail says of its stop was so within a lifetime of the trail,
\* but for a batch of markMissing that failed within it.
MarksAtMostOneLifetime ==
  \A r \in Readers : Told(r, "trail", 200) =>
    \E t \in Window("trail") :
      IF shown[r].answer.body = Gone THEN 0 \in held[t]
                                     ELSE held[t] # {0} \/ t \in slips
=============================================================================
