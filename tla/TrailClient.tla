---------------------------- MODULE TrailClient ----------------------------
(***************************************************************************)
(* The reader's trail: one localStorage entry, written by every tab that   *)
(* is open on a concept page, and the two islands that use it, TrailRibbon *)
(* (records the visit, shares the walk, repairs it) and SharedTrail        *)
(* (adopts somebody else's walk).                                          *)
(*                                                                         *)
(* visit, recordDepth and dropStops read the entry, compute, and write it  *)
(* back.  One tab runs them to completion; whether two tabs exclude each   *)
(* other is the browser's business (the HTML standard promises no lock),   *)
(* so the read and the write are two steps and `locking` says whether      *)
(* another tab may come between them.                                      *)
(***************************************************************************)
EXTENDS Naturals, Sequences, SequencesExt, FiniteSets

CONSTANTS
  Tabs,     \* browser tabs of one reader
  Concepts, \* concept ids
  Initial,  \* the depth the server renders
  Sessions, \* what this reader has, does and meets, see below
  None

\* locking: this browser lets no tab between another's read and write.  keeping: it
\* keeps a page to come Back to.  The rest are bounds: the concepts opened, the depths chosen, MAX_STOPS, the walks behind
\* the shared pages, the tabs in which Share is pressed, the concepts a deploy
\* may take out.
ASSUME TrailClientAssumption ==
  /\ None \notin Concepts /\ None \notin Tabs
  /\ \A s \in Sessions :
       /\ s.locking \in BOOLEAN /\ s.keeping \in BOOLEAN /\ s.opens \subseteq Concepts
       /\ Initial \in s.depths /\ None \notin s.depths /\ s.maxStops \in Nat \ {0}
       /\ s.shared \subseteq Seq([id : Concepts, depth : s.depths]) \ {<<>>}
       /\ \A trails \in {Seq([id : Concepts, depth : s.depths])} :
            None \notin [read : trails, next : trails, resend : BOOLEAN]

VARIABLE session

MaxStops == session.maxStops
Depths == session.depths
locking == session.locking

Stop == [id : Concepts, depth : Depths]

VARIABLES
  store,   \* localStorage["trail"], parsed
  live,    \* the concepts still published
  page,    \* page[t]: the concept page t is on, or None (a shared trail, a list)
  island,  \* island[t]: the state of SharedTrail on t's page
  ready,   \* ready[t]: t's ribbon has hydrated
  scope,   \* scope[t]: data-depth on t's page, or None while unset
  toggled, \* toggled[t]: a mutation of it not yet observed
  marker,  \* marker[t]: sessionStorage["trail:resuming"]
  job,     \* job[t]: the write t is about to make and the trail it read for it, or None
  share,   \* share[t]: the state of t's Share button
  frozen,  \* frozen[t]: the page t can come Back to as it was, or None
  landing, \* history: t is on its way to the first stop of a walk it adopted
  author   \* history: the tab whose page, still open, last put itself on record

screen == <<page, island, ready, scope, toggled>>
vars == <<session, store, live, screen, marker, job, share, frozen, landing, author>>

-----------------------------------------------------------------------------
\* trail.ts: the pure half.

Ids(trail) == {trail[i].id : i \in DOMAIN trail}
Capped(trail) ==
  SubSeq(trail, IF Len(trail) > MaxStops THEN Len(trail) - MaxStops + 1 ELSE 1, Len(trail))

EndsAt(trail, id) == trail # <<>> /\ Last(trail).id = id

\* filter: the stops that stay, each at the place its rank among them gives it.
Kept(trail, ids) == {i \in DOMAIN trail : trail[i].id \notin ids}
Rank(i, kept) == Cardinality({j \in kept : j <= i})
Without(trail, ids) ==
  LET kept == Kept(trail, ids)
  IN  [k \in 1..Cardinality(kept) |-> trail[CHOOSE i \in kept : Rank(i, kept) = k]]

\* (Mutation: a stop already walked is found, and its depth set, anywhere.)
withDepthAnywhere(trail, id, depth) ==
  [i \in DOMAIN trail |-> IF trail[i].id = id THEN [trail[i] EXCEPT !.depth = depth] ELSE trail[i]]

\* Only the stop being read takes a new depth.
withDepth(trail, id, depth) ==
  IF EndsAt(trail, id) THEN [trail EXCEPT ![Len(trail)].depth = depth] ELSE trail

\* A revisit moves a stop to the end; the oldest stops fall off the front.
append(trail, stop) ==
  IF EndsAt(trail, stop.id) THEN withDepth(trail, stop.id, stop.depth)
  ELSE Capped(Append(Without(trail, {stop.id}), stop))

-----------------------------------------------------------------------------
\* No shared trail here, or a page that says there is none.
NoTrail == [at |-> "none"]
Idle == [state |-> "idle", walk |-> <<>>, posts |-> 0]
Sending(walk, n) == [state |-> "sending", walk |-> walk, posts |-> n]
Failed == [state |-> "error", walk |-> <<>>, posts |-> 0]
\* Sent, and the reader on the way to the new page: the button says no more.
Sent == [state |-> "sent", walk |-> <<>>, posts |-> 0]

TypeOK ==
  /\ session \in Sessions
  /\ store \in Seq(Stop) /\ Len(store) <= MaxStops
  /\ live \subseteq Concepts
  /\ page \in [Tabs -> Concepts \cup {None}]
  /\ ready \in [Tabs -> BOOLEAN] /\ toggled \in [Tabs -> BOOLEAN]
  /\ scope \in [Tabs -> Depths \cup {None}]
  /\ landing \in [Tabs -> BOOLEAN] /\ author \in Tabs \cup {None}
  /\ marker \in [Tabs -> Concepts \cup {None}]
  /\ \A t \in Tabs :
       /\ island[t].at \in {"none", "loading", "ready", "unreachable"}
       /\ share[t].state \in {"idle", "sending", "error", "sent"} /\ share[t].posts \in 0..2

Init ==
  /\ session \in Sessions
  /\ store = <<>>
  /\ live = Concepts
  /\ page = [t \in Tabs |-> None] /\ island = [t \in Tabs |-> NoTrail]
  /\ ready = [t \in Tabs |-> FALSE]
  /\ scope = [t \in Tabs |-> None]
  /\ toggled = [t \in Tabs |-> FALSE]
  /\ marker = [t \in Tabs |-> None]
  /\ job = [t \in Tabs |-> None]
  /\ share = [t \in Tabs |-> Idle]
  /\ frozen = [t \in Tabs |-> None]
  /\ landing = [t \in Tabs |-> FALSE]
  /\ author = None

Seed(t) == <<[id |-> page[t], depth |-> Initial]>>

Loading(w) == [at |-> "loading", walk |-> w]
Ready(w, marked) == [at |-> "ready", walk |-> w, marked |-> marked]

\* t may run: it has no write under way, and none of another tab locks it out.
Free(t) == job[t] = None /\ (locking => \A u \in Tabs : job[u] = None)

\* A mutation is delivered before the tab does anything else.
Settled(t) == job[t] = None /\ ~toggled[t]

-----------------------------------------------------------------------------
\* Navigation.  A page with nothing in flight may be kept to come Back to.

Show(t, c, trail) ==
  /\ page' = [page EXCEPT ![t] = c]
  /\ island' = [island EXCEPT ![t] = trail]
  /\ ready' = [ready EXCEPT ![t] = FALSE]
  /\ scope' = [scope EXCEPT ![t] = None]
  /\ toggled' = [toggled EXCEPT ![t] = FALSE]
  /\ share' = [share EXCEPT ![t] = Idle]

\* t's page goes: it is no longer the author.
Leaves(t) == author' = IF author = t THEN None ELSE author

Keep(t) ==
  frozen' = [frozen EXCEPT ![t] =
    IF session.keeping /\ ready[t] /\ share[t].state # "sending"
    THEN [page |-> page[t], scope |-> scope[t], share |-> share[t]] ELSE None]

\* A click, a reload or a typed address: the page loads from nothing.
Open(t, c) ==
  /\ Settled(t)
  /\ c \in (live \cap session.opens) \cup {None}
  /\ Show(t, c, NoTrail)
  /\ Keep(t)
  /\ Leaves(t)
  /\ landing' = [landing EXCEPT ![t] = FALSE]
  /\ UNCHANGED <<store, live, marker, job>>

\* The Back button, out of the browser's page cache: nothing runs again.
Back(t) ==
  /\ Settled(t)
  /\ frozen[t] # None
  /\ page' = [page EXCEPT ![t] = frozen[t].page] /\ island' = [island EXCEPT ![t] = NoTrail]
  /\ ready' = [ready EXCEPT ![t] = TRUE]
  /\ scope' = [scope EXCEPT ![t] = frozen[t].scope]
  /\ toggled' = [toggled EXCEPT ![t] = FALSE]
  /\ share' = [share EXCEPT ![t] = frozen[t].share]
  /\ frozen' = [frozen EXCEPT ![t] = None]
  /\ landing' = [landing EXCEPT ![t] = FALSE]
  /\ Leaves(t)
  /\ UNCHANGED <<store, live, marker, job>>

-----------------------------------------------------------------------------
\* The ribbon's mount effect: visit.

Onscreen(t) == IF scope[t] = None THEN Initial ELSE scope[t]

\* (Mutation: the marker lies in localStorage, where the first tab takes it.)
VisitSharedMarker(t) ==
  /\ page[t] # None /\ ~ready[t] /\ Free(t)
  /\ ready' = [ready EXCEPT ![t] = TRUE]
  /\ marker' = [u \in Tabs |-> None]
  /\ landing' = [landing EXCEPT ![t] = FALSE]
  /\ IF (\E u \in Tabs : marker[u] = page[t]) /\ page[t] \in Ids(store)
     THEN UNCHANGED job
     ELSE job' = [job EXCEPT ![t] =
            [read |-> store, next |-> append(store, [id |-> page[t], depth |-> Onscreen(t)]), resend |-> FALSE]]
  /\ UNCHANGED <<store, live, page, island, scope, toggled, share, frozen, author>>

\* (Mutation: the visit is recorded at the depth the server rendered.)
VisitAtInitial(t) ==
  /\ page[t] # None /\ ~ready[t] /\ Free(t)
  /\ ready' = [ready EXCEPT ![t] = TRUE]
  /\ job' = [job EXCEPT ![t] =
       [read |-> store, next |-> append(store, [id |-> page[t], depth |-> Initial]), resend |-> FALSE]]
  /\ UNCHANGED <<store, live, page, island, scope, toggled, marker, share, frozen, landing, author>>

\* Arriving where an adopted trail lands, the marker is spent and nothing is
\* written; anywhere else it is spent all the same and the visit is appended.
Visit(t) ==
  /\ page[t] # None /\ ~ready[t] /\ Free(t)
  /\ ready' = [ready EXCEPT ![t] = TRUE]
  /\ marker' = [marker EXCEPT ![t] = None]
  /\ landing' = [landing EXCEPT ![t] = FALSE]
  /\ IF marker[t] = page[t] /\ page[t] \in Ids(store)
     THEN UNCHANGED job
     ELSE job' = [job EXCEPT ![t] =
            [read |-> store, next |-> append(store, [id |-> page[t], depth |-> Onscreen(t)]), resend |-> FALSE]]
  /\ UNCHANGED <<store, live, page, island, scope, toggled, share, frozen, author>>

\* DepthToggle publishes a depth, on its own mount or when the reader toggles;
\* its island hydrates before or after the ribbon's, which only then observes.
SetDepth(t, d) ==
  /\ page[t] # None /\ Settled(t)
  /\ scope' = [scope EXCEPT ![t] = d]
  /\ toggled' = [toggled EXCEPT ![t] = ready[t]]
  /\ UNCHANGED <<store, live, page, island, ready, marker, job, share, frozen, landing, author>>

\* The MutationObserver: recordDepth writes only if something changed.
RecordDepth(t) ==
  /\ toggled[t] /\ Free(t)
  /\ toggled' = [toggled EXCEPT ![t] = FALSE]
  /\ LET next == withDepth(store, page[t], scope[t])
     IN  job' = [job EXCEPT ![t] = IF next = store THEN None
                                   ELSE [read |-> store, next |-> next, resend |-> FALSE]]
  /\ UNCHANGED <<store, live, page, island, ready, scope, marker, share, frozen, landing, author>>

-----------------------------------------------------------------------------
\* Sharing.

\* A press while one is out does nothing, nor one on a page come Back to after its
\* walk was sent.
Share(t) ==
  /\ t \in session.sharers
  /\ ready[t] /\ Settled(t)
  /\ share[t].state \in {"idle", "error"}
  /\ share' = [share EXCEPT ![t] = Sending(IF store # <<>> THEN store ELSE Seed(t), 1)]
  /\ UNCHANGED <<store, live, screen, marker, job, frozen, landing, author>>

Posted(t) == share[t].state = "sending" /\ Settled(t)
Missing(t) == Ids(share[t].walk) \ live

\* 201: the reader is sent to the new page.  A walk that was shared before, by
\* anybody, is answered with its page and its stops are not looked at again.
Shipped(t) ==
  /\ Posted(t)
  /\ Show(t, None, Loading(share[t].walk))
  /\ Leaves(t)
  /\ frozen' = [frozen EXCEPT ![t] =
       IF session.keeping THEN [page |-> page[t], scope |-> scope[t], share |-> Sent] ELSE None]
  /\ UNCHANGED <<store, live, marker, job, landing>>

\* (Mutation: the repair is made on the walk that was sent.)
RepairSent(t) ==
  /\ Posted(t) /\ Missing(t) # {} /\ share[t].posts = 1 /\ Free(t)
  /\ job' = [job EXCEPT ![t] =
       [read |-> store, next |-> Without(share[t].walk, Missing(t)), resend |-> TRUE]]
  /\ UNCHANGED <<store, live, screen, marker, share, frozen, landing, author>>

\* 400 naming dead stops, the first time: dropStops reads the trail again.
Repair(t) ==
  /\ Posted(t) /\ Missing(t) # {} /\ share[t].posts = 1 /\ Free(t)
  /\ job' = [job EXCEPT ![t] =
       [read |-> store, next |-> Without(store, Missing(t)), resend |-> TRUE]]
  /\ UNCHANGED <<store, live, screen, marker, share, frozen, landing, author>>

\* The second refusal, or any other failure of either post.
ShareFails(t) ==
  /\ Posted(t)
  /\ share' = [share EXCEPT ![t] = Failed]
  /\ UNCHANGED <<store, live, screen, marker, job, frozen, landing, author>>

-----------------------------------------------------------------------------
\* write.  After a repair the rest of the walk is sent again, unless
\* nothing is left of it.
Finish(t) ==
  /\ job[t] # None
  /\ store' = job[t].next
  /\ job' = [job EXCEPT ![t] = None]
  /\ share' = [share EXCEPT ![t] =
       IF ~job[t].resend THEN @
       ELSE IF job[t].next = <<>> THEN Failed ELSE Sending(job[t].next, @.posts + 1)]
  /\ author' = IF job[t].resend THEN author ELSE t
  /\ UNCHANGED <<live, page, island, ready, scope, toggled, marker, frozen, landing>>

-----------------------------------------------------------------------------
\* SharedTrail: the page of somebody's walk, which comes with the live graph.

OpenTrail(t, w) ==
  /\ Settled(t)
  /\ Show(t, None, Loading(w))
  /\ Keep(t) /\ Leaves(t)
  /\ landing' = [landing EXCEPT ![t] = FALSE]
  /\ UNCHANGED <<store, live, marker, job>>

\* The API's answer, which may be a cached one and then miss some of the marks;
\* 404; or an error, something that is not a trail in every stop, or nothing.
TrailArrives(t) ==
  /\ island[t].at = "loading"
  /\ \/ \E marked \in SUBSET (Ids(island[t].walk) \ live) :
          island' = [island EXCEPT ![t] = Ready(@.walk, marked)]
     \/ island' = [island EXCEPT ![t] = NoTrail]
     \/ island' = [island EXCEPT ![t] = [at |-> "unreachable", walk |-> @.walk]]
  /\ UNCHANGED <<store, live, page, ready, scope, toggled, marker, job, share, frozen, landing, author>>

Retry(t) ==
  /\ island[t].at = "unreachable"
  /\ island' = [island EXCEPT ![t] = Loading(@.walk)]
  /\ UNCHANGED <<store, live, page, ready, scope, toggled, marker, job, share, frozen, landing, author>>

\* The first stop a shared page does not mark missing, else the first.
FirstStanding(w, marked) ==
  IF Ids(w) \subseteq marked THEN w[1].id
  ELSE w[CHOOSE i \in DOMAIN w : w[i].id \notin marked
                                   /\ \A j \in 1..(i - 1) : w[j].id \in marked].id

\* "Walk this trail": the walk replaces the reader's own, and the reader is
\* sent to its first standing stop.  The marks are as old as the page: a concept
\* taken out since is a 404.
Walk(t) ==
  /\ island[t].at = "ready" /\ Free(t)
  /\ LET first == FirstStanding(island[t].walk, island[t].marked)
     IN  /\ store' = Capped(island[t].walk)
         /\ marker' = [marker EXCEPT ![t] = first]
         /\ Show(t, IF first \in live THEN first ELSE None, NoTrail)
         /\ landing' = [landing EXCEPT ![t] = first \in live]
  /\ frozen' = [frozen EXCEPT ![t] = None]
  /\ author' = None
  /\ UNCHANGED <<live, job>>

\* A deploy takes a concept out.
Unpublish(c) ==
  /\ c \in live \cap session.doomed
  /\ live' = live \ {c}
  /\ UNCHANGED <<store, screen, marker, job, share, frozen, landing, author>>

Next ==
  /\ \/ \E t \in Tabs :
          \/ \E c \in Concepts \cup {None} : Open(t, c)
          \/ Back(t) \/ Visit(t) \/ RecordDepth(t) \/ Finish(t)
          \/ \E d \in Depths : SetDepth(t, d)
          \/ Share(t) \/ Shipped(t) \/ Repair(t) \/ ShareFails(t)
          \/ \E w \in session.shared : OpenTrail(t, w)
          \/ TrailArrives(t) \/ Retry(t) \/ Walk(t)
     \/ \E c \in Concepts : Unpublish(c)
  /\ UNCHANGED session

Spec == Init /\ [][Next]_vars

-----------------------------------------------------------------------------
\* An adopted walk keeps its author's order when the reader lands on it: the
\* arrival writes nothing, whatever other tabs did with markers of their own.
LandingKeepsOrder ==
  [][\A t \in Tabs :
       landing[t] /\ ready'[t] /\ page[t] \in Ids(store) => job'[t] = None]_vars

\* What the write of t is judged by: the trail as it stands, and in a browser that
\* does not lock storage the trail as t read it.
Base(t) == IF locking THEN store ELSE job[t].read

\* A write pushes a stop off only the front of a full trail, to make room for one
\* that was not in it.
PushedOff(id, trail) ==
  Len(trail) = MaxStops /\ id = trail[1].id /\ Last(store').id \notin Ids(trail)

\* A stop leaves the trail only when it is dead, when another walk is adopted, or
\* as the oldest of a full trail, for a new stop.  In particular a repair takes
\* out nothing another tab added since the walk was sent.  Without the lock the
\* later of two writes drops what the earlier one added since it read, and
\* nothing else.
NothingForgotten ==
  [][\A id \in Ids(store) \ Ids(store') :
       \/ id \notin live \/ (\E t \in Tabs : Walk(t))
       \/ \E t \in Tabs :
            /\ job[t] # None /\ job'[t] = None
            /\ id \notin Ids(Base(t)) \/ PushedOff(id, Base(t))]_vars

\* "A stale island must not be able to rewrite the depth of a stop the reader
\* has already walked past": while the order stands, only the last stop's depth
\* may change.
StaleIslandHarmless ==
  [][locking /\ Len(store') = Len(store) /\ (\A i \in DOMAIN store : store'[i].id = store[i].id)
       /\ ~(\E t \in Tabs : Walk(t))
     => \A i \in 1..(Len(store) - 1) : store'[i] = store[i]]_vars

\* Whatever the order in which the two islands hydrate, the page that last put
\* itself on record is on record at the depth it shows.
DepthOnRecord ==
  \A t \in Tabs :
    locking /\ author = t /\ Settled(t) /\ EndsAt(store, page[t]) => Last(store).depth = Onscreen(t)

-----------------------------------------------------------------------------
\* The trail as the reader sees it.

shownStop == [t \in Tabs |-> IF page[t] = None THEN {} ELSE {[id |-> page[t], depth |-> Onscreen(t)]}]
offeredWalk == [t \in Tabs |-> IF island[t].at = "ready" THEN island[t].walk ELSE <<>>]

readTrail == [t \in Tabs |-> IF job[t] = None THEN {} ELSE {job[t].read}]

OneTrail == INSTANCE TrailContract WITH
  trail <- store, gone <- Concepts \ live, shown <- shownStop, offered <- offeredWalk,
  read <- readTrail, browser <- [locking |-> locking, limit |-> MaxStops]

\* visit, recordDepth and dropStops, each of which reads the trail and writes it
\* back, leave one list that changes by the stop a tab shows when it writes, by a
\* repair that takes out dead stops, or by the shared trail on a tab's screen: where
\* the browser locks storage as if in one step, elsewhere from the trail as it was
\* when the tab read it.
TrailSpec == OneTrail!TrailSpec
=============================================================================
