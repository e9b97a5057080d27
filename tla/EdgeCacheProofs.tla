--------------------------- MODULE EdgeCacheProofs ---------------------------
(***************************************************************************)
(* For any lifetimes in which the browser's is no longer than the edge's,  *)
(* and any number of readers: what a reader is shown was so within one     *)
(* lifetime of the edge.                                                   *)
(***************************************************************************)
EXTENDS EdgeCache, TLAPS

\* The response tells what the store told at the time it was made, or what a
\* failed batch leaves a trail to say.
Truthful(k, a) ==
  CASE k = "concept"                   -> a.body \in held[a.at]
    [] k = "trail" /\ a.body = Gone    -> 0 \in held[a.at]
    [] k = "trail" /\ a.body # Gone    -> (\E v \in held[a.at] : v # 0) \/ a.at \in slips

\* A response in hand was made in the past and is truthful about it.
Sound(k, a) == a \in OK /\ a.at <= now /\ Truthful(k, a)

\* Whatever is kept, on its way or shown is sound: on its way it was made just
\* now, shown it was made within a lifetime of the edge.
CacheInv ==
  /\ live \in held[now]
  /\ \A k \in Resources : edge[k] # None => Sound(k, edge[k])
  /\ \A r \in Readers, k \in Resources : browser[r][k] # None => Sound(k, browser[r][k])

WayInv ==
  \A r \in Readers :
    /\ req[r].at = "read" => req[r].of = "concept"
    /\ req[r].at = "mark" => req[r].of = "trail"
    /\ req[r].at = "answer" /\ req[r].with.status = 200 =>
         Sound(req[r].of, req[r].with) /\ req[r].with.at = now

InTime(k, a) == a.at = now \/ now - a.at < EdgeTTL[k]

ShownInv ==
  \A r \in Readers :
    shown[r] # None /\ shown[r].answer.status = 200 =>
      Sound(shown[r].of, shown[r].answer) /\ InTime(shown[r].of, shown[r].answer)

IInv == TypeOK /\ CacheInv /\ WayInv /\ ShownInv
-----------------------------------------------------------------------------
\* Time and history only move forward.
LEMMA HistoryGrows ==
  ASSUME TypeOK, [Next]_vars
  PROVE  /\ now' \in Times /\ now <= now'
         /\ held' \in [Times -> SUBSET Versions] /\ slips' \subseteq Times
         /\ \A t \in Times : t <= now => held[t] \subseteq held'[t]
         /\ slips \subseteq slips'
<1> USE EdgeCacheAssumption DEF TypeOK, Times, Versions
<1>1. CASE Tick
  BY <1>1 DEF Tick
<1>2. CASE Publish
  BY <1>2 DEF Publish
<1>3. ASSUME NEW r \in Readers, markMissing(r)
      PROVE  UNCHANGED <<now, held>> /\ slips' \subseteq Times /\ slips \subseteq slips'
  BY <1>3 DEF markMissing
<1>4. ASSUME NEW r \in Readers, NEW k \in Resources, FromBrowser(r, k) \/ FromEdge(r, k) \/ ToOrigin(r, k)
      PROVE  UNCHANGED <<now, held, slips>>
  BY <1>4 DEF FromBrowser, FromEdge, ToOrigin
<1>5. ASSUME NEW r \in Readers, ReadConcept(r) \/ Fails(r) \/ Deliver(r)
      PROVE  UNCHANGED <<now, held, slips>>
  BY <1>5 DEF ReadConcept, Fails, Deliver
<1>6. CASE UNCHANGED vars
  BY <1>6 DEF vars
<1>7. ASSUME UNCHANGED <<now, held>>, slips' \subseteq Times, slips \subseteq slips'
      PROVE  /\ now' \in Times /\ now <= now'
             /\ held' \in [Times -> SUBSET Versions]
             /\ \A t \in Times : t <= now => held[t] \subseteq held'[t]
  BY <1>7
<1> QED BY <1>1, <1>2, <1>3, <1>4, <1>5, <1>6, <1>7 DEF Next

\* So what was true of the past stays true of it.
LEMMA SoundStays ==
  ASSUME TypeOK, [Next]_vars
  PROVE  \A k \in Resources : \A a \in OK : Sound(k, a) => Sound(k, a)'
<1> SUFFICES ASSUME NEW k \in Resources, NEW a \in OK, Sound(k, a)
             PROVE  Sound(k, a)'
  OBVIOUS
<1>1. a.at \in Times /\ a.at <= now
  BY DEF Sound, OK
<1>2. held[a.at] \subseteq held'[a.at] /\ slips \subseteq slips'
  BY <1>1, HistoryGrows
<1>3. a.at <= now'
  BY <1>1, HistoryGrows DEF Times, TypeOK
<1>4. Truthful(k, a)'
  BY <1>2 DEF Sound, Truthful, Resources
<1> QED BY <1>3, <1>4 DEF Sound

\* A request past the caches is for a resource, and answered with an answer.
LEMMA Asked ==
  ASSUME TypeOK, NEW r \in Readers, req[r].at \in {"read", "mark", "answer"}
  PROVE  /\ req[r].of \in Resources
         /\ req[r].at = "answer" => req[r].with \in Answers
BY DEF TypeOK, Idle

\* The origin's answer goes on its way.
LEMMA Replied ==
  ASSUME TypeOK, NEW r \in Readers, req[r].of \in Resources,
         NEW answer \in Answers, req' = Reply(r, answer)
  PROVE  /\ req' \in [Readers -> {Idle} \cup [at : {"read", "mark"}, of : Resources]
                           \cup [at : {"answer"}, of : Resources, with : Answers]]
         /\ req'[r].of = req[r].of /\ req'[r].at = "answer" /\ req'[r].with = answer
         /\ \A q \in Readers \ {r} : req'[q] = req[q]
BY DEF TypeOK, Reply

\* What the origin may say of the trail's stop is an answer.
LEMMA MarksAreAnswers ==
  ASSUME TypeOK, NEW body \in {Gone, Stands}
  PROVE  [status |-> 200, body |-> body, at |-> now] \in OK
BY EdgeCacheAssumption DEF TypeOK, OK, Versions, Gone, Stands

\* The types are kept.
LEMMA TypeStep ==
  ASSUME TypeOK, [Next]_vars
  PROVE  TypeOK'
<1> USE EdgeCacheAssumption DEF TypeOK
<1>1. CASE Tick
  BY <1>1, HistoryGrows DEF Tick
<1>2. CASE Publish
  BY <1>2, HistoryGrows DEF Publish, Versions
<1>3. ASSUME NEW r \in Readers, NEW k \in Resources, FromBrowser(r, k)
      PROVE  TypeOK'
  BY <1>3, HistoryGrows DEF FromBrowser, Show, Fresh, Answers
<1>4. ASSUME NEW r \in Readers, NEW k \in Resources, FromEdge(r, k)
      PROVE  TypeOK'
  BY <1>4, HistoryGrows DEF FromEdge, Show, Fresh, Answers
<1>5. ASSUME NEW r \in Readers, NEW k \in Resources, ToOrigin(r, k)
      PROVE  TypeOK'
  BY <1>5, HistoryGrows DEF ToOrigin
<1>6. ASSUME NEW r \in Readers, ReadConcept(r)
      PROVE  TypeOK'
  <2>1. [status |-> 200, body |-> live, at |-> now] \in OK /\ NotFound \in Answers
    BY DEF OK, Versions, Answers
  <2> QED BY <1>6, <2>1, HistoryGrows, Asked, Replied DEF ReadConcept, Answers
<1>7. ASSUME NEW r \in Readers, markMissing(r)
      PROVE  TypeOK'
  <2>1. PICK body \in {Gone, Stands} :
          req' = Reply(r, [status |-> 200, body |-> body, at |-> now])
    BY <1>7 DEF markMissing
  <2> QED BY <1>7, <2>1, HistoryGrows, Asked, Replied, MarksAreAnswers DEF markMissing, Answers
<1>8. ASSUME NEW r \in Readers, Fails(r)
      PROVE  TypeOK'
  BY <1>8, HistoryGrows DEF Fails
<1>9. ASSUME NEW r \in Readers, Deliver(r)
      PROVE  TypeOK'
  <2>1. req[r].of \in Resources /\ req[r].with \in Answers
    BY <1>9, Asked DEF Deliver
  <2>2. req[r].with.status = 200 => req[r].with \in OK
    BY <2>1 DEF Answers, NotFound
  <2>3. edge' \in [Resources -> OK \cup {None}] /\ browser' \in [Readers -> [Resources -> OK \cup {None}]]
    BY <1>9, <2>1, <2>2 DEF Deliver
  <2>4. shown' \in [Readers -> {None} \cup [of : Resources, answer : Answers]]
    BY <1>9, <2>1 DEF Deliver, Show
  <2> QED BY <1>9, <2>3, <2>4, HistoryGrows DEF Deliver
<1>10. CASE UNCHANGED vars
  BY <1>10 DEF vars
<1> QED BY <1>1, <1>2, <1>3, <1>4, <1>5, <1>6, <1>7, <1>8, <1>9, <1>10 DEF Next
-----------------------------------------------------------------------------
\* The store's version is among those of the moment, whatever happens.
LEMMA LiveIsHeld ==
  ASSUME TypeOK, live \in held[now], [Next]_vars
  PROVE  (live \in held[now])'
<1> USE EdgeCacheAssumption DEF TypeOK
<1>1. CASE Tick
  BY <1>1 DEF Tick, Times
<1>2. CASE Publish
  BY <1>2 DEF Publish
<1>3. ASSUME UNCHANGED <<now, live>> PROVE (live \in held[now])'
  BY <1>3, HistoryGrows DEF Times
<1> QED BY <1>1, <1>2, <1>3
        DEF Next, FromBrowser, FromEdge, ToOrigin, ReadConcept, markMissing, Fails, Deliver, vars

\* What is kept was delivered, or copied from what is kept.
LEMMA CacheStep ==
  ASSUME TypeOK, CacheInv, WayInv, [Next]_vars
  PROVE  CacheInv'
<1> USE DEF CacheInv
<1>1. ASSUME UNCHANGED <<edge, browser>> PROVE CacheInv'
  BY <1>1, LiveIsHeld, SoundStays DEF TypeOK
<1>2. ASSUME NEW r \in Readers, NEW k \in Resources, FromEdge(r, k) PROVE CacheInv'
  <2>1. edge' = edge /\ browser' = [browser EXCEPT ![r][k] = edge[k]]
    BY <1>2 DEF FromEdge
  <2>2. \A q \in Readers, l \in Resources :
          browser'[q][l] = IF q = r /\ l = k THEN edge[k] ELSE browser[q][l]
    BY <2>1 DEF TypeOK
  <2> QED BY <2>1, <2>2, LiveIsHeld, SoundStays DEF TypeOK
<1>3. ASSUME NEW r \in Readers, Deliver(r) PROVE CacheInv'
  <2> DEFINE k == req[r].of
             a == req[r].with
  <2>1. CASE a.status = 200
    <3>1. k \in Resources /\ a \in OK /\ Sound(k, a)
      BY <1>3, <2>1, Asked DEF Deliver, WayInv, Sound
    <3>2. /\ \A l \in Resources : edge'[l] = IF l = k THEN a ELSE edge[l]
          /\ \A q \in Readers, l \in Resources :
               browser'[q][l] = IF q = r /\ l = k THEN a ELSE browser[q][l]
      <4>1. edge' = [edge EXCEPT ![k] = a] /\ browser' = [browser EXCEPT ![r][k] = a]
        BY <1>3, <2>1, Zenon DEF Deliver
      <4> QED BY <3>1, <4>1 DEF TypeOK
    <3>3. \A l \in Resources : edge'[l] # None => Sound(l, edge[l])'
      BY <3>1, <3>2, SoundStays DEF TypeOK
    <3>4. \A q \in Readers, l \in Resources : browser'[q][l] # None => Sound(l, browser[q][l])'
      BY <3>1, <3>2, SoundStays DEF TypeOK
    <3> QED BY <3>3, <3>4, LiveIsHeld
  <2>2. CASE a.status # 200
    BY <1>1, <1>3, <2>2 DEF Deliver
  <2> QED BY <2>1, <2>2
<1> QED BY <1>1, <1>2, <1>3
        DEF Next, Tick, Publish, FromBrowser, ToOrigin, ReadConcept, markMissing, Fails, vars

\* The clock stands while a request is out, so an answer on its way is of now.
LEMMA WayStep ==
  ASSUME TypeOK, CacheInv, WayInv, [Next]_vars
  PROVE  WayInv'
<1> USE DEF TypeOK
<1>1. CASE Tick
  BY <1>1 DEF Tick, WayInv, Idle
<1>2. ASSUME NEW r \in Readers, UNCHANGED now,
             \A q \in Readers \ {r} : req'[q] = req[q],
             req'[r].at = "read" => req'[r].of = "concept",
             req'[r].at = "mark" => req'[r].of = "trail",
             req'[r].at = "answer" /\ req'[r].with.status = 200 =>
               (Sound(req[r].of, req[r].with) /\ req[r].with.at = now)'
      PROVE  WayInv'
  <2> SUFFICES ASSUME NEW q \in Readers, q # r, req'[q].at = "answer", req'[q].with.status = 200
               PROVE  (Sound(req[q].of, req[q].with) /\ req[q].with.at = now)'
    BY <1>2 DEF WayInv
  <2>1. Sound(req[q].of, req[q].with) /\ req[q].with.at = now
    BY <1>2 DEF WayInv
  <2>2. req[q].of \in Resources /\ req[q].with \in OK
    BY <1>2, <2>1, Asked DEF Sound
  <2> QED BY <1>2, <2>1, <2>2, SoundStays
<1>3. ASSUME UNCHANGED <<now, req>> PROVE WayInv'
  <2> SUFFICES ASSUME NEW q \in Readers, req[q].at = "answer", req[q].with.status = 200
               PROVE  (Sound(req[q].of, req[q].with) /\ req[q].with.at = now)'
    BY <1>3 DEF WayInv
  <2>1. Sound(req[q].of, req[q].with) /\ req[q].with.at = now
    BY <1>3 DEF WayInv
  <2>2. req[q].of \in Resources /\ req[q].with \in OK
    BY <1>3, <2>1, Asked DEF Sound
  <2> QED BY <1>3, <2>1, <2>2, SoundStays
<1>4. ASSUME NEW r \in Readers, NEW k \in Resources, ToOrigin(r, k) PROVE WayInv'
  BY <1>2, <1>4 DEF ToOrigin, Resources
<1>5. ASSUME NEW r \in Readers, Fails(r) \/ Deliver(r) PROVE WayInv'
  BY <1>2, <1>5 DEF Fails, Deliver, Idle
<1>6. CASE Publish \/ UNCHANGED vars
  BY <1>3, <1>6 DEF Publish, vars
<1>7. ASSUME NEW r \in Readers, NEW k \in Resources, FromBrowser(r, k) \/ FromEdge(r, k) PROVE WayInv'
  BY <1>3, <1>7 DEF FromBrowser, FromEdge
<1>8. ASSUME NEW r \in Readers, ReadConcept(r) PROVE WayInv'
  <2>1. PICK answer \in Answers :
          /\ req' = Reply(r, answer)
          /\ answer.status = 200 =>
               answer \in OK /\ answer.at = now /\ answer.body = live
    BY <1>8 DEF ReadConcept, Answers, OK, NotFound, Versions
  <2>2. req[r].of = "concept" /\ req[r].of \in Resources
    BY <1>8 DEF ReadConcept, WayInv, Resources
  <2>3. /\ req'[r].of = "concept" /\ req'[r].at = "answer" /\ req'[r].with = answer
        /\ \A q \in Readers \ {r} : req'[q] = req[q]
    BY <2>1, <2>2, Replied
  <2>4. answer.status = 200 => Sound("concept", answer)'
    BY <1>8, <2>1 DEF ReadConcept, Sound, Truthful, CacheInv, Times
  <2> QED BY <1>2, <1>8, <2>1, <2>3, <2>4 DEF ReadConcept
<1>9. ASSUME NEW r \in Readers, markMissing(r) PROVE WayInv'
  <2> DEFINE mark == IF live = 0 THEN Gone ELSE Stands
             marked(body) == [status |-> 200, body |-> body, at |-> now]
  <2>1. PICK answer \in OK :
          /\ req' = Reply(r, answer) /\ answer.at = now
          /\ (answer.body = mark \/ (answer.body = Stands /\ now \in slips'))
    <3>1. \/ req' = Reply(r, marked(mark))
          \/ (req' = Reply(r, marked(Stands)) /\ now \in slips')
      BY <1>9 DEF markMissing
    <3>2. mark \in {Gone, Stands}
      OBVIOUS
    <3> HIDE DEF mark
    <3>3. marked(mark) \in OK /\ marked(Stands) \in OK
      BY <3>2, MarksAreAnswers
    <3>4. \A body : marked(body).at = now /\ marked(body).body = body
      OBVIOUS
    <3> HIDE DEF marked
    <3> QED BY <3>1, <3>3, <3>4
  <2>2. req[r].of = "trail" /\ req[r].of \in Resources
    BY <1>9 DEF markMissing, WayInv, Resources
  <2>3. /\ req'[r].of = "trail" /\ req'[r].at = "answer" /\ req'[r].with = answer
        /\ \A q \in Readers \ {r} : req'[q] = req[q]
    BY <2>1, <2>2, Replied DEF Answers
  <2>4. Sound("trail", answer)'
    <3>1. UNCHANGED <<now, live, held>>
      BY <1>9 DEF markMissing
    <3>2. answer.at \in Times /\ live \in held'[answer.at] /\ answer.at <= now'
      BY <2>1, <3>1 DEF CacheInv, Times
    <3>3. answer.body = Gone => 0 \in held'[answer.at]
      BY <2>1, <3>2 DEF Gone, Stands
    <3>4. answer.body # Gone => (\E v \in held'[answer.at] : v # 0) \/ answer.at \in slips'
      BY <2>1, <3>2 DEF Gone, Stands
    <3> QED BY <3>2, <3>3, <3>4 DEF Sound, Truthful
  <2> QED BY <1>2, <1>9, <2>1, <2>3, <2>4 DEF markMissing
<1> QED BY <1>1, <1>4, <1>5, <1>6, <1>7, <1>8, <1>9 DEF Next

-----------------------------------------------------------------------------
\* What is shown came from a cache that may still use it, or has just come.
LEMMA ShownStep ==
  ASSUME TypeOK, CacheInv, WayInv, ShownInv, [Next]_vars
  PROVE  ShownInv'
<1> USE DEF TypeOK
<1>1. ASSUME shown' = [r \in Readers |-> None] PROVE ShownInv'
  BY <1>1 DEF ShownInv
<1>2. ASSUME UNCHANGED now, NEW r \in Readers, NEW k \in Resources, NEW a \in Answers,
             shown' = [shown EXCEPT ![r] = [of |-> k, answer |-> a]]
               \/ shown' = [shown EXCEPT ![r] = None]
               \/ shown' = shown,
             a.status = 200 => Sound(k, a) /\ InTime(k, a)
      PROVE  ShownInv'
  <2> SUFFICES ASSUME NEW q \in Readers, shown'[q] # None, shown'[q].answer.status = 200
               PROVE  (Sound(shown[q].of, shown[q].answer) /\ InTime(shown[q].of, shown[q].answer))'
    BY <1>2 DEF ShownInv
  <2> DEFINE b == shown'[q].answer
             l == shown'[q].of
  <2>1. (shown'[q] = [of |-> k, answer |-> a] /\ q = r) \/ shown'[q] = shown[q]
    BY <1>2
  <2>2. l \in Resources /\ b \in OK /\ Sound(l, b) /\ InTime(l, b)
    BY <1>2, <2>1 DEF ShownInv, Sound
  <2> QED BY <1>2, <2>2, SoundStays DEF InTime
<1>3. CASE Tick \/ Publish
  BY <1>1, <1>3 DEF Tick, Publish
<1>4. ASSUME NEW r \in Readers, NEW k \in Resources, FromBrowser(r, k) PROVE ShownInv'
  <2>1. /\ Sound(k, browser[r][k]) /\ now - browser[r][k].at < BrowserTTL[k]
        /\ BrowserTTL[k] <= EdgeTTL[k]
    BY <1>4, EdgeCacheAssumption DEF FromBrowser, Fresh, CacheInv
  <2>2. browser[r][k] \in Answers /\ now - browser[r][k].at < EdgeTTL[k]
    BY <2>1, EdgeCacheAssumption DEF Sound, Answers, OK, Times
  <2> QED BY <1>2, <1>4, <2>1, <2>2 DEF FromBrowser, Show, InTime
<1>5. ASSUME NEW r \in Readers, NEW k \in Resources, FromEdge(r, k) PROVE ShownInv'
  <2>1. Sound(k, edge[k]) /\ edge[k] \in Answers /\ now - edge[k].at < EdgeTTL[k]
    BY <1>5 DEF FromEdge, Fresh, CacheInv, Sound, Answers
  <2> QED BY <1>2, <1>5, <2>1 DEF FromEdge, Show, InTime
<1>6. ASSUME NEW r \in Readers, Deliver(r) PROVE ShownInv'
  <2>1. req[r].of \in Resources /\ req[r].with \in Answers
    BY <1>6, Asked DEF Deliver
  <2>2. req[r].with.status = 200 => Sound(req[r].of, req[r].with) /\ req[r].with.at = now
    BY <1>6 DEF Deliver, WayInv
  <2>3. UNCHANGED now /\ shown' = [shown EXCEPT ![r] = [of |-> req[r].of, answer |-> req[r].with]]
    BY <1>6 DEF Deliver, Show
  <2> QED BY <1>2, <2>1, <2>2, <2>3 DEF InTime
<1>7. ASSUME UNCHANGED now, NEW r \in Readers,
             shown' = [shown EXCEPT ![r] = None] \/ shown' = shown
      PROVE  ShownInv'
  <2>1. "trail" \in Resources /\ NotFound \in Answers /\ NotFound.status # 200
    BY DEF Resources, Answers, NotFound
  <2> QED BY <1>2, <1>7, <2>1
<1>8. ASSUME NEW r \in Readers, NEW k \in Resources, ToOrigin(r, k) PROVE ShownInv'
  BY <1>7, <1>8 DEF ToOrigin
<1>9. ASSUME NEW r \in Readers, ReadConcept(r) \/ markMissing(r) \/ Fails(r) PROVE ShownInv'
  BY <1>7, <1>9 DEF ReadConcept, markMissing, Fails
<1>10. CASE UNCHANGED vars
  BY <1>7, <1>10 DEF vars, ShownInv
<1> QED BY <1>3, <1>4, <1>5, <1>6, <1>8, <1>9, <1>10 DEF Next

\* Nothing is kept, asked or shown at first.
LEMMA InductiveInit == Init => IInv
<1> SUFFICES ASSUME Init PROVE IInv
  OBVIOUS
<1>1. TypeOK
  BY EdgeCacheAssumption DEF Init, TypeOK, Times, Versions
<1>2. CacheInv
  BY EdgeCacheAssumption DEF Init, CacheInv, Times
<1>3. WayInv /\ ShownInv
  BY DEF Init, WayInv, ShownInv, Idle
<1> QED BY <1>1, <1>2, <1>3 DEF IInv

-----------------------------------------------------------------------------
\* The invariant holds of every behaviour of readers, caches and publishes.
THEOREM Invariance == Spec => []IInv
<1>1. IInv /\ [Next]_vars => IInv'
  BY TypeStep, CacheStep, WayStep, ShownStep DEF IInv
<1> QED BY InductiveInit, <1>1, PTL DEF Spec

\* What was shown in time was so at one of the times of the window.
LEMMA ShownInTime ==
  ASSUME IInv, NEW r \in Readers, NEW k \in Resources, Told(r, k, 200)
  PROVE  /\ shown[r].answer.at \in Window(k)
         /\ Truthful(k, shown[r].answer)
<1>1. Sound(k, shown[r].answer) /\ InTime(k, shown[r].answer)
  BY DEF IInv, ShownInv, Told
<1> QED BY <1>1 DEF Window, Sound, OK, InTime

\* A concept is shown as the store had it within one lifetime of the edge
\* (cacheGraph's s-maxage), however many caches and readers it went through.
THEOREM ConceptsInTime == Spec => []StaleAtMostOneLifetime
<1>1. IInv => StaleAtMostOneLifetime
  BY ShownInTime DEF StaleAtMostOneLifetime, Truthful, Resources
<1> QED BY Invariance, <1>1, PTL

\* And so is the mark on a trail's stop (markMissing, cacheTrail), but for a
\* batch that failed within the lifetime.
THEOREM MarksInTime == Spec => []MarksAtMostOneLifetime
<1>1. IInv => MarksAtMostOneLifetime
  BY ShownInTime DEF MarksAtMostOneLifetime, Truthful, Resources
<1> QED BY Invariance, <1>1, PTL

\* A cache holds an answer of status 200 or nothing, never a 404, and what is live is
\* the newest version or nothing.
THEOREM TypeCorrect == Spec => []TypeOK
<1>1. IInv => TypeOK
  BY DEF IInv
<1> QED BY Invariance, <1>1, PTL
=============================================================================
