----------------------------- MODULE VideoFinder -----------------------------
(***************************************************************************)
(* web/scripts/find-video-explainers.mjs: a search that spends a quota on  *)
(* one target after another and checkpoints after each, over days, with    *)
(* YouTube refusing, the process dying, and people reading, dismissing and *)
(* picking what it found.                                                  *)
(* A title is the set of its words.  Points are thousandths of a score.    *)
(***************************************************************************)
EXTENDS Integers, Sequences, FiniteSets, SequencesExt, FiniteSetsExt

CONSTANTS
  Nodes,       \* the corpus as readNodes lists it: [id, domain, edges]
  Words,       \* concept id or domain -> the words of its title
  Stopwords,
  Answers,     \* the sets of videos a query may bring back
  Handles,     \* the channels trusted by handle
  Search, Videos, Channels, \* COST, in units
  Budget, Attempts, StopAfter, MinScore, Unwatched,
  MaxCrashes, MaxJudgments  \* bounds

None == "none"

ASSUME VideoFinderAssumption ==
  /\ Channels \in Nat \ {0} /\ Videos \in Nat \ {0} /\ Search \in Nat /\ Search > Videos
  /\ IsFiniteSet(Handles) /\ Budget \in Nat /\ Budget >= Channels * Cardinality(Handles) + Search
  /\ Attempts \in Nat \ {0} /\ StopAfter \in Nat \ {0}
  /\ MinScore \in 1..1000 /\ Unwatched \in Nat
  /\ MaxCrashes \in Nat /\ MaxJudgments \in Nat

VARIABLES
  scope,      \* "concept" with --concepts, "domain" without: one checkpoint each
  file, torn, \* the checkpoint on disk; truncated by writeFileSync and not yet written
  prior,      \* the checkpoint in memory
  todo,       \* the targets of this run that are left
  pc, attempt, spent, refused, allowed,
  found,      \* what YouTube offered for the target being recorded
  dismissed, covered,   \* content/explainers-dismissed.json, concepts with a video
  judgments, crashes,   \* counts, for the bounds
  streak      \* history: searches charged since a target was last not refused

run == <<prior, todo, pc, attempt, spent, refused, allowed, found, streak>>
people == <<dismissed, covered, judgments>>
disk == <<file, torn>>
vars == <<scope, disk, run, people, crashes>>

-----------------------------------------------------------------------------
\* Targets and queries.

Ids == {n.id : n \in ToSet(Nodes)}
Domains == UNION {n.domain : n \in ToSet(Nodes)}
AllTargets == Ids \cup Domains

\* A title has a word, and few enough that one of them counts for a thousandth.
ASSUME CorpusAssumption ==
  /\ Nodes \in Seq(ToSet(Nodes)) /\ \A n \in ToSet(Nodes) : IsFiniteSet(n.domain)
  /\ \A t \in AllTargets : IsFiniteSet(Words[t]) /\ Cardinality(Words[t]) \in 1..500
  /\ \A vs \in Answers :
       /\ IsFiniteSet(vs)
       /\ \A v \in vs : v \in [title : {v.title}, channel : {v.channel}, named : BOOLEAN,
                              length : {"teachable", "short", "long", "unknown"}, views : Nat]

Node(id) == CHOOSE n \in ToSet(Nodes) : n.id = id

inDegree(id) == FoldSeq(LAMBDA n, d : d + Cardinality({k \in DOMAIN n.edges : n.edges[k] = id}), 0, Nodes)

\* The three first edges of a concept that name a node; its whole context.
neighbourTitles(n) ==
  {n.edges[k] : k \in {k \in DOMAIN n.edges : /\ n.edges[k] \in Ids
                                             /\ Cardinality({n.edges[j] : j \in 1..k} \cap Ids) <= 3}}

\* Which file a concept is.
File(id) == CHOOSE i \in DOMAIN Nodes : Nodes[i].id = id

Members(d) == {id \in Ids : d \in Node(id).domain}
\* The three most referenced concepts of a domain, the earlier file on a tie.
Central(d) ==
  LET before(a, b) == inDegree(a) > inDegree(b) \/ (inDegree(a) = inDegree(b) /\ File(a) < File(b))
  IN {id \in Members(d) : Cardinality({b \in Members(d) : before(b, id)}) < 3}

sample(t) == IF t \in Ids THEN neighbourTitles(Node(t)) ELSE Central(t)

targets(s) == IF s = "concept" THEN Ids ELSE Domains

\* In what order: the concepts by file, the domains by size and then by the first
\* file that names them.
Place ==
  LET size(d) == Cardinality(Members(d))
      first(d) == CHOOSE i \in {File(id) : id \in Members(d)} : \A id \in Members(d) : i <= File(id)
      before(a, b) == size(a) > size(b) \/ (size(a) = size(b) /\ first(a) < first(b))
  IN [t \in AllTargets |-> IF t \in Ids THEN File(t) ELSE Cardinality({d \in Domains : before(d, t)})]

\* A query is a title in a context; FIELD is the context of what has none.
queryFor(t) == [title |-> t, context |-> IF t \in Ids /\ sample(t) = {} THEN "FIELD" ELSE "sample"]
Wide(t) == [title |-> t, context |-> "FIELD"]
\* The queries there are to fall back to: one for a concept with neighbours.
widenedQueryFor(t) == IF t \in Ids THEN {Wide(t)} \ {queryFor(t)} ELSE {}

facets(t) == {Words[t]} \cup IF t \in Domains THEN {Words[c] : c \in sample(t)} ELSE {}

\* The words of one concept's title and of no other: a video without them is
\* reported as missing them, and scores the same.
distinctive(id) ==
  {w \in Words[id] \ Stopwords : \A other \in Ids \ {id} : w \notin Words[other]}
missingDistinctive(v, t) == IF t \in Ids THEN distinctive(t) \ v.title ELSE {}

-----------------------------------------------------------------------------
\* Scoring.

\* (Mutation: the weights of before #432.)
WeightsOfReputation == [allowlist |-> 400, namedAuthor |-> 120, overlap |-> 300,
                        teachableLength |-> 150, views |-> 100, unwatched |-> 250]

WEIGHTS == [allowlist |-> 200, namedAuthor |-> 120, overlap |-> 600,
            teachableLength |-> 150, views |-> 100, unwatched |-> 450]

Trusted(v, ids) == v.channel \in ids \/ v.named
Reputation(v, ids) ==
  IF v.channel \in ids THEN WEIGHTS.allowlist ELSE IF v.named THEN WEIGHTS.namedAuthor ELSE 0

\* The best of the facets, never their union (#386).
Share(v, t) == Max({(1000 * Cardinality(f \cap v.title)) \div Cardinality(f) : f \in facets(t)})
Relevance(v, t) == (WEIGHTS.overlap * Share(v, t)) \div 1000

Length(v) ==
  IF v.length = "teachable" THEN WEIGHTS.teachableLength
  ELSE IF v.length = "short" THEN -WEIGHTS.teachableLength ELSE 0

\* log10(views) / 100, rounded down to the decade, of which ten reach the cap.
Popularity(v) == Min({WEIGHTS.views, 10 * Cardinality({k \in 0..9 : v.views \div 10 >= 10^k})})

Floors(v, ids) == v.views > 0 /\ v.views < Unwatched /\ ~Trusted(v, ids)

Unclamped(v, t, ids) == Reputation(v, ids) + Relevance(v, t) + Length(v) + Popularity(v)
Clamp(n) == Max({0, Min({1000, n})})

score(v, t, ids, floor) ==
  IF Relevance(v, t) = 0 THEN 0
  ELSE Clamp(Unclamped(v, t, ids) - IF floor /\ Floors(v, ids) THEN WEIGHTS.unwatched ELSE 0)

kept(vs, t, ids) == {v \in vs : score(v, t, ids, TRUE) >= MinScore}

\* (Mutation: the floor is undone by adding it back to the clamped score.)
flooredByAddition(vs, t, ids) ==
  {v \in vs \ kept(vs, t, ids) : Floors(v, ids) /\ Relevance(v, t) > 0
     /\ score(v, t, ids, TRUE) + WEIGHTS.unwatched >= MinScore}

floored(vs, t, ids) ==
  {v \in vs \ kept(vs, t, ids) : Floors(v, ids) /\ score(v, t, ids, FALSE) >= MinScore}

\* The terms that fired; "missing" is the warning, and worth nothing.
reasons(v, t, ids, floor) ==
  IF Relevance(v, t) = 0 THEN {"no topic overlap"}
  ELSE {"matches"}
    \cup (IF v.channel \in ids THEN {"allowlisted channel"} ELSE IF v.named THEN {"named author"} ELSE {})
    \cup (IF missingDistinctive(v, t) # {} THEN {"missing"} ELSE {})
    \cup (IF v.length = "teachable" THEN {"teachable length"} ELSE IF v.length = "short" THEN {"too short"} ELSE {})
    \cup (IF floor /\ Floors(v, ids) THEN {"almost unwatched"} ELSE {})

rejecting(fired) ==
  IF "no topic overlap" \in fired THEN "no topic overlap"
  ELSE IF "too short" \in fired THEN "too short"
  ELSE IF "almost unwatched" \in fired THEN "almost unwatched" ELSE "just a low score"

\* What a finished target found, as opposed to what survived (#503).
outcome(vs, t, ids, widened) ==
  LET top == CHOOSE v \in vs : \A u \in vs : score(v, t, ids, TRUE) >= score(u, t, ids, TRUE)
      fired == IF vs = {} \/ kept(vs, t, ids) # {} THEN {} ELSE reasons(top, t, ids, TRUE)
  IN [returned |-> Cardinality(vs), kept |-> Cardinality(kept(vs, t, ids)), widened |-> widened,
      reasons |-> fired, reason |-> IF fired = {} THEN None ELSE rejecting(fired)]

-----------------------------------------------------------------------------
\* The checkpoint.

NoOutcome == [returned |-> 0, kept |-> 0, widened |-> FALSE, reasons |-> {}, reason |-> None]
Fresh == [done |-> {}, candidates |-> [t \in AllTargets |-> {}],
          floored |-> [t \in AllTargets |-> {}], outcomes |-> [t \in AllTargets |-> NoOutcome]]

\* (Mutation: the candidates of a target searched again join its old ones.)
RecordedAppending(cp, t, vs, widened) ==
  [cp EXCEPT !.done = @ \cup {t},
             !.candidates[t] = @ \cup kept(vs, t, allowed),
             !.floored[t] = floored(vs, t, allowed),
             !.outcomes[t] = outcome(vs, t, allowed, widened)]

\* Every record of a target is replaced, none appended to.
Recorded(cp, t, vs, widened) ==
  [cp EXCEPT !.done = @ \cup {t},
             !.candidates[t] = kept(vs, t, allowed),
             !.floored[t] = floored(vs, t, allowed),
             !.outcomes[t] = outcome(vs, t, allowed, widened)]

Productive(cp) == {t \in AllTargets : cp.candidates[t] # {}}

\* What still needs searching: the named, and of those no one dismissed the ones
\* never done and, with --redo-empty, the barren ones the corpus has no video for.
pending(cp, redoEmpty, redo) ==
  {t \in targets(scope) :
    \/ t \in redo
    \/ /\ t \notin dismissed
       /\ \/ t \notin cp.done
          \/ redoEmpty /\ t \notin Productive(cp) /\ t \notin covered}

\* Without the videos call nothing is known of a length or of views.
Bare(vs) == {[v EXCEPT !.length = "unknown", !.views = 0] : v \in vs}

\* What YouTube may offer, and what may be recorded of it.
Offered == (UNION Answers) \cup Bare(UNION Answers)
Fired == {"no topic overlap", "matches", "allowlisted channel", "named author", "missing",
          "teachable length", "too short", "almost unwatched"}
Outcomes == [returned : Nat, kept : Nat, widened : BOOLEAN, reasons : SUBSET Fired,
             reason : {None, "no topic overlap", "too short", "almost unwatched", "just a low score"}]
Checkpoints == [done : SUBSET AllTargets, candidates : [AllTargets -> SUBSET Offered],
                floored : [AllTargets -> SUBSET Offered], outcomes : [AllTargets -> Outcomes]]

TypeOK ==
  /\ scope \in {"concept", "domain"} /\ torn \in BOOLEAN
  /\ file \in Checkpoints /\ prior \in Checkpoints
  /\ todo \subseteq targets(scope) /\ found \subseteq Offered /\ IsFiniteSet(found) /\ allowed \subseteq Handles
  /\ pc \in {"off", "resolve", "loop", "narrow", "wide", "save", "writing", "finish", "closing"}
  /\ attempt \in 0..Attempts /\ spent \in Nat /\ refused \in Nat /\ streak \in Nat
  /\ dismissed \subseteq Ids /\ covered \subseteq Ids
  /\ judgments \in 0..MaxJudgments /\ crashes \in 0..MaxCrashes

\* Nothing of a run outlives it but the checkpoint.
Off == /\ prior' = Fresh /\ todo' = {} /\ attempt' = 0 /\ spent' = 0 /\ refused' = 0
       /\ allowed' = {} /\ found' = {} /\ streak' = 0

Init ==
  /\ scope \in {"concept", "domain"} /\ file = Fresh /\ torn = FALSE
  /\ prior = Fresh /\ todo = {} /\ pc = "off" /\ attempt = 0 /\ spent = 0 /\ refused = 0
  /\ allowed = {} /\ found = {} /\ streak = 0
  /\ dismissed = {} /\ covered = {} /\ judgments = 0 /\ crashes = 0

-----------------------------------------------------------------------------
\* One run.

\* What people decide during a run is read by the next.
Judge == pc = "off" /\ judgments < MaxJudgments /\ judgments' = judgments + 1

affords(units) == spent + units <= Budget
chargeSearch == spent' = spent + Search /\ streak' = streak + 1

\* (Mutation: the run collects what it finished in a set of its own.)
StartForgetting(redoEmpty, redo) ==
  /\ pc = "off" /\ ~torn /\ redo \subseteq targets(scope)
  /\ IF redoEmpty \/ redo # {} THEN Judge ELSE UNCHANGED judgments
  /\ prior' = [file EXCEPT !.done = {}] /\ todo' = pending(file, redoEmpty, redo) /\ pc' = "resolve"
  /\ UNCHANGED <<scope, disk, attempt, spent, refused, allowed, found, streak, dismissed, covered, crashes>>

\* The checkpoint, the dismissals and the corpus are read once, at the start; a
\* name that is no target is refused before anything is spent.  A run with a flag
\* is one of the judgments the bound counts.
Start(redoEmpty, redo) ==
  /\ pc = "off" /\ ~torn /\ redo \subseteq targets(scope)
  /\ IF redoEmpty \/ redo # {} THEN Judge ELSE UNCHANGED judgments
  /\ prior' = file /\ todo' = pending(file, redoEmpty, redo) /\ pc' = "resolve"
  /\ UNCHANGED <<scope, disk, attempt, spent, refused, allowed, found, streak, dismissed, covered, crashes>>

\* The lookups that can be afforded; those that fail drop their channel.
ResolveHandles ==
  /\ pc = "resolve"
  /\ LET n == Min({Cardinality(Handles), Budget \div Channels}) IN
     /\ \E ids \in SUBSET Handles : Cardinality(ids) <= n /\ allowed' = ids
     /\ spent' = n * Channels
  /\ pc' = "loop"
  /\ UNCHANGED <<scope, disk, prior, todo, attempt, refused, found, streak, people, crashes>>

\* The next target, or the end of the run.  One charge for all its attempts.
NextTarget ==
  /\ pc = "loop"
  /\ IF todo # {} /\ affords(Search)
     THEN /\ pc' = "narrow" /\ attempt' = 1 /\ chargeSearch
     ELSE /\ pc' = "finish" /\ UNCHANGED <<attempt, spent, streak>>
  /\ UNCHANGED <<scope, disk, prior, todo, refused, allowed, found, people, crashes>>

Asking == pc \in {"narrow", "wide"}
Target == CHOOSE t \in todo : \A u \in todo : Place[t] <= Place[u]

\* (Mutation: a second search the budget no longer covers.)
shouldWidenAnyway(vs) == pc = "narrow" /\ vs = {} /\ widenedQueryFor(Target) # {}

shouldWiden(vs) ==
  /\ pc = "narrow" /\ vs = {} /\ widenedQueryFor(Target) # {}
  /\ affords(Search)

Record(vs, units) ==
  /\ prior' = Recorded(prior, Target, vs, pc = "wide")
  /\ found' = vs /\ pc' = "save" /\ attempt' = 0
  /\ spent' = spent + units /\ refused' = 0 /\ streak' = 0
  /\ UNCHANGED <<todo, allowed>>

\* The search answers.  Nothing is widened once; something is looked up.
SearchAnswers(vs) ==
  /\ Asking
  /\ IF shouldWiden(vs)
     THEN /\ pc' = "wide" /\ attempt' = 1 /\ chargeSearch
          /\ UNCHANGED <<prior, todo, refused, allowed, found>>
     ELSE IF vs = {} THEN Record(vs, 0)
     ELSE IF affords(Videos) THEN Record(vs, Videos)
     ELSE Record(Bare(vs), 0)
  /\ UNCHANGED <<scope, disk, people, crashes>>

\* (Mutation: every attempt is charged, as before #400.)
RetryCharged ==
  /\ Asking /\ attempt < Attempts
  /\ attempt' = attempt + 1 /\ chargeSearch
  /\ UNCHANGED <<scope, disk, prior, todo, pc, refused, allowed, found, people, crashes>>

\* A burst limit, met again within the attempts.
Retry ==
  /\ Asking /\ attempt < Attempts
  /\ attempt' = attempt + 1
  /\ UNCHANGED <<scope, disk, prior, todo, pc, refused, allowed, found, spent, streak, people, crashes>>

refusals(previous, transient) == IF transient THEN previous + 1 ELSE 0

\* The target is lost to this run: it is not marked done, and the next one comes
\* unless too many in a row were refused.
Lose(transient, units) ==
  /\ refused' = refusals(refused, transient)
  /\ spent' = spent + units
  /\ streak' = IF transient THEN streak ELSE 0
  /\ IF refused' >= StopAfter THEN pc' = "finish" /\ UNCHANGED todo
     ELSE pc' = "loop" /\ todo' = todo \ {Target}
  /\ attempt' = 0
  /\ UNCHANGED <<scope, disk, prior, allowed, found, people, crashes>>

\* The attempts are used up, or the error is not a transient one.
SearchFails ==
  /\ Asking
  /\ \E transient \in BOOLEAN : (transient => attempt = Attempts) /\ Lose(transient, 0)

\* The videos call is charged and tried once.
DetailsFail ==
  /\ Asking /\ affords(Videos)
  /\ \E transient \in BOOLEAN : Lose(transient, Videos)

\* YouTube's own count, over all the runs of the day, says it is spent, to a
\* search or to the videos call after it.
QuotaExceeded ==
  /\ Asking /\ pc' = "finish" /\ attempt' = 0
  /\ spent' \in {spent} \cup IF affords(Videos) THEN {spent + Videos} ELSE {}
  /\ UNCHANGED <<scope, disk, prior, todo, refused, allowed, found, streak, people, crashes>>

\* (Mutation: the checkpoint is written when the run ends.)
SaveAtEnd ==
  /\ pc = "save" /\ pc' = "loop" /\ todo' = todo \ {Target} /\ found' = {}
  /\ UNCHANGED <<scope, disk, prior, attempt, spent, refused, allowed, streak, people, crashes>>

\* writeFileSync truncates, then writes: after every target, and at the end.
Save ==
  /\ pc \in {"save", "finish"} /\ torn' = TRUE /\ file' = Fresh
  /\ pc' = IF pc = "save" THEN "writing" ELSE "closing"
  /\ UNCHANGED <<scope, prior, todo, attempt, spent, refused, allowed, found, streak, people, crashes>>

Written ==
  /\ pc = "writing" /\ file' = prior /\ torn' = FALSE
  /\ pc' = "loop" /\ todo' = todo \ {Target} /\ found' = {}
  /\ UNCHANGED <<scope, prior, attempt, spent, refused, allowed, streak, people, crashes>>

Close ==
  /\ pc = "closing" /\ file' = prior /\ torn' = FALSE /\ pc' = "off" /\ Off
  /\ UNCHANGED <<scope, people, crashes>>

Crash ==
  /\ pc # "off" /\ crashes < MaxCrashes
  /\ crashes' = crashes + 1 /\ pc' = "off" /\ Off
  /\ UNCHANGED <<scope, disk, people>>

-----------------------------------------------------------------------------
\* The people.

\* A torn checkpoint cannot be parsed: it is a cache, and is deleted.
Discard ==
  /\ pc = "off" /\ torn /\ torn' = FALSE
  /\ UNCHANGED <<scope, file, run, people, crashes>>

\* (Mutation: the entries with a reason land even when another has none.)
dismissHalf(entries) ==
  /\ Judge
  /\ dismissed' = dismissed \cup ({e.target : e \in {f \in entries : f.reason}} \cap Ids)
  /\ UNCHANGED <<scope, disk, run, covered, crashes>>

\* `dismiss`: every entry names a concept and says why, or nothing is written.
dismiss(entries) ==
  /\ Judge
  /\ \A e \in entries : e.target \in Ids /\ e.reason
  /\ dismissed' = dismissed \cup {e.target : e \in entries}
  /\ UNCHANGED <<scope, disk, run, covered, crashes>>

\* What oEmbed, and for a 401 with a key videos.list, say of a pick.
Verified(pick) ==
  \/ pick.oembed = 200
  \/ pick.oembed = 401 /\ pick.keyed /\ pick.listed

\* `verify` writes the picks that exist, and a person merges them.  An answer that
\* never comes ends the command before it writes.
verify(picks) ==
  /\ Judge
  /\ covered' = covered \cup {p.target : p \in {q \in picks : Verified(q)}}
  /\ UNCHANGED <<scope, disk, run, dismissed, crashes>>

-----------------------------------------------------------------------------

Step == \/ ResolveHandles \/ NextTarget \/ Retry \/ SearchFails \/ DetailsFail \/ QuotaExceeded
        \/ Save \/ Written \/ Close
        \/ \E vs \in Answers : SearchAnswers(vs)

Entries == [target : Ids \cup {"typo"}, reason : BOOLEAN]
Picks == [target : Ids, oembed : {0, 200, 401, 404, 500}, keyed : BOOLEAN, listed : BOOLEAN]

People == \/ \E e \in Entries : dismiss({e})
          \/ \E p \in Picks : verify({p})
          \/ Discard

\* One target named at a time.
Next == \/ \E redoEmpty \in BOOLEAN, redo \in {{}} \cup {{t} : t \in AllTargets} : Start(redoEmpty, redo)
        \/ Step \/ Crash \/ People

Spec == Init /\ [][Next]_vars

\* It is run again every day, a torn checkpoint is noticed, and YouTube answers a
\* query in the end, the narrow and the wide.
FairSpec ==
  /\ Spec /\ WF_vars(Step) /\ WF_vars(Discard) /\ WF_vars(Start(FALSE, {}))
  /\ SF_vars(pc = "narrow" /\ \E vs \in Answers : SearchAnswers(vs))
  /\ SF_vars(pc = "wide" /\ \E vs \in Answers : SearchAnswers(vs))

-----------------------------------------------------------------------------
\* "Tracked and enforced here so the run STOPS with a checkpoint": no run spends
\* more than its budget, and being refused everywhere costs at most the narrow
\* and the wide search of StopAfter targets, whatever is retried.
SpendingBounded == spent <= Budget /\ streak <= 2 * StopAfter

\* What is on disk about a target comes from one search of it, through crashes,
\* retries by name and rescoring: kept and floored apart, counted as they are,
\* and nothing about a target that was never finished.
OneSearchPerTarget ==
  ~torn => \A t \in AllTargets :
    LET o == file.outcomes[t]  c == file.candidates[t]  f == file.floored[t] IN
    /\ c \cap f = {} /\ o.kept = Cardinality(c) /\ Cardinality(c \cup f) <= o.returned
    /\ t \notin file.done => o = NoOutcome /\ c \cup f = {}
    /\ t \in file.done => (o.reason = None <=> o.returned = 0 \/ o.kept > 0)

\* "RELEVANCE MUST OUTWEIGH REPUTATION", and what only the floor removed is
\* written down: of two videos of a length the whole match beats the half match,
\* or ties with it if that one has the ten billion views that reach the cap; and a
\* video that earns its place without the floor is kept or kept aside.
ScoreKeepsItsWord ==
  pc = "save" =>
    /\ \A a, b \in found :
         (Share(a, Target) = 1000 /\ Share(b, Target) <= 500 /\ a.length = b.length
            /\ ~Floors(a, allowed))
         => LET whole == score(a, Target, allowed, TRUE)  half == score(b, Target, allowed, TRUE) IN
            whole >= half /\ (Popularity(b) < WEIGHTS.views => whole > half)
    /\ \A v \in found :
         v \in prior.candidates[Target] \cup prior.floored[Target]
           <=> Share(v, Target) > 0 /\ Unclamped(v, Target, allowed) >= MinScore

\* Unless it tears the checkpoint, a crash loses the target in hand and no other.
CrashCostsOne ==
  [][(pc # "off" /\ pc' = "off" /\ ~torn') =>
       /\ prior.done \ file'.done \subseteq (IF todo = {} THEN {} ELSE {Target})
       /\ \A t \in AllTargets : (todo = {} \/ t # Target) =>
            file'.candidates[t] = prior.candidates[t]]_vars

\* However often it is refused, interrupted or asked for something else first,
\* the search gets to every target no one has dismissed.
EveryTargetSearched ==
  []<>(~torn /\ targets(scope) \subseteq file.done \cup dismissed)
=============================================================================
