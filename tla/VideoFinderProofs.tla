-------------------------- MODULE VideoFinderProofs --------------------------
(***************************************************************************)
(* For any corpus, quota, bounds and answers: no run spends more than its  *)
(* budget or is refused more than it bears; the checkpoint holds one       *)
(* search of each target and loses one to a crash; and a score keeps       *)
(* relevance above reputation.                                             *)
(***************************************************************************)
EXTENDS VideoFinder, FiniteSetTheorems, WellFoundedInduction, TLAPS

-----------------------------------------------------------------------------
\* The inductive invariant.

\* What is on record comes from one search of each target (OneSearchPerTarget).
Told(cp) ==
  \A t \in AllTargets :
    LET o == cp.outcomes[t]  c == cp.candidates[t]  f == cp.floored[t] IN
    /\ c \cap f = {} /\ o.kept = Cardinality(c) /\ Cardinality(c \cup f) <= o.returned
    /\ t \notin cp.done => o = NoOutcome /\ c \cup f = {}
    /\ t \in cp.done => (o.reason = None <=> o.returned = 0 \/ o.kept > 0)

\* The refusals in a row, and at most two searches for each, narrow and wide.
SpendInv ==
  /\ spent <= Budget
  /\ pc \in {"off", "resolve", "save", "writing"} => refused = 0 /\ streak = 0
  /\ pc \in {"loop", "narrow", "wide"} => refused < StopAfter
  /\ pc = "loop" => streak <= 2 * refused
  /\ pc = "narrow" => streak <= 2 * refused + 1
  /\ pc = "wide" => streak <= 2 * refused + 2
  /\ pc \in {"finish", "closing"} => streak <= 2 * StopAfter

\* The checkpoint on disk is the one in memory but while a target is recorded:
\* then they differ in that target, which holds what was found.
FileInv ==
  /\ Told(file) /\ Told(prior)
  /\ pc \in {"narrow", "wide", "save", "writing"} => todo # {}
  /\ pc \in {"resolve", "loop", "narrow", "wide", "save", "finish"} => ~torn
  /\ pc \in {"writing", "closing"} => torn
  /\ pc \in {"resolve", "loop", "narrow", "wide", "finish"} => prior = file
  /\ pc = "save" =>
       /\ prior.done = file.done \cup {Target}
       /\ \A t \in AllTargets \ {Target} : prior.candidates[t] = file.candidates[t]
       /\ prior.candidates[Target] = kept(found, Target, allowed)
       /\ prior.floored[Target] = floored(found, Target, allowed)

IInv == TypeOK /\ SpendInv /\ FileInv

-----------------------------------------------------------------------------
\* What the corpus gives.

\* A set of numbers has a least one.
LEMMA Least ==
  ASSUME NEW S \in SUBSET Nat, S # {}
  PROVE  \E m \in S : \A k \in S : m <= k
<1>1. PICK m \in S : \A k \in S : <<k, m>> \notin OpToRel(<, Nat)
  BY NatLessThanWellFounded, WFMin
<1>2. \A k \in S : ~(k < m)
  BY <1>1 DEF OpToRel
<1>3. QED
  BY <1>2

\* A corpus names finitely many domains.
LEMMA DomainsFinite == IsFiniteSet(Domains)
<1> DEFINE f == [i \in 1..Len(Nodes) |-> Nodes[i].domain]
<1>1. Nodes \in Seq(ToSet(Nodes))
  BY CorpusAssumption
<1>2. IsFiniteSet({n.domain : n \in ToSet(Nodes)})
  <2>1. DOMAIN Nodes = 1..Len(Nodes) /\ Len(Nodes) \in Nat
    BY <1>1
  <2>2. f \in Surjection(1..Len(Nodes), {n.domain : n \in ToSet(Nodes)})
    BY <2>1 DEF Surjection, ToSet
  <2>3. IsFiniteSet(1..Len(Nodes))
    <3>1. 1 \in Int /\ Len(Nodes) \in Int
      BY <2>1
    <3>2. QED
      BY <3>1, FS_Interval
  <2> HIDE DEF f
  <2>4. QED
    BY <2>2, <2>3, FS_Surjection
<1>3. \A D \in {n.domain : n \in ToSet(Nodes)} : IsFiniteSet(D)
  BY CorpusAssumption
<1>4. QED
  BY <1>2, <1>3, FS_UNION DEF Domains

\* Every target has a place in the order of the run, and some target the first.
LEMMA PlaceIsNumber == \A t \in AllTargets : Place[t] \in Nat
<1> DEFINE size(d) == Cardinality(Members(d))
           first(d) == CHOOSE i \in {File(id) : id \in Members(d)} : \A id \in Members(d) : i <= File(id)
           before(a, b) == size(a) > size(b) \/ (size(a) = size(b) /\ first(a) < first(b))
<1>1. SUFFICES ASSUME NEW t \in AllTargets PROVE Place[t] \in Nat
  OBVIOUS
<1>2. Place[t] = IF t \in Ids THEN File(t) ELSE Cardinality({d \in Domains : before(d, t)})
  BY DEF Place
<1>3. ASSUME t \in Ids PROVE File(t) \in Nat
  <2>1. Nodes \in Seq(ToSet(Nodes))
    BY CorpusAssumption
  <2>2. DOMAIN Nodes = 1..Len(Nodes) /\ Len(Nodes) \in Nat
    BY <2>1
  <2>3. \E i \in DOMAIN Nodes : Nodes[i].id = t
    BY <1>3 DEF Ids, ToSet
  <2>4. File(t) \in DOMAIN Nodes
    BY <2>3 DEF File
  <2>5. QED
    BY <2>2, <2>4
<1> HIDE DEF before
<1>4. Cardinality({d \in Domains : before(d, t)}) \in Nat
  <2>1. {d \in Domains : before(d, t)} \subseteq Domains
    OBVIOUS
  <2>2. QED
    BY <2>1, DomainsFinite, FS_Subset, FS_CardinalityType
<1>5. QED
  BY <1>2, <1>3, <1>4

\* The next target is one that is left.
LEMMA TargetIsLeft ==
  ASSUME todo \subseteq AllTargets, todo # {}
  PROVE  Target \in todo
<1>1. {Place[t] : t \in todo} \in SUBSET Nat /\ {Place[t] : t \in todo} # {}
  BY PlaceIsNumber
<1>2. \E t \in todo : \A u \in todo : Place[t] <= Place[u]
  <2>1. PICK m \in {Place[t] : t \in todo} : \A k \in {Place[t] : t \in todo} : m <= k
    BY <1>1, Least
  <2>2. QED
    BY <2>1
<1>3. QED
  BY <1>2 DEF Target

\* The targets of a run are targets.
LEMMA TargetsAre == \A s : targets(s) \subseteq AllTargets
BY DEF targets, AllTargets

-----------------------------------------------------------------------------
\* What a checkpoint holds.

\* An outcome is a record of its fields.
LEMMA OutcomeIs ==
  ASSUME NEW vs \in SUBSET Offered, IsFiniteSet(vs), NEW t, NEW ids, NEW widened \in BOOLEAN
  PROVE  LET o == outcome(vs, t, ids, widened) IN
         /\ o \in Outcomes /\ o.returned = Cardinality(vs) /\ o.kept = Cardinality(kept(vs, t, ids))
         /\ o.reason = None <=> o.returned = 0 \/ o.kept > 0
<1> DEFINE top == CHOOSE v \in vs : \A u \in vs : score(v, t, ids, TRUE) >= score(u, t, ids, TRUE)
           all == reasons(top, t, ids, TRUE)
           fired == IF vs = {} \/ kept(vs, t, ids) # {} THEN {} ELSE all
           reason == IF fired = {} THEN None ELSE rejecting(fired)
<1>1. all \in SUBSET Fired /\ all # {}
  <2> DEFINE v == top
  <2> HIDE DEF v
  <2>1. reasons(v, t, ids, TRUE) \in SUBSET Fired /\ reasons(v, t, ids, TRUE) # {}
    BY DEF reasons, Fired
  <2>2. QED
    BY <2>1 DEF v
<1> HIDE DEF all
<1>2. fired \in SUBSET Fired /\ (fired = {} <=> vs = {} \/ kept(vs, t, ids) # {})
  BY <1>1
<1>3. /\ Cardinality(vs) \in Nat /\ Cardinality(kept(vs, t, ids)) \in Nat
      /\ Cardinality(vs) = 0 <=> vs = {}
      /\ Cardinality(kept(vs, t, ids)) = 0 <=> kept(vs, t, ids) = {}
  <2>1. kept(vs, t, ids) \subseteq vs
    BY DEF kept
  <2>2. IsFiniteSet(kept(vs, t, ids))
    BY <2>1, FS_Subset
  <2>3. QED
    BY <2>2, FS_CardinalityType, FS_EmptySet
<1>4. outcome(vs, t, ids, widened) =
        [returned |-> Cardinality(vs), kept |-> Cardinality(kept(vs, t, ids)), widened |-> widened,
         reasons |-> fired, reason |-> reason]
  BY DEF outcome, all
<1> HIDE DEF fired
<1>5. /\ reason \in {None, "no topic overlap", "too short", "almost unwatched", "just a low score"}
      /\ reason = None <=> fired = {}
  BY DEF rejecting, None
<1> HIDE DEF reason
<1> DEFINE o == outcome(vs, t, ids, widened)
<1> DEFINE some == Cardinality(vs)  stayed == Cardinality(kept(vs, t, ids))
<1> HIDE DEF some, stayed
<1>6. /\ o.returned = some /\ o.kept = stayed /\ o.reason = reason /\ o \in Outcomes
  <2>1. some \in Nat /\ stayed \in Nat
    BY <1>3 DEF some, stayed
  <2>2. o = [returned |-> some, kept |-> stayed, widened |-> widened, reasons |-> fired, reason |-> reason]
    BY <1>4 DEF some, stayed
  <2> HIDE DEF o
  <2>3. o \in Outcomes
    BY <2>1, <2>2, <1>2, <1>5 DEF Outcomes
  <2>4. QED
    BY <2>2, <2>3
<1>7. reason = None <=> some = 0 \/ stayed > 0
  <2>1. reason = None <=> (vs = {} \/ kept(vs, t, ids) # {})
    BY <1>2, <1>5
  <2>2. (some = 0 <=> vs = {}) /\ (stayed > 0 <=> kept(vs, t, ids) # {})
    BY <1>3 DEF some, stayed
  <2>3. QED
    BY <2>1, <2>2
<1>8. QED
  BY <1>6, <1>7 DEF some, stayed

\* An empty checkpoint records nothing of anything.
LEMMA FreshIs == Fresh \in Checkpoints /\ Told(Fresh)
<1>1. NoOutcome \in Outcomes
  BY DEF NoOutcome, Outcomes, None
<1>2. /\ Fresh.done = {} /\ Fresh.candidates = [t \in AllTargets |-> {}]
      /\ Fresh.floored = [t \in AllTargets |-> {}] /\ Fresh.outcomes = [t \in AllTargets |-> NoOutcome]
  BY DEF Fresh
<1>3. Fresh \in Checkpoints
  BY <1>1 DEF Fresh, Checkpoints
<1>4. Told(Fresh)
  <2>1. SUFFICES ASSUME NEW t \in AllTargets
                 PROVE  LET o == Fresh.outcomes[t]  c == Fresh.candidates[t]  f == Fresh.floored[t] IN
                        /\ c \cap f = {} /\ o.kept = Cardinality(c) /\ Cardinality(c \cup f) <= o.returned
                        /\ t \notin Fresh.done => o = NoOutcome /\ c \cup f = {}
                        /\ t \in Fresh.done => (o.reason = None <=> o.returned = 0 \/ o.kept > 0)
    BY DEF Told
  <2>2. Fresh.candidates[t] = {} /\ Fresh.floored[t] = {} /\ Fresh.outcomes[t] = NoOutcome
    BY <1>2
  <2>3. Cardinality({}) = 0
    BY FS_EmptySet
  <2>4. NoOutcome.kept = 0 /\ NoOutcome.returned = 0
    BY DEF NoOutcome
  <2>5. QED
    BY <1>2, <2>2, <2>3, <2>4
<1>5. QED
  BY <1>3, <1>4

\* What can be offered is finite, with or without what the videos call says of it.
LEMMA OfferedIs ==
  ASSUME NEW vs \in Answers
  PROVE  /\ vs \in SUBSET Offered /\ IsFiniteSet(vs)
         /\ Bare(vs) \in SUBSET Offered /\ IsFiniteSet(Bare(vs))
<1> DEFINE f == [v \in vs |-> [v EXCEPT !.length = "unknown", !.views = 0]]
<1>1. IsFiniteSet(vs)
  BY CorpusAssumption
<1>2. f \in Surjection(vs, Bare(vs))
  BY DEF Surjection, Bare
<1> HIDE DEF f
<1>3. IsFiniteSet(Bare(vs))
  BY <1>1, <1>2, FS_Surjection
<1>4. vs \subseteq UNION Answers /\ Bare(vs) \subseteq Bare(UNION Answers)
  BY DEF Bare
<1>5. QED
  BY <1>1, <1>3, <1>4 DEF Offered

\* Recording a target replaces what is on record of it, and of it alone.
LEMMA RecordedIs ==
  ASSUME NEW cp \in Checkpoints, Told(cp), NEW t \in AllTargets,
         NEW vs \in SUBSET Offered, IsFiniteSet(vs), NEW widened \in BOOLEAN
  PROVE  LET r == Recorded(cp, t, vs, widened) IN
         /\ r \in Checkpoints /\ Told(r) /\ r.done = cp.done \cup {t}
         /\ \A u \in AllTargets \ {t} : r.candidates[u] = cp.candidates[u]
         /\ r.candidates[t] = kept(vs, t, allowed) /\ r.floored[t] = floored(vs, t, allowed)
<1> DEFINE o == outcome(vs, t, allowed, widened)  c == kept(vs, t, allowed)  f == floored(vs, t, allowed)
           r == Recorded(cp, t, vs, widened)
<1>1. /\ o \in Outcomes /\ o.returned = Cardinality(vs) /\ o.kept = Cardinality(c)
      /\ o.reason = None <=> o.returned = 0 \/ o.kept > 0
  BY OutcomeIs
<1>2. c \cap f = {} /\ c \in SUBSET vs /\ f \in SUBSET vs
  BY DEF kept, floored
<1>3. Cardinality(c \cup f) <= Cardinality(vs)
  BY <1>2, FS_Subset
<1>4. cp = [done |-> cp.done, candidates |-> cp.candidates, floored |-> cp.floored, outcomes |-> cp.outcomes]
      /\ cp.done \in SUBSET AllTargets /\ cp.candidates \in [AllTargets -> SUBSET Offered]
      /\ cp.floored \in [AllTargets -> SUBSET Offered] /\ cp.outcomes \in [AllTargets -> Outcomes]
  BY DEF Checkpoints
<1>5. r = [cp EXCEPT !.done = @ \cup {t}, !.candidates[t] = c, !.floored[t] = f, !.outcomes[t] = o]
  BY DEF Recorded
<1> HIDE DEF o, c, f, r
<1>6. /\ r = [done |-> cp.done \cup {t}, candidates |-> [cp.candidates EXCEPT ![t] = c],
              floored |-> [cp.floored EXCEPT ![t] = f], outcomes |-> [cp.outcomes EXCEPT ![t] = o]]
  BY <1>4, <1>5
<1>7. /\ r.done = cp.done \cup {t} /\ r.candidates = [cp.candidates EXCEPT ![t] = c]
      /\ r.floored = [cp.floored EXCEPT ![t] = f] /\ r.outcomes = [cp.outcomes EXCEPT ![t] = o]
  BY <1>6
<1>8. r \in Checkpoints
  BY <1>1, <1>2, <1>4, <1>6 DEF Checkpoints
<1>9. /\ r.candidates[t] = c /\ r.floored[t] = f /\ r.outcomes[t] = o
      /\ \A u \in AllTargets \ {t} : /\ r.candidates[u] = cp.candidates[u] /\ r.floored[u] = cp.floored[u]
                                     /\ r.outcomes[u] = cp.outcomes[u]
  BY <1>4, <1>7
<1>10. Told(r)
  <2>1. SUFFICES ASSUME NEW u \in AllTargets
                 PROVE  /\ r.candidates[u] \cap r.floored[u] = {}
                        /\ r.outcomes[u].kept = Cardinality(r.candidates[u])
                        /\ Cardinality(r.candidates[u] \cup r.floored[u]) <= r.outcomes[u].returned
                        /\ u \notin r.done => r.outcomes[u] = NoOutcome /\ r.candidates[u] \cup r.floored[u] = {}
                        /\ u \in r.done => (r.outcomes[u].reason = None
                                              <=> r.outcomes[u].returned = 0 \/ r.outcomes[u].kept > 0)
    BY DEF Told
  <2>2. CASE u = t
    BY <1>1, <1>2, <1>3, <1>7, <1>9, <2>2
  <2>3. CASE u # t
    BY <1>7, <1>9, <2>3 DEF Told
  <2>4. QED
    BY <2>2, <2>3
<1>11. QED
  BY <1>7, <1>8, <1>9, <1>10 DEF c, f, r

-----------------------------------------------------------------------------
\* The invariant is inductive: the types.

\* The lookups of handles are counted, and paid for.
LEMMA LookupsAre ==
  LET n == Min({Cardinality(Handles), Budget \div Channels}) IN n * Channels \in Nat /\ n * Channels <= Budget
<1> DEFINE h == Cardinality(Handles)  q == Budget \div Channels  n == Min({h, q})
<1>1. h \in Nat /\ Budget \in Nat /\ Channels \in Nat \ {0} /\ Budget >= Channels * h
  <2>1. Budget >= Channels * h + Search /\ Search \in Nat /\ Budget \in Nat /\ Channels \in Nat \ {0}
    BY VideoFinderAssumption
  <2>2. h \in Nat
    BY VideoFinderAssumption, FS_CardinalityType
  <2> HIDE DEF h
  <2>3. Channels * h \in Nat
    BY <2>1, <2>2
  <2> DEFINE p == Channels * h
  <2> HIDE DEF p
  <2>4. Budget >= p + Search /\ p \in Nat
    BY <2>1, <2>3 DEF p
  <2>5. Budget >= p
    BY <2>1, <2>4
  <2>6. QED
    BY <2>1, <2>2, <2>5 DEF p
<1> HIDE DEF h
<1>2. q \in Nat /\ q * Channels <= Budget
  BY <1>1
<1> HIDE DEF q
<1>3. n = h \/ n = q
  <2>1. \E x \in {h, q} : \A y \in {h, q} : x <= y
    BY <1>1, <1>2
  <2>2. Min({h, q}) \in {h, q}
    BY <2>1 DEF Min
  <2>3. QED
    BY <2>2
<1>4. h * Channels \in Nat /\ q * Channels \in Nat /\ h * Channels <= Budget
  BY <1>1, <1>2
<1>5. QED
  BY <1>2, <1>3, <1>4 DEF h, q

\* While a target is asked for, recorded or written it is one that is left.
LEMMA InHand ==
  ASSUME TypeOK, todo # {}
  PROVE  Target \in todo /\ Target \in AllTargets /\ Target \in targets(scope)
<1>1. todo \subseteq AllTargets /\ todo \subseteq targets(scope)
  BY TargetsAre DEF TypeOK
<1>2. QED
  BY <1>1, TargetIsLeft

\* A target lost leaves well-typed state.
LEMMA TypeLose ==
  ASSUME TypeOK, NEW transient \in BOOLEAN, NEW units \in Nat, Lose(transient, units)
  PROVE  TypeOK'
<1>1. Attempts \in Nat /\ StopAfter \in Nat
  BY VideoFinderAssumption
<1>2. refused' \in Nat /\ streak' \in Nat /\ spent' \in Nat
  BY DEF Lose, refusals, TypeOK
<1>3. todo' \subseteq todo /\ pc' \in {"finish", "loop"}
  BY DEF Lose
<1>4. attempt' = 0 /\ UNCHANGED <<scope, disk, prior, allowed, found, people, crashes>>
  BY DEF Lose
<1>5. QED
  BY <1>1, <1>2, <1>3, <1>4 DEF TypeOK, disk, people

\* A target recorded leaves well-typed state.
LEMMA TypeRecord ==
  ASSUME TypeOK, Told(prior), todo # {}, NEW vs \in SUBSET Offered, IsFiniteSet(vs), NEW units \in Nat,
         Record(vs, units), UNCHANGED <<scope, disk, people, crashes>>
  PROVE  TypeOK'
<1>1. prior' \in Checkpoints
  <2>1. prior \in Checkpoints /\ (pc = "wide") \in BOOLEAN
    BY DEF TypeOK
  <2>2. Recorded(prior, Target, vs, pc = "wide") \in Checkpoints
    BY <2>1, InHand, RecordedIs
  <2>3. QED
    BY <2>2 DEF Record
<1>2. /\ found' = vs /\ pc' = "save" /\ attempt' = 0 /\ refused' = 0 /\ streak' = 0 /\ spent' \in Nat
      /\ UNCHANGED <<todo, allowed>>
  BY DEF Record, TypeOK
<1>3. Attempts \in Nat
  BY VideoFinderAssumption
<1>4. QED
  BY <1>1, <1>2, <1>3 DEF TypeOK, disk, people

\* An answer that is widened or recorded leaves well-typed state.
LEMMA TypeAnswers ==
  ASSUME TypeOK, Told(prior), todo # {}, NEW vs \in Answers, SearchAnswers(vs)
  PROVE  TypeOK'
<1>1. UNCHANGED <<scope, disk, people, crashes>>
  BY DEF SearchAnswers
<1>2. Search \in Nat /\ Videos \in Nat /\ Attempts \in Nat \ {0}
  BY VideoFinderAssumption
<1>3. CASE shouldWiden(vs)
  <2>1. /\ pc' = "wide" /\ attempt' = 1 /\ spent' = spent + Search /\ streak' = streak + 1
        /\ UNCHANGED <<prior, todo, refused, allowed, found>>
    BY <1>3 DEF SearchAnswers, chargeSearch
  <2>2. QED
    BY <1>1, <1>2, <2>1 DEF TypeOK, disk, people
<1>4. CASE ~shouldWiden(vs)
  <2>1. vs \in SUBSET Offered /\ IsFiniteSet(vs) /\ Bare(vs) \in SUBSET Offered /\ IsFiniteSet(Bare(vs))
    BY OfferedIs
  <2>2. Record(vs, 0) \/ Record(vs, Videos) \/ Record(Bare(vs), 0)
    BY <1>4 DEF SearchAnswers
  <2>3. QED
    BY <1>1, <1>2, <2>1, <2>2, TypeRecord
<1>5. QED
  BY <1>3, <1>4

\* What a person decides is about concepts.
LEMMA TypePeople ==
  ASSUME TypeOK, People
  PROVE  TypeOK'
<1>1. ASSUME NEW e \in Entries, dismiss({e}) PROVE TypeOK'
  <2>1. /\ dismissed' = dismissed \cup {x.target : x \in {e}} /\ \A x \in {e} : x.target \in Ids
        /\ judgments < MaxJudgments /\ judgments' = judgments + 1
        /\ UNCHANGED <<scope, disk, run, covered, crashes>>
    BY <1>1 DEF dismiss, Judge
  <2>2. dismissed' \subseteq Ids
    BY <2>1 DEF TypeOK
  <2>3. judgments' \in 0..MaxJudgments
    BY <2>1, VideoFinderAssumption DEF TypeOK
  <2>4. QED
    BY <2>1, <2>2, <2>3 DEF TypeOK, disk, run
<1>2. ASSUME NEW p \in Picks, verify({p}) PROVE TypeOK'
  <2>1. /\ covered' = covered \cup {x.target : x \in {q \in {p} : Verified(q)}} /\ p.target \in Ids
        /\ judgments < MaxJudgments /\ judgments' = judgments + 1
        /\ UNCHANGED <<scope, disk, run, dismissed, crashes>>
    BY <1>2 DEF verify, Judge, Picks
  <2>2. covered' \subseteq Ids
    BY <2>1 DEF TypeOK
  <2>3. judgments' \in 0..MaxJudgments
    BY <2>1, VideoFinderAssumption DEF TypeOK
  <2>4. QED
    BY <2>1, <2>2, <2>3 DEF TypeOK, disk, run
<1>3. ASSUME Discard PROVE TypeOK'
  <2>1. torn' = FALSE /\ UNCHANGED <<scope, file, run, people, crashes>>
    BY <1>3 DEF Discard
  <2>2. QED
    BY <2>1 DEF TypeOK, run, people
<1>4. QED
  BY <1>1, <1>2, <1>3 DEF People

\* Every step keeps the types.
LEMMA TypeStep ==
  ASSUME IInv, [Next]_vars
  PROVE  TypeOK'
<1> USE DEF disk, run, people
<1>1. TypeOK /\ Told(prior) /\ (Asking => todo # {}) /\ todo \subseteq AllTargets
  BY TargetsAre DEF IInv, FileInv, Asking, TypeOK
<1>2. /\ Channels \in Nat /\ Videos \in Nat /\ Search \in Nat /\ Attempts \in Nat \ {0} /\ MaxCrashes \in Nat
      /\ MaxJudgments \in Nat
  BY VideoFinderAssumption
<1>3. ASSUME NEW redoEmpty \in BOOLEAN, NEW redo \in {{}} \cup {{t} : t \in AllTargets}, Start(redoEmpty, redo)
      PROVE  TypeOK'
  <2>1. /\ prior' = file /\ todo' = pending(file, redoEmpty, redo) /\ pc' = "resolve"
        /\ UNCHANGED <<scope, disk, attempt, spent, refused, allowed, found, streak, dismissed, covered, crashes>>
    BY <1>3 DEF Start
  <2>2. judgments' \in 0..MaxJudgments
    <3>1. \/ judgments' = judgments
          \/ judgments < MaxJudgments /\ judgments' = judgments + 1
      BY <1>3 DEF Start, Judge
    <3>2. QED
      BY <1>1, <1>2, <3>1 DEF TypeOK
  <2>3. todo' \subseteq targets(scope)'
    BY <2>1 DEF pending, targets
  <2>4. QED
    BY <1>1, <2>1, <2>2, <2>3 DEF TypeOK
<1>4. ASSUME ResolveHandles PROVE TypeOK'
  <2> DEFINE n == Min({Cardinality(Handles), Budget \div Channels})
  <2>1. spent' = n * Channels /\ n * Channels \in Nat
    BY <1>4, LookupsAre DEF ResolveHandles
  <2>2. spent' \in Nat
    BY <2>1
  <2>3. /\ allowed' \subseteq Handles /\ pc' = "loop"
        /\ UNCHANGED <<scope, disk, prior, todo, attempt, refused, found, streak, people, crashes>>
    BY <1>4 DEF ResolveHandles
  <2>4. QED
    BY <1>1, <2>2, <2>3 DEF TypeOK
<1>5. ASSUME NextTarget PROVE TypeOK'
  BY <1>1, <1>2, <1>5 DEF NextTarget, chargeSearch, TypeOK
<1>6. ASSUME Retry PROVE TypeOK'
  BY <1>1, <1>2, <1>6 DEF Retry, TypeOK
<1>7. ASSUME SearchFails PROVE TypeOK'
  BY <1>1, <1>7, TypeLose DEF SearchFails
<1>8. ASSUME DetailsFail PROVE TypeOK'
  BY <1>1, <1>2, <1>8, TypeLose DEF DetailsFail
<1>9. ASSUME QuotaExceeded PROVE TypeOK'
  BY <1>1, <1>2, <1>9 DEF QuotaExceeded, TypeOK
<1>10. ASSUME Save PROVE TypeOK'
  BY <1>1, <1>10, FreshIs DEF Save, TypeOK
<1>11. ASSUME Written PROVE TypeOK'
  BY <1>1, <1>11, FS_EmptySet DEF Written, TypeOK
<1>12. ASSUME Close PROVE TypeOK'
  <2>1. /\ prior' = Fresh /\ todo' = {} /\ attempt' = 0 /\ spent' = 0 /\ refused' = 0 /\ allowed' = {}
        /\ found' = {} /\ streak' = 0 /\ pc' = "off"
    BY <1>12 DEF Close, Off
  <2>2. file' \in Checkpoints /\ torn' \in BOOLEAN /\ UNCHANGED <<scope, people, crashes>>
    BY <1>1, <1>12 DEF Close, TypeOK
  <2>3. Fresh \in Checkpoints /\ IsFiniteSet({})
    BY FreshIs, FS_EmptySet
  <2>4. QED
    BY <1>1, <1>2, <2>1, <2>2, <2>3 DEF TypeOK
<1>13. ASSUME NEW vs \in Answers, SearchAnswers(vs) PROVE TypeOK'
  BY <1>1, <1>13, TypeAnswers DEF SearchAnswers
<1>14. ASSUME Crash PROVE TypeOK'
  <2>1. /\ prior' = Fresh /\ todo' = {} /\ attempt' = 0 /\ spent' = 0 /\ refused' = 0 /\ allowed' = {}
        /\ found' = {} /\ streak' = 0 /\ pc' = "off"
    BY <1>14 DEF Crash, Off
  <2>2. crashes < MaxCrashes /\ crashes' = crashes + 1 /\ UNCHANGED <<scope, disk, people>>
    BY <1>14 DEF Crash
  <2>3. Fresh \in Checkpoints /\ IsFiniteSet({})
    BY FreshIs, FS_EmptySet
  <2>4. QED
    BY <1>1, <1>2, <2>1, <2>2, <2>3 DEF TypeOK
<1>15. ASSUME People PROVE TypeOK'
  BY <1>1, <1>15, TypePeople
<1>16. ASSUME UNCHANGED vars PROVE TypeOK'
  BY <1>1, <1>16 DEF vars, TypeOK
<1>17. ASSUME Step PROVE TypeOK'
  BY <1>4, <1>5, <1>6, <1>7, <1>8, <1>9, <1>10, <1>11, <1>12, <1>13, <1>17 DEF Step
<1>18. QED
  BY <1>3, <1>14, <1>15, <1>16, <1>17 DEF Next

-----------------------------------------------------------------------------
\* The invariant is inductive: what is spent.

\* A target that is lost leaves at most two searches for each refusal in a row.
LEMMA SpendLose ==
  ASSUME TypeOK, SpendInv, Asking, NEW transient \in BOOLEAN, NEW units \in Nat, spent + units <= Budget,
         Lose(transient, units)
  PROVE  SpendInv'
<1>1. /\ refused \in Nat /\ streak \in Nat /\ spent \in Nat /\ StopAfter \in Nat \ {0} /\ Budget \in Nat
      /\ refused < StopAfter /\ streak <= 2 * refused + 2
  BY VideoFinderAssumption DEF TypeOK, SpendInv, Asking
<1>2. spent' <= Budget
  BY DEF Lose
<1>3. CASE transient
  <2>1. refused' = refused + 1 /\ streak' = streak
    BY <1>3 DEF Lose, refusals
  <2>2. \/ refused' >= StopAfter /\ pc' = "finish"
        \/ refused' < StopAfter /\ pc' = "loop"
    BY <1>1, <2>1 DEF Lose
  <2>3. streak' <= 2 * refused' /\ refused' <= StopAfter
    BY <1>1, <2>1
  <2>4. streak' <= 2 * StopAfter
    BY <1>1, <2>1
  <2>5. QED
    BY <1>2, <2>2, <2>3, <2>4 DEF SpendInv
<1>4. CASE ~transient
  <2>1. refused' = 0 /\ streak' = 0
    BY <1>4 DEF Lose, refusals
  <2>2. pc' = "loop"
    BY <1>1, <2>1 DEF Lose
  <2>3. QED
    BY <1>1, <1>2, <2>1, <2>2 DEF SpendInv
<1>5. QED
  BY <1>3, <1>4

\* An answer spends what is afforded, and ends a run of refusals.
LEMMA SpendAnswers ==
  ASSUME TypeOK, SpendInv, NEW vs \in Answers, SearchAnswers(vs)
  PROVE  SpendInv'
<1>1. /\ refused \in Nat /\ streak \in Nat /\ spent \in Nat /\ StopAfter \in Nat \ {0} /\ Budget \in Nat
      /\ Search \in Nat /\ Videos \in Nat /\ spent <= Budget
  BY VideoFinderAssumption DEF TypeOK, SpendInv
<1>2. CASE shouldWiden(vs)
  <2>1. /\ pc = "narrow" /\ pc' = "wide" /\ spent' = spent + Search /\ streak' = streak + 1 /\ refused' = refused
    BY <1>2 DEF SearchAnswers, shouldWiden, chargeSearch
  <2>2. spent' <= Budget
    BY <1>2, <2>1 DEF shouldWiden, affords
  <2>3. refused' < StopAfter /\ streak' <= 2 * refused' + 2
    <3>1. refused < StopAfter /\ streak <= 2 * refused + 1
      BY <2>1 DEF SpendInv
    <3>2. QED
      BY <1>1, <2>1, <3>1
  <2>4. QED
    BY <2>1, <2>2, <2>3 DEF SpendInv
<1>3. CASE ~shouldWiden(vs)
  <2>1. /\ pc' = "save" /\ refused' = 0 /\ streak' = 0
        /\ \/ spent' = spent + 0
           \/ affords(Videos) /\ spent' = spent + Videos
    BY <1>3 DEF SearchAnswers, Record
  <2>2. spent' <= Budget
    BY <1>1, <2>1 DEF affords
  <2>3. QED
    BY <1>1, <2>1, <2>2 DEF SpendInv
<1>4. QED
  BY <1>2, <1>3

\* Every step keeps what is spent within bounds.
LEMMA SpendStep ==
  ASSUME IInv, [Next]_vars
  PROVE  SpendInv'
<1>1. TypeOK /\ SpendInv
  BY DEF IInv
<1>2. /\ refused \in Nat /\ streak \in Nat /\ spent \in Nat /\ StopAfter \in Nat \ {0} /\ Budget \in Nat
      /\ Search \in Nat /\ Videos \in Nat /\ spent <= Budget
  BY VideoFinderAssumption DEF IInv, TypeOK, SpendInv
<1>3. ASSUME NEW redoEmpty \in BOOLEAN, NEW redo \in {{}} \cup {{t} : t \in AllTargets}, Start(redoEmpty, redo)
      PROVE  SpendInv'
  <2>1. pc = "off" /\ pc' = "resolve" /\ UNCHANGED <<spent, refused, streak>>
    BY <1>3 DEF Start
  <2>2. QED
    BY <1>1, <2>1 DEF SpendInv
<1>4. ASSUME ResolveHandles PROVE SpendInv'
  <2> DEFINE n == Min({Cardinality(Handles), Budget \div Channels})
  <2>1. spent' = n * Channels /\ n * Channels <= Budget
    BY <1>4, LookupsAre DEF ResolveHandles
  <2>2. spent' <= Budget
    BY <2>1
  <2>3. pc = "resolve" /\ pc' = "loop" /\ UNCHANGED <<refused, streak>>
    BY <1>4 DEF ResolveHandles
  <2> HIDE DEF n
  <2>4. refused' = 0 /\ streak' = 0
    BY <1>1, <2>3 DEF SpendInv
  <2>5. QED
    BY <1>2, <2>2, <2>3, <2>4 DEF SpendInv
<1>5. ASSUME NextTarget PROVE SpendInv'
  <2>1. refused' = refused /\ refused < StopAfter /\ streak <= 2 * refused /\ pc = "loop"
    BY <1>1, <1>5 DEF NextTarget, SpendInv
  <2>2. CASE pc' = "narrow" /\ chargeSearch /\ affords(Search)
    BY <1>2, <2>1, <2>2 DEF chargeSearch, affords, SpendInv
  <2>3. CASE pc' = "finish" /\ UNCHANGED <<spent, streak>>
    BY <1>2, <2>1, <2>3 DEF SpendInv
  <2>4. QED
    BY <1>5, <2>2, <2>3 DEF NextTarget
<1>6. ASSUME Retry PROVE SpendInv'
  BY <1>1, <1>6 DEF Retry, SpendInv
<1>7. ASSUME SearchFails PROVE SpendInv'
  BY <1>1, <1>2, <1>7, SpendLose DEF SearchFails
<1>8. ASSUME DetailsFail PROVE SpendInv'
  BY <1>1, <1>2, <1>8, SpendLose DEF DetailsFail, affords
<1>9. ASSUME QuotaExceeded PROVE SpendInv'
  <2>1. pc' = "finish" /\ UNCHANGED <<refused, streak>> /\ pc \in {"narrow", "wide"}
    BY <1>9 DEF QuotaExceeded, Asking
  <2>2. spent' = spent \/ (affords(Videos) /\ spent' = spent + Videos)
    BY <1>9 DEF QuotaExceeded
  <2>3. streak <= 2 * StopAfter
    BY <1>1, <1>2, <2>1 DEF SpendInv
  <2>4. spent' <= Budget
    BY <1>2, <2>2 DEF affords
  <2>5. QED
    BY <2>1, <2>3, <2>4 DEF SpendInv
<1>10. ASSUME Save PROVE SpendInv'
  BY <1>1, <1>10 DEF Save, SpendInv
<1>11. ASSUME Written PROVE SpendInv'
  BY <1>1, <1>2, <1>11 DEF Written, SpendInv
<1>12. ASSUME Close \/ Crash PROVE SpendInv'
  <2>1. pc' = "off" /\ spent' = 0 /\ refused' = 0 /\ streak' = 0
    BY <1>12 DEF Close, Crash, Off
  <2>2. QED
    BY <1>2, <2>1 DEF SpendInv
<1>13. ASSUME NEW vs \in Answers, SearchAnswers(vs) PROVE SpendInv'
  BY <1>1, <1>13, SpendAnswers
<1>14. ASSUME People \/ UNCHANGED vars PROVE SpendInv'
  <2>1. UNCHANGED run
    BY <1>14 DEF People, dismiss, verify, Discard, vars
  <2>2. QED
    BY <1>1, <2>1 DEF run, SpendInv
<1>15. ASSUME Step PROVE SpendInv'
  BY <1>4, <1>5, <1>6, <1>7, <1>8, <1>9, <1>10, <1>11, <1>12, <1>13, <1>15 DEF Step
<1>16. QED
  BY <1>3, <1>12, <1>14, <1>15 DEF Next

-----------------------------------------------------------------------------
\* The invariant is inductive: what is on record.

\* A target that is lost leaves every record alone.
LEMMA FileLose ==
  ASSUME FileInv, Asking, NEW transient \in BOOLEAN, NEW units \in Nat, Lose(transient, units)
  PROVE  FileInv'
<1>1. pc' \in {"finish", "loop"} /\ UNCHANGED <<file, torn, prior>>
  BY DEF Lose, disk
<1>2. Told(file) /\ Told(prior) /\ ~torn /\ prior = file
  BY DEF FileInv, Asking
<1>3. QED
  BY <1>1, <1>2 DEF FileInv, Told

\* Recording a target changes the checkpoint in memory in that target.
LEMMA FileRecord ==
  ASSUME TypeOK, FileInv, Asking, NEW vs \in SUBSET Offered, IsFiniteSet(vs), NEW units \in Nat,
         Record(vs, units), UNCHANGED <<scope, disk, people, crashes>>
  PROVE  FileInv'
<1>1. Told(file) /\ Told(prior) /\ ~torn /\ prior = file /\ todo # {} /\ prior \in Checkpoints
  BY DEF FileInv, Asking, TypeOK
<1>2. Target \in AllTargets /\ (pc = "wide") \in BOOLEAN
  BY <1>1, InHand
<1>3. /\ pc' = "save" /\ found' = vs /\ prior' = Recorded(prior, Target, vs, pc = "wide")
      /\ UNCHANGED <<todo, allowed, file, torn>>
  BY DEF Record, disk
<1>4. Target' = Target
  BY <1>3 DEF Target
<1>5. /\ Told(prior') /\ prior'.done = prior.done \cup {Target}
      /\ \A u \in AllTargets \ {Target} : prior'.candidates[u] = prior.candidates[u]
      /\ prior'.candidates[Target] = kept(vs, Target, allowed)
      /\ prior'.floored[Target] = floored(vs, Target, allowed)
  <2> DEFINE w == pc = "wide"  r == Recorded(prior, Target, vs, w)
  <2>1. prior' = r
    BY <1>3
  <2>2. w \in BOOLEAN
    OBVIOUS
  <2> HIDE DEF w
  <2>3. /\ Told(r) /\ r.done = prior.done \cup {Target}
        /\ \A u \in AllTargets \ {Target} : r.candidates[u] = prior.candidates[u]
        /\ r.candidates[Target] = kept(vs, Target, allowed)
        /\ r.floored[Target] = floored(vs, Target, allowed)
    BY <1>1, <1>2, <2>2, RecordedIs
  <2> HIDE DEF r
  <2>4. QED
    BY <2>1, <2>3
<1>6. Told(file)'
  BY <1>1, <1>3 DEF Told
<1>7. Told(prior)'
  BY <1>5 DEF Told
<1>8. todo' # {} /\ ~torn'
  BY <1>1, <1>3
<1>9. /\ prior'.done = file'.done \cup {Target'}
      /\ \A t \in AllTargets \ {Target'} : prior'.candidates[t] = file'.candidates[t]
      /\ prior'.candidates[Target'] = kept(found', Target', allowed')
      /\ prior'.floored[Target'] = floored(found', Target', allowed')
  BY <1>1, <1>3, <1>4, <1>5
<1>10. QED
  BY <1>3, <1>6, <1>7, <1>8, <1>9 DEF FileInv

\* An answer is recorded in memory, or asked for more widely.
LEMMA FileAnswers ==
  ASSUME TypeOK, FileInv, NEW vs \in Answers, SearchAnswers(vs)
  PROVE  FileInv'
<1>1. Asking /\ UNCHANGED <<scope, disk, people, crashes>>
  BY DEF SearchAnswers
<1>2. CASE shouldWiden(vs)
  <2>1. pc' = "wide" /\ UNCHANGED <<file, torn, prior, todo>>
    BY <1>1, <1>2 DEF SearchAnswers, disk
  <2>2. Told(file) /\ Told(prior) /\ ~torn /\ prior = file /\ todo # {}
    BY <1>1 DEF FileInv, Asking
  <2>3. QED
    BY <2>1, <2>2 DEF FileInv, Told
<1>3. CASE ~shouldWiden(vs)
  <2>1. vs \in SUBSET Offered /\ IsFiniteSet(vs) /\ Bare(vs) \in SUBSET Offered /\ IsFiniteSet(Bare(vs))
    BY OfferedIs
  <2>2. Record(vs, 0) \/ Record(vs, Videos) \/ Record(Bare(vs), 0)
    BY <1>3 DEF SearchAnswers
  <2>3. Videos \in Nat
    BY VideoFinderAssumption
  <2>4. QED
    BY <1>1, <2>1, <2>2, <2>3, FileRecord
<1>4. QED
  BY <1>2, <1>3

\* Every step keeps the checkpoints in agreement.
LEMMA FileStep ==
  ASSUME IInv, [Next]_vars
  PROVE  FileInv'
<1>1. TypeOK /\ FileInv /\ Told(file) /\ Told(prior)
  BY DEF IInv, FileInv
<1>2. Told(Fresh)
  BY FreshIs
<1>3. ASSUME NEW redoEmpty \in BOOLEAN, NEW redo \in {{}} \cup {{t} : t \in AllTargets}, Start(redoEmpty, redo)
      PROVE  FileInv'
  <2>1. pc' = "resolve" /\ prior' = file /\ file' = file /\ ~torn /\ torn' = torn
    BY <1>3 DEF Start, disk
  <2>2. QED
    BY <1>1, <2>1 DEF FileInv, Told
<1>4. ASSUME ResolveHandles \/ NextTarget \/ Retry \/ QuotaExceeded PROVE FileInv'
  <2>1. UNCHANGED <<file, torn, prior, todo>> /\ pc \in {"resolve", "loop", "narrow", "wide"}
    BY <1>4 DEF ResolveHandles, NextTarget, Retry, QuotaExceeded, Asking, disk
  <2>2. /\ pc' \in {"loop", "narrow", "wide", "finish"}
        /\ pc' \in {"narrow", "wide"} => todo # {}
    BY <1>1, <1>4 DEF ResolveHandles, NextTarget, Retry, QuotaExceeded, Asking, FileInv
  <2>3. ~torn /\ prior = file
    BY <1>1, <2>1 DEF FileInv
  <2>4. QED
    BY <1>1, <2>1, <2>2, <2>3 DEF FileInv, Told
<1>5. ASSUME SearchFails \/ DetailsFail PROVE FileInv'
  <2>1. Asking /\ \E transient \in BOOLEAN, units \in Nat : Lose(transient, units)
    BY <1>5, VideoFinderAssumption DEF SearchFails, DetailsFail
  <2>2. QED
    BY <1>1, <2>1, FileLose
<1>6. ASSUME Save PROVE FileInv'
  <2>1. /\ file' = Fresh /\ prior' = prior /\ torn' /\ todo' = todo
        /\ \/ pc = "save" /\ pc' = "writing"
           \/ pc' = "closing"
    BY <1>6 DEF Save
  <2>2. pc' = "writing" => todo' # {}
    BY <1>1, <2>1 DEF FileInv
  <2>3. Told(file)' /\ Told(prior)'
    BY <1>1, <1>2, <2>1 DEF Told
  <2>4. QED
    BY <2>1, <2>2, <2>3 DEF FileInv
<1>7. ASSUME Written PROVE FileInv'
  <2>1. file' = prior /\ prior' = prior /\ ~torn' /\ pc' = "loop"
    BY <1>7 DEF Written
  <2>2. Told(file)' /\ Told(prior)'
    BY <1>1, <2>1 DEF Told
  <2>3. QED
    BY <2>1, <2>2 DEF FileInv
<1>8. ASSUME Close \/ Crash PROVE FileInv'
  <2>1. /\ prior' = Fresh /\ pc' = "off"
        /\ \/ file' = file
           \/ file' = prior
    BY <1>8 DEF Close, Crash, Off, disk
  <2>2. Told(prior)'
    BY <1>2, <2>1 DEF Told
  <2>3. Told(file)'
    <3>1. CASE file' = file
      BY <1>1, <3>1 DEF Told
    <3>2. CASE file' = prior
      BY <1>1, <3>2 DEF Told
    <3>3. QED
      BY <2>1, <3>1, <3>2
  <2>4. QED
    BY <2>1, <2>2, <2>3 DEF FileInv
<1>9. ASSUME NEW vs \in Answers, SearchAnswers(vs) PROVE FileInv'
  BY <1>1, <1>9, FileAnswers
<1>10. ASSUME People PROVE FileInv'
  <2>1. UNCHANGED <<file, prior, pc>> /\ pc = "off"
    BY <1>10 DEF People, dismiss, verify, Discard, Judge, run, disk
  <2>2. QED
    BY <1>1, <2>1 DEF FileInv, Told
<1>11. ASSUME UNCHANGED vars PROVE FileInv'
  <2>1. UNCHANGED <<file, torn, prior, todo, pc, found, allowed>>
    BY <1>11 DEF vars, disk, run
  <2>2. Target' = Target
    BY <2>1 DEF Target
  <2>3. Told(file)' /\ Told(prior)'
    BY <1>1, <2>1 DEF Told
  <2>4. QED
    BY <1>1, <2>1, <2>2, <2>3 DEF FileInv
<1>12. ASSUME Step PROVE FileInv'
  BY <1>4, <1>5, <1>6, <1>7, <1>8, <1>9, <1>12 DEF Step
<1>13. QED
  BY <1>3, <1>8, <1>10, <1>11, <1>12 DEF Next

-----------------------------------------------------------------------------
\* The theorems.

\* The invariant of the finder: its types, what a run spends, and how the
\* checkpoint in memory and the one on disk are related.
THEOREM Invariance == Spec => []IInv
<1>1. Init => IInv
  <2> SUFFICES ASSUME Init PROVE IInv
    OBVIOUS
  <2>1. Fresh \in Checkpoints /\ Told(Fresh) /\ IsFiniteSet({})
    BY FreshIs, FS_EmptySet
  <2>2. Attempts \in Nat /\ MaxJudgments \in Nat /\ MaxCrashes \in Nat /\ Budget \in Nat
    BY VideoFinderAssumption
  <2>3. TypeOK
    <3>1. torn \in BOOLEAN /\ file \in Checkpoints /\ prior \in Checkpoints
      BY <2>1 DEF Init
    <3>2. QED
      BY <2>1, <2>2, <3>1 DEF Init, TypeOK
  <2>4. SpendInv
    BY <2>2 DEF Init, SpendInv
  <2>5. FileInv
    BY <2>1 DEF Init, FileInv
  <2>6. QED
    BY <2>3, <2>4, <2>5 DEF IInv
<1>2. IInv /\ [Next]_vars => IInv'
  BY TypeStep, SpendStep, FileStep DEF IInv
<1>3. QED
  BY <1>1, <1>2, PTL DEF Spec

\* Every reachable state is well typed.
THEOREM TypeCorrect == Spec => []TypeOK
<1>1. IInv => TypeOK
  BY DEF IInv
<1>2. QED
  BY <1>1, Invariance, PTL

\* No run spends more than its budget, whatever is refused or retried, and being
\* refused everywhere costs at most two searches for each target it bears with.
THEOREM SpendingIsBounded == Spec => []SpendingBounded
<1>1. IInv => SpendingBounded
  <2> SUFFICES ASSUME IInv PROVE SpendingBounded
    OBVIOUS
  <2>1. /\ refused \in Nat /\ streak \in Nat /\ StopAfter \in Nat \ {0}
        /\ pc \in {"off", "resolve", "loop", "narrow", "wide", "save", "writing", "finish", "closing"}
    BY VideoFinderAssumption DEF IInv, TypeOK
  <2>2. CASE pc \in {"off", "resolve", "save", "writing"}
    BY <2>1, <2>2 DEF IInv, SpendInv, SpendingBounded
  <2>3. CASE pc \in {"loop", "narrow", "wide"}
    <3>1. refused < StopAfter /\ streak <= 2 * refused + 2
      BY <2>1, <2>3 DEF IInv, SpendInv
    <3>2. streak <= 2 * StopAfter
      BY <2>1, <3>1
    <3>3. QED
      BY <3>2 DEF IInv, SpendInv, SpendingBounded
  <2>4. CASE pc \in {"finish", "closing"}
    BY <2>4 DEF IInv, SpendInv, SpendingBounded
  <2>5. QED
    BY <2>1, <2>2, <2>3, <2>4
<1>2. QED
  BY <1>1, Invariance, PTL

\* What is on disk about a target comes from one search of it: kept and floored
\* apart and counted as they are, with nothing of a target never finished.
THEOREM OneSearch == Spec => []OneSearchPerTarget
<1>1. IInv => OneSearchPerTarget
  BY DEF IInv, FileInv, Told, OneSearchPerTarget
<1>2. QED
  BY <1>1, Invariance, PTL

\* A crash that does not tear the checkpoint loses the target in hand at most.
THEOREM CrashIsCheap == Spec => CrashCostsOne
<1>1. ASSUME IInv, [Next]_vars, pc # "off", pc' = "off", ~torn'
      PROVE  /\ prior.done \ file'.done \subseteq (IF todo = {} THEN {} ELSE {Target})
             /\ \A t \in AllTargets : (todo = {} \/ t # Target) => file'.candidates[t] = prior.candidates[t]
  <2>1. Close \/ Crash
    <3>1. ~(\E redoEmpty \in BOOLEAN, redo \in {{}} \cup {{t} : t \in AllTargets} : Start(redoEmpty, redo))
      BY <1>1 DEF Start
    <3>2. ~People
      BY <1>1 DEF People, dismiss, verify, Discard, Judge
    <3>3. pc' # pc
      BY <1>1
    <3>4. ~UNCHANGED vars
      BY <3>3 DEF vars, run
    <3>5. Step => Close
      <4>1. ~ResolveHandles /\ ~NextTarget /\ ~Retry /\ ~QuotaExceeded /\ ~Save /\ ~Written
        BY <1>1, <3>3 DEF ResolveHandles, NextTarget, Retry, QuotaExceeded, Save, Written
      <4>2. ~SearchFails /\ ~DetailsFail
        BY <1>1 DEF SearchFails, DetailsFail, Lose
      <4>3. ~(\E vs \in Answers : SearchAnswers(vs))
        BY <1>1 DEF SearchAnswers, Record
      <4>4. QED
        BY <4>1, <4>2, <4>3 DEF Step
    <3>6. QED
      BY <1>1, <3>1, <3>2, <3>4, <3>5 DEF Next
  <2>2. CASE Close
    <3>1. file' = prior
      BY <2>2 DEF Close
    <3>2. QED
      BY <3>1
  <2>3. CASE Crash
    <3>1. file' = file /\ torn' = torn
      BY <2>3 DEF Crash, disk
    <3>2. pc \in {"resolve", "loop", "narrow", "wide", "save", "finish"}
      BY <1>1, <3>1 DEF IInv, FileInv, TypeOK
    <3>3. CASE pc = "save"
      <4>1. /\ prior.done = file.done \cup {Target} /\ todo # {}
            /\ \A t \in AllTargets \ {Target} : prior.candidates[t] = file.candidates[t]
        BY <1>1, <3>3 DEF IInv, FileInv
      <4>2. QED
        BY <3>1, <4>1
    <3>4. CASE pc # "save"
      <4>1. prior = file
        BY <1>1, <3>2, <3>4 DEF IInv, FileInv
      <4>2. QED
        BY <3>1, <4>1
    <3>5. QED
      BY <3>3, <3>4
  <2>4. QED
    BY <2>1, <2>2, <2>3
<1>2. QED
  BY <1>1, Invariance, PTL DEF Spec, CrashCostsOne

-----------------------------------------------------------------------------
\* What a score is made of.

Part(k, n) == (1000 * k) \div n

\* A fraction in thousandths is one of a thousand, and two at least when it is
\* not nothing of so few words.
LEMMA Thousandths ==
  ASSUME NEW n \in 1..500, NEW k \in 0..n
  PROVE  Part(k, n) \in 0..1000 /\ (Part(k, n) # 0 => Part(k, n) >= 2)
<1> DEFINE q == (1000 * k) \div n
<1>1. q \in Int /\ n * q <= 1000 * k /\ 1000 * k < n * q + n
  OBVIOUS
<1> HIDE DEF q
<1>2. q >= 0
  <2>1. SUFFICES ASSUME q <= -1 PROVE FALSE
    BY <1>1
  <2>2. n * q <= -n
    BY <1>1, <2>1
  <2>3. QED
    BY <1>1, <2>2
<1>3. q <= 1000
  <2>1. SUFFICES ASSUME q >= 1001 PROVE FALSE
    BY <1>1
  <2>2. n * q >= n * 1001
    BY <1>1, <2>1
  <2>3. QED
    BY <1>1, <2>2
<1>4. q = 1 => FALSE
  <2>1. SUFFICES ASSUME q = 1 PROVE FALSE
    OBVIOUS
  <2>2. n <= 1000 * k /\ 1000 * k < n + n
    BY <1>1, <2>1
  <2>3. QED
    BY <2>2
<1>5. q \in 0..1000 /\ (q # 0 => q >= 2)
  BY <1>1, <1>2, <1>3, <1>4
<1>6. QED
  BY <1>5 DEF q, Part

\* A facet of a target is the words of some target.
LEMMA FacetsAre ==
  ASSUME NEW t \in AllTargets
  PROVE  facets(t) # {} /\ \A f \in facets(t) : \E u \in AllTargets : f = Words[u]
<1>1. sample(t) \subseteq AllTargets
  BY DEF sample, neighbourTitles, Central, Members, AllTargets
<1>2. QED
  BY <1>1 DEF facets

\* The share of a title that a video says.
LEMMA ShareIs ==
  ASSUME NEW v, NEW t \in AllTargets
  PROVE  Share(v, t) \in 0..1000 /\ (Share(v, t) # 0 => Share(v, t) >= 2)
<1> DEFINE part(f) == (1000 * Cardinality(f \cap v.title)) \div Cardinality(f)
           S == {part(f) : f \in facets(t)}
<1>1. \A f \in facets(t) : part(f) \in 0..1000 /\ (part(f) # 0 => part(f) >= 2)
  <2>1. SUFFICES ASSUME NEW f \in facets(t) PROVE part(f) \in 0..1000 /\ (part(f) # 0 => part(f) >= 2)
    OBVIOUS
  <2>2. IsFiniteSet(f) /\ Cardinality(f) \in 1..500
    <3>1. PICK u \in AllTargets : f = Words[u]
      BY FacetsAre
    <3>2. IsFiniteSet(Words[u]) /\ Cardinality(Words[u]) \in 1..500
      BY CorpusAssumption
    <3>3. QED
      BY <3>1, <3>2
  <2>3. Cardinality(f \cap v.title) \in 0..Cardinality(f)
    <3>1. IsFiniteSet(f \cap v.title) /\ Cardinality(f \cap v.title) <= Cardinality(f)
      BY <2>2, FS_Subset
    <3>2. Cardinality(f \cap v.title) \in Nat
      BY <3>1, FS_CardinalityType
    <3>3. QED
      BY <2>2, <3>1, <3>2
  <2> DEFINE n == Cardinality(f)  k == Cardinality(f \cap v.title)
  <2>4. part(f) = Part(k, n)
    BY DEF Part
  <2>5. n \in 1..500 /\ k \in 0..n
    BY <2>2, <2>3
  <2> HIDE DEF n, k, part
  <2>6. Part(k, n) \in 0..1000 /\ (Part(k, n) # 0 => Part(k, n) >= 2)
    BY <2>5, Thousandths
  <2>7. QED
    BY <2>4, <2>6
<1> HIDE DEF part
<1>2. S # {} /\ \A x \in S : x \in 0..1000 /\ (x # 0 => x >= 2)
  BY <1>1, FacetsAre
<1> HIDE DEF S
<1>3. \E x \in S : \A y \in S : x >= y
  <2> DEFINE D == {1000 - x : x \in S}
  <2>1. D \in SUBSET Nat /\ D # {}
    BY <1>2
  <2>2. PICK m \in D : \A k \in D : m <= k
    <3> HIDE DEF D
    <3>1. QED
      BY <2>1, Least
  <2>3. PICK x \in S : m = 1000 - x
    BY <2>2
  <2>4. ASSUME NEW y \in S PROVE x >= y
    <3>1. 1000 - y \in D
      OBVIOUS
    <3>2. m <= 1000 - y
      BY <2>2, <3>1
    <3>3. x \in 0..1000 /\ y \in 0..1000
      BY <1>2
    <3>4. QED
      BY <2>3, <3>2, <3>3
  <2>5. QED
    BY <2>4
<1>4. Max(S) \in S
  BY <1>3 DEF Max
<1>5. Share(v, t) = Max(S)
  BY DEF Share, S, part
<1>6. QED
  BY <1>2, <1>4, <1>5

\* Relevance follows the share, and outweighs reputation and views together.
LEMMA RelevanceIs ==
  ASSUME NEW v, NEW t \in AllTargets
  PROVE  /\ Relevance(v, t) \in 0..600 /\ (Relevance(v, t) > 0 <=> Share(v, t) > 0)
         /\ Share(v, t) = 1000 => Relevance(v, t) = 600
         /\ Share(v, t) <= 500 => Relevance(v, t) <= 300
<1> DEFINE s == Share(v, t)
<1>1. s \in 0..1000 /\ (s # 0 => s >= 2)
  BY ShareIs
<1>2. Relevance(v, t) = (600 * s) \div 1000
  BY DEF Relevance, WEIGHTS
<1> HIDE DEF s
<1>3. QED
  BY <1>1, <1>2 DEF s

\* The other terms of a score.
LEMMA TermsAre ==
  ASSUME NEW v, NEW ids
  PROVE  /\ Reputation(v, ids) \in 0..200 /\ Popularity(v) \in 0..100 /\ Length(v) \in -150..150
<1>1. Reputation(v, ids) \in 0..200
  BY DEF Reputation, WEIGHTS
<1>2. Length(v) \in -150..150
  BY DEF Length, WEIGHTS
<1>3. Popularity(v) \in 0..100
  <2> DEFINE K == {k \in 0..9 : v.views \div 10 >= 10^k}  c == Cardinality(K)
  <2>1. c \in 0..10
    <3>1. IsFiniteSet(0..9) /\ Cardinality(0..9) = 10
      <4>1. 0 \in Int /\ 9 \in Int
        OBVIOUS
      <4>2. IsFiniteSet(0..9) /\ Cardinality(0..9) = IF 0 > 9 THEN 0 ELSE 9 - 0 + 1
        BY <4>1, FS_Interval
      <4>3. QED
        BY <4>2
    <3>2. K \subseteq 0..9
      OBVIOUS
    <3> HIDE DEF K
    <3>3. IsFiniteSet(K) /\ Cardinality(K) <= 10
      BY <3>1, <3>2, FS_Subset
    <3>4. QED
      BY <3>3, FS_CardinalityType
  <2>2. Popularity(v) = Min({100, 10 * c})
    BY DEF Popularity, WEIGHTS
  <2> HIDE DEF c
  <2>3. Min({100, 10 * c}) = 10 * c
    <3>1. \A x \in {100, 10 * c} : (\A y \in {100, 10 * c} : x <= y) => x = 10 * c
      BY <2>1
    <3>2. 10 * c \in {100, 10 * c} /\ \A y \in {100, 10 * c} : 10 * c <= y
      BY <2>1
    <3>3. QED
      BY <3>1, <3>2 DEF Min
  <2>4. QED
    BY <2>1, <2>2, <2>3
<1>4. QED
  BY <1>1, <1>2, <1>3

\* A score is held between nothing and a thousand.
LEMMA ClampIs ==
  ASSUME NEW n \in Int
  PROVE  Clamp(n) = IF n < 0 THEN 0 ELSE IF n > 1000 THEN 1000 ELSE n
<1> DEFINE low == IF n < 1000 THEN n ELSE 1000  high == IF low > 0 THEN low ELSE 0
<1>1. Min({1000, n}) = low
  <2>1. low \in {1000, n} /\ \A y \in {1000, n} : low <= y
    OBVIOUS
  <2>2. \A x \in {1000, n} : (\A y \in {1000, n} : x <= y) => x = low
    OBVIOUS
  <2> HIDE DEF low
  <2>3. QED
    BY <2>1, <2>2 DEF Min
<1>2. Max({0, low}) = high
  <2>1. low \in Int
    OBVIOUS
  <2> HIDE DEF low
  <2>2. high \in {0, low} /\ \A y \in {0, low} : high >= y
    BY <2>1
  <2>3. \A x \in {0, low} : (\A y \in {0, low} : x >= y) => x = high
    BY <2>1
  <2> HIDE DEF high
  <2>4. QED
    BY <2>2, <2>3 DEF Max
<1>3. Clamp(n) = high
  BY <1>1, <1>2 DEF Clamp
<1>4. QED
  BY <1>3

\* The score with the floor, and without.
Scored(v, t, ids) == score(v, t, ids, TRUE)
Unfloored(v, t, ids) == score(v, t, ids, FALSE)

\* What a video scores, from its terms.
LEMMA ScoreIs ==
  ASSUME NEW v, NEW t \in AllTargets, NEW ids
  PROVE  /\ Unclamped(v, t, ids) = Reputation(v, ids) + Relevance(v, t) + Length(v) + Popularity(v)
         /\ Unclamped(v, t, ids) \in Int
         /\ Relevance(v, t) = 0 => Scored(v, t, ids) = 0 /\ Unfloored(v, t, ids) = 0
         /\ Relevance(v, t) # 0 => Unfloored(v, t, ids) = Clamp(Unclamped(v, t, ids))
         /\ Relevance(v, t) # 0 /\ ~Floors(v, ids) => Scored(v, t, ids) = Clamp(Unclamped(v, t, ids))
         /\ Relevance(v, t) # 0 /\ Floors(v, ids) =>
              Scored(v, t, ids) = Clamp(Unclamped(v, t, ids) - 450)
<1>1. /\ Reputation(v, ids) \in Int /\ Relevance(v, t) \in Int /\ Length(v) \in Int /\ Popularity(v) \in Int
  BY RelevanceIs, TermsAre
<1>2. Unclamped(v, t, ids) = Reputation(v, ids) + Relevance(v, t) + Length(v) + Popularity(v)
  BY DEF Unclamped
<1>3. Unclamped(v, t, ids) \in Int
  BY <1>1, <1>2
<1>4. Unclamped(v, t, ids) - 0 = Unclamped(v, t, ids)
  BY <1>3
<1>5. QED
  BY <1>2, <1>3, <1>4 DEF score, WEIGHTS, Scored, Unfloored

\* Of two videos of a length, the whole match beats the half match, or ties with
\* one whose views reach the cap.
LEMMA WholeBeatsHalf ==
  ASSUME NEW a, NEW b, NEW t \in AllTargets, NEW ids, Share(a, t) = 1000, Share(b, t) <= 500,
         a.length = b.length, ~Floors(a, ids)
  PROVE  /\ Scored(a, t, ids) >= Scored(b, t, ids)
         /\ Popularity(b) < 100 => Scored(a, t, ids) > Scored(b, t, ids)
<1> DEFINE ua == Unclamped(a, t, ids)  ub == Unclamped(b, t, ids)
<1>1. /\ Reputation(a, ids) \in 0..200 /\ Popularity(a) \in 0..100 /\ Length(a) \in -150..150
      /\ Reputation(b, ids) \in 0..200 /\ Popularity(b) \in 0..100 /\ Length(b) = Length(a)
  BY TermsAre DEF Length
<1>2. Relevance(a, t) = 600 /\ Relevance(b, t) \in 0..300
  BY RelevanceIs
<1>3. /\ ua = Reputation(a, ids) + Relevance(a, t) + Length(a) + Popularity(a)
      /\ ub = Reputation(b, ids) + Relevance(b, t) + Length(b) + Popularity(b)
      /\ ua \in Int /\ ub \in Int
  BY ScoreIs
<1> HIDE DEF ua, ub
<1>4. ua >= ub /\ (Popularity(b) < 100 => ua > ub) /\ ua > 0 /\ ub < 1000
  <2> DEFINE ra == Reputation(a, ids)  pa == Popularity(a)  la == Length(a)
             rb == Reputation(b, ids)  pb == Popularity(b)  qb == Relevance(b, t)
  <2>1. /\ ra \in 0..200 /\ pa \in 0..100 /\ la \in -150..150 /\ rb \in 0..200 /\ pb \in 0..100 /\ qb \in 0..300
        /\ ua = ra + 600 + la + pa
        /\ ub = rb + qb + la + pb
    BY <1>1, <1>2, <1>3
  <2> HIDE DEF ra, pa, la, rb, pb, qb
  <2>2. ua >= ub /\ (pb < 100 => ua > ub) /\ ua > 0 /\ ub < 1000
    BY <2>1
  <2>3. QED
    BY <2>2 DEF pb
<1>5. Scored(a, t, ids) = Clamp(ua)
  <2>1. Relevance(a, t) # 0
    BY <1>2
  <2>2. QED
    BY <2>1, ScoreIs DEF ua
<1>6. Scored(b, t, ids) \in {0, Clamp(ub), Clamp(ub - 450)}
  <2>1. CASE Relevance(b, t) = 0
    BY <2>1, ScoreIs
  <2>2. CASE Relevance(b, t) # 0 /\ Floors(b, ids)
    BY <2>2, ScoreIs DEF ub
  <2>3. CASE Relevance(b, t) # 0 /\ ~Floors(b, ids)
    BY <2>3, ScoreIs DEF ub
  <2>4. QED
    BY <2>1, <2>2, <2>3
<1>7. Clamp(ua) = IF ua > 1000 THEN 1000 ELSE ua
  BY <1>3, <1>4, ClampIs
<1>8. Clamp(ub) = IF ub < 0 THEN 0 ELSE ub
  BY <1>3, <1>4, ClampIs
<1>9. Clamp(ub - 450) = IF ub - 450 < 0 THEN 0 ELSE ub - 450
  <2>1. ub - 450 \in Int /\ ~(ub - 450 > 1000)
    BY <1>3, <1>4
  <2>2. QED
    BY <2>1, ClampIs
<1>10. QED
  BY <1>3, <1>4, <1>5, <1>6, <1>7, <1>8, <1>9

\* What earns its place without the floor is kept, or kept aside, and nothing else.
LEMMA NothingIsLost ==
  ASSUME NEW vs, NEW v \in vs, NEW t \in AllTargets, NEW ids
  PROVE  v \in kept(vs, t, ids) \cup floored(vs, t, ids)
           <=> Share(v, t) > 0 /\ Unclamped(v, t, ids) >= MinScore
<1> DEFINE u == Unclamped(v, t, ids)
<1>1. MinScore \in 1..1000
  BY VideoFinderAssumption
<1>2. v \in kept(vs, t, ids) \cup floored(vs, t, ids)
        <=> \/ Scored(v, t, ids) >= MinScore
            \/ Floors(v, ids) /\ Unfloored(v, t, ids) >= MinScore
  BY DEF kept, floored, Scored, Unfloored
<1>3. Relevance(v, t) \in 0..600 /\ (Relevance(v, t) > 0 <=> Share(v, t) > 0)
  BY RelevanceIs
<1>4. u \in Int
  BY ScoreIs
<1>5. \A x \in Int : Clamp(x) >= MinScore <=> x >= MinScore
  BY <1>1, ClampIs
<1>6. CASE Relevance(v, t) = 0
  <2>1. Scored(v, t, ids) = 0 /\ Unfloored(v, t, ids) = 0
    BY <1>6, ScoreIs
  <2>2. QED
    BY <1>1, <1>2, <1>3, <1>6, <2>1
<1>7. CASE Relevance(v, t) # 0 /\ Floors(v, ids)
  <2>1. Scored(v, t, ids) = Clamp(u - 450) /\ Unfloored(v, t, ids) = Clamp(u)
    BY <1>7, ScoreIs
  <2> HIDE DEF u
  <2>2. Scored(v, t, ids) >= MinScore <=> u - 450 >= MinScore
    BY <1>4, <1>5, <2>1
  <2>3. Unfloored(v, t, ids) >= MinScore <=> u >= MinScore
    BY <1>4, <1>5, <2>1
  <2>4. u - 450 >= MinScore => u >= MinScore
    BY <1>1, <1>4
  <2>5. Share(v, t) > 0
    BY <1>3, <1>7
  <2>6. QED
    BY <1>2, <1>7, <2>2, <2>3, <2>4, <2>5 DEF u
<1>8. CASE Relevance(v, t) # 0 /\ ~Floors(v, ids)
  <2>1. Scored(v, t, ids) = Clamp(u)
    BY <1>8, ScoreIs
  <2> HIDE DEF u
  <2>2. Scored(v, t, ids) >= MinScore <=> u >= MinScore
    BY <1>4, <1>5, <2>1
  <2>3. Share(v, t) > 0
    BY <1>3, <1>8
  <2>4. QED
    BY <1>2, <1>8, <2>2, <2>3 DEF u
<1>9. QED
  BY <1>6, <1>7, <1>8

\* Relevance outweighs reputation, and what only the floor removed is on record:
\* for any titles, channels, views and threshold.
THEOREM RelevanceOutweighs == Spec => []ScoreKeepsItsWord
<1>1. IInv => ScoreKeepsItsWord
  <2> SUFFICES ASSUME IInv, pc = "save"
               PROVE  /\ \A a, b \in found :
                           (Share(a, Target) = 1000 /\ Share(b, Target) <= 500 /\ a.length = b.length
                              /\ ~Floors(a, allowed))
                           => /\ score(a, Target, allowed, TRUE) >= score(b, Target, allowed, TRUE)
                              /\ Popularity(b) < WEIGHTS.views =>
                                   score(a, Target, allowed, TRUE) > score(b, Target, allowed, TRUE)
                      /\ \A v \in found :
                           v \in prior.candidates[Target] \cup prior.floored[Target]
                             <=> Share(v, Target) > 0 /\ Unclamped(v, Target, allowed) >= MinScore
    BY DEF ScoreKeepsItsWord
  <2>1. Target \in AllTargets
    BY InHand DEF IInv, FileInv
  <2>2. prior.candidates[Target] = kept(found, Target, allowed)
        /\ prior.floored[Target] = floored(found, Target, allowed)
    BY DEF IInv, FileInv
  <2>3. ASSUME NEW a \in found, NEW b \in found, Share(a, Target) = 1000, Share(b, Target) <= 500,
               a.length = b.length, ~Floors(a, allowed)
        PROVE  /\ score(a, Target, allowed, TRUE) >= score(b, Target, allowed, TRUE)
               /\ Popularity(b) < WEIGHTS.views =>
                    score(a, Target, allowed, TRUE) > score(b, Target, allowed, TRUE)
    BY <2>1, <2>3, WholeBeatsHalf DEF Scored, WEIGHTS
  <2>4. ASSUME NEW v \in found
        PROVE  v \in prior.candidates[Target] \cup prior.floored[Target]
                 <=> Share(v, Target) > 0 /\ Unclamped(v, Target, allowed) >= MinScore
    BY <2>1, <2>2, NothingIsLost
  <2>5. QED
    BY <2>3, <2>4
<1>2. QED
  BY <1>1, Invariance, PTL
=============================================================================
