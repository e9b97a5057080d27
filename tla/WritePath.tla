----------------------------- MODULE WritePath -----------------------------
(***************************************************************************)
(* The write half of the API: POST /trails, POST /requests and POST        *)
(* /reviews, served by several stateless Cloud Run instances over one      *)
(* Firestore, while a deploy adds and removes concepts underneath them.    *)
(*                                                                         *)
(* Every instance runs the same handler and keeps nothing between          *)
(* requests, so a process here is one request: it validates the body,      *)
(* reserves a slot of the day's write budget in a Firestore transaction,   *)
(* and then makes the store calls of its kind, one action per call.        *)
(* Between any two of them another request, the publisher or midnight may  *)
(* come.                                                                   *)
(***************************************************************************)
EXTENDS Naturals, FiniteSets

CONSTANTS
  Posts,      \* requests
  Concepts,   \* concept ids that are, or once were, published
  Walks,      \* stop sequences; a walk is its TrailKey, hence its slug
  StopsOf,    \* StopsOf[w]: the concepts walk w names
  Cap,        \* dailyCap
  LastDay,    \* bound: the last UTC day modelled
  MaxDeploys, \* bound: concept documents a deploy adds or removes
  None

ASSUME WritePathAssumption ==
  /\ IsFiniteSet(Posts)
  /\ StopsOf \in [Walks -> SUBSET Concepts]
  /\ Cap \in Nat \ {0}
  /\ LastDay \in Nat
  /\ MaxDeploys \in Nat

\* None is not a document.
ASSUME NoneIsNoDoc == None \notin [by : Posts, created : 0..LastDay]

VARIABLES
  day,      \* the UTC day now
  concepts, \* the concepts collection
  deploys,  \* concept documents changed so far (bound)
  count,    \* count[d]: the write counter document of day d, absent = 0
  trails,   \* trails[w]: the trail document of walk w, or None
  queue,    \* the two submission queues, one auto-id document per request
  pc,       \* pc[p]: the store call request p makes next
  body,     \* body[p]: the decoded request body
  bday,     \* bday[p]: the day the limiter read before its transaction
  seen,     \* seen[p]: the count its transaction read
  stamp,    \* stamp[p]: the created_at it gives its document
  resp,     \* resp[p]: the answer
  slots,    \* history: slots[d] are the requests whose increment of day d stuck
  wrote     \* history: the requests whose document write took effect

stores == <<concepts, deploys, count, trails, queue>>
locals == <<pc, body, bday, seen, stamp, resp>>
history == <<slots, wrote>>
vars == <<day, stores, locals, history>>

Days == 0..LastDay

TrailBody   == [kind : {"trail"}, walk : Walks]
RequestBody == [kind : {"request"}]
ReviewBody  == [kind : {"review"}, concept : Concepts]
\* A body DecodeJSON or the field checks refuse.
BadBody     == [kind : {"bad"}]
Bodies == TrailBody \cup RequestBody \cup ReviewBody \cup BadBody

TrailDoc == [by : Posts, created : Days]
QueueDoc == [by : Posts, created : Days]

InFlight == {"stamp", "txGet", "txCommit", "denied",
             "getTrail", "getStops", "setTrail", "getConcept", "add"}
Answers == {"invalid", "internal", "rateLimited", "created", "accepted",
            "missingStops", "notFound", "lost"}

TypeOK ==
  /\ day \in Days
  /\ concepts \subseteq Concepts
  /\ deploys \in 0..MaxDeploys
  /\ count \in [Days -> 0..Cap]
  /\ trails \in [Walks -> TrailDoc \cup {None}]
  /\ queue \subseteq QueueDoc
  /\ pc \in [Posts -> InFlight \cup {"idle", "done"}]
  /\ body \in [Posts -> Bodies]
  /\ bday \in [Posts -> Days]
  /\ seen \in [Posts -> 0..Cap]
  /\ stamp \in [Posts -> Days]
  /\ resp \in [Posts -> Answers \cup {"none"}]
  /\ slots \in [Days -> SUBSET Posts]
  /\ wrote \subseteq Posts

Init ==
  /\ day = 0
  /\ concepts = Concepts
  /\ deploys = 0
  /\ count = [d \in Days |-> 0]
  /\ trails = [w \in Walks |-> None]
  /\ queue = {}
  /\ pc = [p \in Posts |-> "idle"]
  /\ body = [p \in Posts |-> [kind |-> "bad"]]
  /\ bday = [p \in Posts |-> 0]
  /\ seen = [p \in Posts |-> 0]
  /\ stamp = [p \in Posts |-> 0]
  /\ resp = [p \in Posts |-> "none"]
  /\ slots = [d \in Days |-> {}]
  /\ wrote = {}

-----------------------------------------------------------------------------
\* Control of one request.

Goto(p, l) == pc' = [pc EXCEPT ![p] = l] /\ UNCHANGED resp

Answer(p, a) ==
  /\ pc' = [pc EXCEPT ![p] = "done"]
  /\ resp' = [resp EXCEPT ![p] = a]

\* A request arrives.  Validation is pure and comes first: a body it refuses
\* never reaches the store.
Arrive(p) ==
  /\ pc[p] = "idle"
  /\ \E b \in Bodies :
       /\ body' = [body EXCEPT ![p] = b]
       /\ IF b \in BadBody THEN Answer(p, "invalid") ELSE Goto(p, "stamp")
  /\ UNCHANGED <<day, stores, bday, seen, stamp, history>>

-----------------------------------------------------------------------------
\* WriteLimiter.Reserve: the day is read once, the transaction runs under it.

ReadDay(p) ==
  /\ pc[p] = "stamp"
  /\ bday' = [bday EXCEPT ![p] = day]
  /\ Goto(p, "txGet")
  /\ UNCHANGED <<day, stores, body, seen, stamp, history>>

\* What the handler does once Reserve has answered false.
FirstCall(b) ==
  CASE b.kind = "trail"   -> "getTrail"
    [] b.kind = "request" -> "add"
    [] b.kind = "review"  -> "getConcept"

\* (Mutation: the comparison lets one request past the cap.)
TxGetOffByOne(p) ==
  /\ pc[p] = "txGet"
  /\ seen' = [seen EXCEPT ![p] = count[bday[p]]]
  /\ Goto(p, IF count[bday[p]] > Cap THEN "denied" ELSE "txCommit")
  /\ UNCHANGED <<day, stores, body, bday, stamp, history>>

\* tx.Get of the counter, and the comparison with the cap.  A denied
\* transaction writes nothing.
TxGet(p) ==
  /\ pc[p] = "txGet"
  /\ seen' = [seen EXCEPT ![p] = count[bday[p]]]
  /\ Goto(p, IF count[bday[p]] >= Cap THEN "denied" ELSE "txCommit")
  /\ UNCHANGED <<day, stores, body, bday, stamp, history>>

\* (Mutation: a plain Get and Set instead of a transaction.)
TxCommitBlind(p) ==
  /\ pc[p] = "txCommit"
  /\ count' = [count EXCEPT ![bday[p]] = seen[p] + 1]
  /\ slots' = [slots EXCEPT ![bday[p]] = @ \cup {p}]
  /\ Goto(p, FirstCall(body[p]))
  /\ UNCHANGED <<day, concepts, deploys, trails, queue, body, bday, seen, stamp, wrote>>

\* (Mutation: the slot is charged to the day it is when the commit lands.)
TxCommitToday(p) ==
  /\ pc[p] = "txCommit"
  /\ count[bday[p]] = seen[p]
  /\ count' = [count EXCEPT ![day] = IF @ < Cap THEN @ + 1 ELSE @]
  /\ slots' = [slots EXCEPT ![day] = @ \cup {p}]
  /\ Goto(p, FirstCall(body[p]))
  /\ UNCHANGED <<day, concepts, deploys, trails, queue, body, bday, seen, stamp, wrote>>

\* The commit carries count + 1 and holds only if the counter is still what
\* the transaction read.
TxCommit(p) ==
  /\ pc[p] = "txCommit"
  /\ count[bday[p]] = seen[p]
  /\ count' = [count EXCEPT ![bday[p]] = seen[p] + 1]
  /\ slots' = [slots EXCEPT ![bday[p]] = @ \cup {p}]
  /\ \/ Goto(p, FirstCall(body[p]))
     \/ Answer(p, "internal") \* committed, but the deadline beat the answer
  /\ UNCHANGED <<day, concepts, deploys, trails, queue, body, bday, seen, stamp, wrote>>

\* (Mutation: the retry commits again without reading again.)
TxRetryStale(p) ==
  /\ pc[p] = "txCommit"
  /\ count[bday[p]] # seen[p]
  /\ Goto(p, "txCommit")
  /\ UNCHANGED <<day, stores, body, bday, seen, stamp, history>>

\* Another transaction committed in between: RunTransaction runs the function
\* again.
TxRetry(p) ==
  /\ pc[p] = "txCommit"
  /\ count[bday[p]] # seen[p]
  /\ Goto(p, "txGet")
  /\ UNCHANGED <<day, stores, body, bday, seen, stamp, history>>

\* 429, with the seconds to the next UTC midnight.
Denied(p) ==
  /\ pc[p] = "denied"
  /\ Answer(p, "rateLimited")
  /\ UNCHANGED <<day, stores, body, bday, seen, stamp, history>>

-----------------------------------------------------------------------------
\* CreateTrail: look for the slug, resolve every stop in one batch, set.

\* (Mutation: the slug is not looked up first.)
GetTrailSkipped(p) ==
  /\ pc[p] = "getTrail"
  /\ Goto(p, "getStops")
  /\ UNCHANGED <<day, stores, body, bday, seen, stamp, history>>

\* An existing slug is the answer; nothing is written.
GetTrail(p) ==
  /\ pc[p] = "getTrail"
  /\ IF trails[body[p].walk] # None THEN Answer(p, "created") ELSE Goto(p, "getStops")
  /\ UNCHANGED <<day, stores, body, bday, seen, stamp, history>>

Missing(w) == StopsOf[w] \ concepts

GetStops(p) ==
  /\ pc[p] = "getStops"
  /\ stamp' = [stamp EXCEPT ![p] = day]
  /\ IF Missing(body[p].walk) # {} THEN Answer(p, "missingStops") ELSE Goto(p, "setTrail")
  /\ UNCHANGED <<day, stores, body, bday, seen, history>>

\* A document Set, not a Create: it overwrites whatever is there.
SetTrail(p) ==
  /\ pc[p] = "setTrail"
  /\ trails' = [trails EXCEPT ![body[p].walk] = [by |-> p, created |-> stamp[p]]]
  /\ wrote' = wrote \cup {p}
  /\ \E a \in {"created", "internal"} : Answer(p, a)
  /\ UNCHANGED <<day, concepts, deploys, count, queue, body, bday, seen, stamp, slots>>

\* EnqueueReview looks its concept up before it appends.
GetConcept(p) ==
  /\ pc[p] = "getConcept"
  /\ IF body[p].concept \in concepts THEN Goto(p, "add") ELSE Answer(p, "notFound")
  /\ UNCHANGED <<day, stores, body, bday, seen, stamp, history>>

\* Collection.Add under a fresh id, for either queue.
Add(p) ==
  /\ pc[p] = "add"
  /\ queue' = queue \cup {[by |-> p, created |-> day]}
  /\ stamp' = [stamp EXCEPT ![p] = day]
  /\ wrote' = wrote \cup {p}
  /\ \E a \in {"accepted", "internal"} : Answer(p, a)
  /\ UNCHANGED <<day, concepts, deploys, count, trails, body, bday, seen, slots>>

-----------------------------------------------------------------------------
\* Failure and environment.

\* Any store call may fail, or run into the handler's deadline, without effect.
CallFails(p) ==
  /\ pc[p] \in InFlight \ {"stamp", "denied"}
  /\ Answer(p, "internal")
  /\ UNCHANGED <<day, stores, body, bday, seen, stamp, history>>

\* The instance is reclaimed under the request: the client hears nothing.
InstanceLost(p) ==
  /\ pc[p] \in InFlight
  /\ Answer(p, "lost")
  /\ UNCHANGED <<day, stores, body, bday, seen, stamp, history>>

\* A deploy writes or deletes one concept document.
PublishConcept(c) ==
  /\ deploys < MaxDeploys
  /\ deploys' = deploys + 1
  /\ concepts' = IF c \in concepts THEN concepts \ {c} ELSE concepts \cup {c}
  /\ UNCHANGED <<day, count, trails, queue, locals, history>>

\* Midnight.  A handler's deadline is ten seconds, so a request that read its
\* day before one midnight is gone before the next.
Midnight ==
  /\ day < LastDay
  /\ \A p \in Posts : pc[p] \in InFlight \ {"stamp"} => bday[p] = day
  /\ day' = day + 1
  /\ UNCHANGED <<stores, locals, history>>

Handle(p) ==
  \/ ReadDay(p) \/ TxGet(p) \/ TxCommit(p) \/ TxRetry(p) \/ Denied(p)
  \/ GetTrail(p) \/ GetStops(p) \/ SetTrail(p) \/ GetConcept(p) \/ Add(p)

Next ==
  \/ \E p \in Posts : Arrive(p) \/ Handle(p) \/ CallFails(p) \/ InstanceLost(p)
  \/ \E c \in Concepts : PublishConcept(c)
  \/ Midnight

Spec == Init /\ [][Next]_vars

\* The runtime keeps running a request it has accepted.
FairSpec == Spec /\ \A p \in Posts : WF_vars(Handle(p))
-----------------------------------------------------------------------------
\* Properties.

Holders == UNION {slots[d] : d \in Days}
ChargedTo(d) == {p \in wrote : bday[p] = d}
DatedOn(d) == {p \in wrote : stamp[p] = d}
Unsettled(w) == {p \in Posts : /\ pc[p] \in {"getStops", "setTrail"}
                               /\ body[p].walk = w}

\* The counter document is exactly the number of slots handed out, and every
\* document in Firestore was paid for with a slot of the day its request read
\* (ReserveWrite before each store write in the handlers).
WritesAreFunded ==
  /\ \A d \in Days : count[d] = Cardinality(slots[d])
  /\ \A p \in wrote : p \in slots[bday[p]]

\* However the instances' transactions interleave, one day's budget never pays
\* for more than dailyCap documents (firestore.go: "so two instances racing
\* cannot both slip past the cap").
BudgetHeld == \A d \in Days : Cardinality(ChargedTo(d)) <= Cap

\* No 429 from the budget while a slot of that day is left, even when the
\* transaction that answered it was a retry.
RateLimitedOnlyWhenSpent ==
  \A p \in Posts : resp[p] = "rateLimited" => count[bday[p]] = Cap

\* A request the validation or the cap refused holds no slot, and no request
\* holds two, retries and midnight included.
RefusalsAreFree ==
  /\ \A p \in Posts : resp[p] \in {"invalid", "rateLimited"} => p \notin Holders
  /\ \A d, e \in Days : d # e => slots[d] \cap slots[e] = {}

\* The slug a 201 hands out resolves from then on, whoever wrote the document.
CreatedResolves ==
  \A p \in Posts : resp[p] = "created" => trails[body[p].walk] # None

\* A document is dated the day it was charged to or the next one: the stamp is
\* read after the reservation, so midnight can move at most one budget's worth
\* of documents into the following day.
DayHoldsAtMostTwoBudgets ==
  /\ \A p \in wrote : stamp[p] \in {bday[p], bday[p] + 1}
  /\ \A d \in Days : Cardinality(DatedOn(d)) <= 2 * Cap

\* Once a trail exists, only the requests that had already missed it can still
\* overwrite it: nobody joins them, and when they are gone the document is
\* final (CreateTrail's Get before its Set).
SettledTrailStable ==
  [][\A w \in Walks : trails[w] # None =>
       /\ Unsettled(w)' \subseteq Unsettled(w)
       /\ Unsettled(w) = {} => trails'[w] = trails[w]]_vars

\* Every accepted request ends, however often its transaction is retried.
EveryRequestEnds == \A p \in Posts : pc[p] \in InFlight ~> pc[p] = "done"

\* The handlers implement the ledger.
Ledger == INSTANCE WriteLedger WITH granted <- slots, stored <- wrote
LedgerSpec == Ledger!LedgerSpec

-----------------------------------------------------------------------------
\* The inductive invariant: where a request stands tells what it holds.

BeforeSlot == {"idle", "stamp", "txGet", "txCommit", "denied"}
AfterSlot  == {"getTrail", "getStops", "setTrail", "getConcept", "add"}
TrailCalls == {"getTrail", "getStops", "setTrail"}

\* A slot is taken in TxCommit and nowhere else, on the day read before it.
SlotInv ==
  /\ \A d \in Days : count[d] = Cardinality(slots[d])
  /\ \A d \in Days : \A p \in slots[d] : bday[p] = d
  /\ \A p \in Posts : pc[p] \in BeforeSlot => \A d \in Days : p \notin slots[d]
  /\ \A p \in Posts : pc[p] \in AfterSlot => p \in slots[bday[p]]
  /\ \A p \in Posts : pc[p] = "txCommit" => seen[p] < Cap

\* A document is written last, by a request that holds its slot.
WroteInv == \A p \in wrote : pc[p] = "done" /\ p \in slots[bday[p]]

\* What an answer says about the state it was given in still holds.
AnswerHolds(p) ==
  /\ resp[p] # "none" => pc[p] = "done"
  /\ pc[p] = "denied" \/ resp[p] = "rateLimited" => count[bday[p]] = Cap
  /\ resp[p] \in {"invalid", "rateLimited"} => \A d \in Days : p \notin slots[d]
  /\ resp[p] = "created" => body[p].kind = "trail" /\ trails[body[p].walk] # None
AnswerInv == \A p \in Posts : AnswerHolds(p)

\* The kind of a body decides which calls its request makes.
KindInv ==
  \A p \in Posts :
    /\ pc[p] \in InFlight => body[p].kind # "bad"
    /\ pc[p] \in TrailCalls => body[p].kind = "trail"
    /\ pc[p] = "getConcept" => body[p].kind = "review"

\* No request is in flight across two midnights.
DateInv ==
  \A p \in Posts :
    /\ pc[p] \in InFlight \ {"stamp"} => day \in {bday[p], bday[p] + 1}
    /\ pc[p] = "setTrail" \/ p \in wrote => stamp[p] \in {bday[p], bday[p] + 1}

IInv == TypeOK /\ SlotInv /\ WroteInv /\ AnswerInv /\ KindInv /\ DateInv
=============================================================================
