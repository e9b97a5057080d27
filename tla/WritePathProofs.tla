-------------------------- MODULE WritePathProofs --------------------------
(***************************************************************************)
(* The budget theorem: for any number of requests, walks, concepts and     *)
(* days, however the instances interleave, a day's budget never pays for   *)
(* more than Cap documents.                                                *)
(***************************************************************************)
EXTENDS WritePath, FiniteSetTheorems, TLAPS

\* A decoded body has one of the four kinds.
LEMMA BodyKinds ==
  \A b \in Bodies :
    /\ b.kind \in {"trail", "request", "review", "bad"}
    /\ b.kind = "trail" => b \in TrailBody /\ b.walk \in Walks
    /\ b.kind = "review" => b \in ReviewBody /\ b.concept \in Concepts
    /\ b \in BadBody <=> b.kind = "bad"
BY DEF Bodies, TrailBody, RequestBody, ReviewBody, BadBody

\* The first call after the reservation is one of the three kinds'.
LEMMA FirstCallKinds ==
  ASSUME NEW b \in Bodies, b.kind # "bad"
  PROVE  /\ FirstCall(b) \in {"getTrail", "add", "getConcept"}
         /\ FirstCall(b) = "getTrail" => b.kind = "trail"
         /\ FirstCall(b) = "getConcept" => b.kind = "review"
BY BodyKinds DEF FirstCall

\* Every variable stays in its type.  The counter stays in 0..Cap because the
\* transaction that commits has read a count below Cap.
LEMMA TypeStep ==
  ASSUME IInv, [Next]_vars
  PROVE  TypeOK'
<1> USE WritePathAssumption DEF TypeOK, Days
<1>0. TypeOK /\ SlotInv /\ KindInv
  BY DEF IInv
<1>1. ASSUME NEW p \in Posts, Arrive(p) PROVE TypeOK'
  <2>1. PICK b \in Bodies : /\ body' = [body EXCEPT ![p] = b]
                            /\ IF b \in BadBody THEN Answer(p, "invalid") ELSE Goto(p, "stamp")
    BY <1>1 DEF Arrive
  <2>2. CASE Answer(p, "invalid")
    BY <1>0, <1>1, <2>1, <2>2 DEF Arrive, Answer, Answers, InFlight, stores, history
  <2>3. CASE Goto(p, "stamp")
    BY <1>0, <1>1, <2>1, <2>3 DEF Arrive, Goto, InFlight, stores, history
  <2> QED BY <2>1, <2>2, <2>3
<1>2. ASSUME NEW p \in Posts, ReadDay(p) PROVE TypeOK'
  BY <1>0, <1>2 DEF ReadDay, Goto, InFlight, stores, history
<1>3. ASSUME NEW p \in Posts, TxGet(p) PROVE TypeOK'
  BY <1>0, <1>3 DEF TxGet, Goto, InFlight, stores, history
<1>4. ASSUME NEW p \in Posts, TxCommit(p) PROVE TypeOK'
  <2>1. seen[p] + 1 \in 0..Cap /\ bday[p] \in Days
    <3>1. seen[p] < Cap /\ seen[p] \in 0..Cap
      BY <1>0, <1>4 DEF TxCommit, SlotInv
    <3> QED BY <1>0, <3>1
  <2>2. count' \in [Days -> 0..Cap] /\ slots' \in [Days -> SUBSET Posts]
    BY <1>0, <1>4, <2>1 DEF TxCommit
  <2>3. FirstCall(body[p]) \in InFlight
    BY <1>0, <1>4, FirstCallKinds DEF TxCommit, KindInv, InFlight
  <2>4. pc' \in [Posts -> InFlight \cup {"idle", "done"}] /\ resp' \in [Posts -> Answers \cup {"none"}]
    <3>1. CASE Goto(p, FirstCall(body[p]))
      BY <1>0, <2>3, <3>1 DEF Goto
    <3>2. CASE Answer(p, "internal")
      BY <1>0, <3>2 DEF Answer, Answers
    <3> QED BY <1>4, <3>1, <3>2 DEF TxCommit
  <2> QED BY <1>0, <1>4, <2>2, <2>4 DEF TxCommit
<1>5. ASSUME NEW p \in Posts, TxRetry(p) PROVE TypeOK'
  BY <1>0, <1>5 DEF TxRetry, Goto, InFlight, stores, history
<1>6. ASSUME NEW p \in Posts, Denied(p) PROVE TypeOK'
  BY <1>0, <1>6 DEF Denied, Answer, Answers, stores, history
<1>7. ASSUME NEW p \in Posts, GetTrail(p) PROVE TypeOK'
  BY <1>0, <1>7 DEF GetTrail, Goto, Answer, InFlight, Answers, stores, history
<1>8. ASSUME NEW p \in Posts, GetStops(p) PROVE TypeOK'
  BY <1>0, <1>8 DEF GetStops, Goto, Answer, InFlight, Answers, stores, history
<1>9. ASSUME NEW p \in Posts, SetTrail(p) PROVE TypeOK'
  <2>1. [by |-> p, created |-> stamp[p]] \in TrailDoc
    BY <1>0, <1>9 DEF TrailDoc
  <2>2. trails' \in [Walks -> TrailDoc \cup {None}]
    BY <1>0, <1>9, <2>1 DEF SetTrail
  <2>3. pc' \in [Posts -> InFlight \cup {"idle", "done"}] /\ resp' \in [Posts -> Answers \cup {"none"}]
    BY <1>0, <1>9 DEF SetTrail, Answer, Answers
  <2> QED BY <1>0, <1>9, <2>2, <2>3 DEF SetTrail
<1>10. ASSUME NEW p \in Posts, GetConcept(p) PROVE TypeOK'
  BY <1>0, <1>10 DEF GetConcept, Goto, Answer, InFlight, Answers, stores, history
<1>11. ASSUME NEW p \in Posts, Add(p) PROVE TypeOK'
  <2>1. queue' \subseteq QueueDoc
    BY <1>0, <1>11 DEF Add, QueueDoc
  <2>2. pc' \in [Posts -> InFlight \cup {"idle", "done"}] /\ resp' \in [Posts -> Answers \cup {"none"}]
    BY <1>0, <1>11 DEF Add, Answer, Answers
  <2> QED BY <1>0, <1>11, <2>1, <2>2 DEF Add
<1>12. ASSUME NEW p \in Posts, CallFails(p) \/ InstanceLost(p) PROVE TypeOK'
  <2>1. \E a \in {"internal", "lost"} : Answer(p, a)
    BY <1>12 DEF CallFails, InstanceLost
  <2>2. UNCHANGED <<day, stores, body, bday, seen, stamp, history>>
    BY <1>12 DEF CallFails, InstanceLost
  <2> QED BY <1>0, <2>1, <2>2 DEF Answer, Answers, stores, history
<1>13. ASSUME NEW c \in Concepts, PublishConcept(c) PROVE TypeOK'
  BY <1>0, <1>13 DEF PublishConcept, locals, history
<1>14. CASE Midnight
  BY <1>0, <1>14 DEF Midnight, stores, locals, history
<1>15. CASE UNCHANGED vars
  BY <1>0, <1>15 DEF vars, stores, locals, history
<1> QED BY <1>1, <1>2, <1>3, <1>4, <1>5, <1>6, <1>7, <1>8, <1>9, <1>10,
           <1>11, <1>12, <1>13, <1>14, <1>15 DEF Next, Handle
-----------------------------------------------------------------------------

\* The ledger: the counter is the number of slots handed out, and who holds
\* one is known from where its request stands.  Only Arrive, TxGet and the
\* calls after them move a request; only TxCommit touches the ledger.
LEMMA SlotStep ==
  ASSUME IInv, [Next]_vars
  PROVE  SlotInv'
<1> USE WritePathAssumption DEF TypeOK, Days
<1>0. TypeOK /\ TypeOK' /\ SlotInv /\ KindInv
  BY TypeStep DEF IInv
<1> DEFINE Quiet(p) == /\ UNCHANGED <<count, slots, bday, seen>>
                       /\ \/ UNCHANGED pc
                          \/ \E l \in InFlight \cup {"idle", "done"} :
                               /\ pc' = [pc EXCEPT ![p] = l]
                               /\ \/ l = "done"
                                  \/ pc[p] \in BeforeSlot /\ l \in BeforeSlot \ {"txCommit"}
                                  \/ pc[p] \in AfterSlot /\ l \in AfterSlot
<1>1. ASSUME NEW p \in Posts, Quiet(p) PROVE SlotInv'
  <2>1. CASE UNCHANGED pc
    BY <1>0, <1>1, <2>1 DEF SlotInv
  <2>2. ASSUME NEW l \in InFlight \cup {"idle", "done"},
               pc' = [pc EXCEPT ![p] = l],
               \/ l = "done"
               \/ pc[p] \in BeforeSlot /\ l \in BeforeSlot \ {"txCommit"}
               \/ pc[p] \in AfterSlot /\ l \in AfterSlot
        PROVE  SlotInv'
    <3>1. \A q \in Posts : q # p => pc'[q] = pc[q]
      BY <1>0, <2>2
    <3>2. pc'[p] = l
      BY <1>0, <2>2
    <3>3. \A q \in Posts : pc'[q] \in BeforeSlot => pc[q] \in BeforeSlot
      BY <2>2, <3>1, <3>2 DEF BeforeSlot, AfterSlot
    <3>4. \A q \in Posts : pc'[q] \in AfterSlot => pc[q] \in AfterSlot
      BY <2>2, <3>1, <3>2 DEF BeforeSlot, AfterSlot
    <3>5. \A q \in Posts : pc'[q] = "txCommit" => pc[q] = "txCommit"
      BY <2>2, <3>1, <3>2 DEF AfterSlot
    <3> QED BY <1>0, <1>1, <3>3, <3>4, <3>5 DEF SlotInv
  <2> QED BY <1>1, <2>1, <2>2
<1>2. ASSUME NEW p \in Posts, Arrive(p) PROVE SlotInv'
  <2>1. Quiet(p)
    BY <1>2 DEF Arrive, Goto, Answer, InFlight, BeforeSlot, stores, history
  <2> QED BY <2>1, <1>1
<1>3. ASSUME NEW p \in Posts, ReadDay(p) PROVE SlotInv'
  BY <1>0, <1>3 DEF ReadDay, Goto, SlotInv, BeforeSlot, AfterSlot, stores, history
<1>4. ASSUME NEW p \in Posts, TxGet(p) PROVE SlotInv'
  <2>1. bday[p] \in Days /\ count[bday[p]] \in 0..Cap
    BY <1>0
  <2>2. seen' = [seen EXCEPT ![p] = count[bday[p]]] /\ UNCHANGED <<count, slots, bday>>
    BY <1>4 DEF TxGet, stores, history
  <2>3. CASE count[bday[p]] >= Cap
    BY <1>0, <1>4, <2>2, <2>3 DEF TxGet, Goto, SlotInv, BeforeSlot, AfterSlot
  <2>4. CASE ~(count[bday[p]] >= Cap)
    BY <1>0, <1>4, <2>1, <2>2, <2>4 DEF TxGet, Goto, SlotInv, BeforeSlot, AfterSlot
  <2> QED BY <2>3, <2>4
<1>5. ASSUME NEW p \in Posts, TxCommit(p) PROVE SlotInv'
  <2>1. /\ pc[p] = "txCommit" /\ bday[p] \in Days
        /\ count[bday[p]] = seen[p]
        /\ count' = [count EXCEPT ![bday[p]] = seen[p] + 1]
        /\ slots' = [slots EXCEPT ![bday[p]] = slots[bday[p]] \cup {p}]
        /\ UNCHANGED <<bday, seen>>
        /\ p \notin slots[bday[p]]
    BY <1>0, <1>5 DEF TxCommit, SlotInv, BeforeSlot
  <2>2. \E l \in AfterSlot \cup {"done"} : pc' = [pc EXCEPT ![p] = l]
    BY <1>0, <1>5, FirstCallKinds DEF TxCommit, Goto, Answer, KindInv, AfterSlot, InFlight
  <2>3. \A d \in Days : count'[d] = Cardinality(slots'[d])
    <3>1. Cardinality(slots[bday[p]] \cup {p}) = Cardinality(slots[bday[p]]) + 1
      <4>1. IsFiniteSet(slots[bday[p]])
        BY <1>0, <2>1, FS_Subset
      <4> QED BY <4>1, <2>1, FS_AddElement
    <3>2. TAKE d \in Days
    <3>3. CASE d = bday[p]
      BY <1>0, <2>1, <3>1, <3>3 DEF SlotInv
    <3>4. CASE d # bday[p]
      BY <1>0, <2>1, <3>4 DEF SlotInv
    <3> QED BY <3>3, <3>4
  <2>4. \A d \in Days : \A q \in slots'[d] : bday'[q] = d
    BY <1>0, <2>1 DEF SlotInv
  <2>5. /\ pc'[p] \in AfterSlot \cup {"done"}
        /\ \A q \in Posts : q # p => pc'[q] = pc[q]
    BY <1>0, <2>2
  <2>6. \A q \in Posts : pc'[q] \in BeforeSlot => \A d \in Days : q \notin slots'[d]
    <3>1. TAKE q \in Posts
    <3>2. HAVE pc'[q] \in BeforeSlot
    <3>3. q # p /\ pc[q] \in BeforeSlot
      BY <2>5, <3>2 DEF BeforeSlot, AfterSlot
    <3> QED BY <1>0, <2>1, <3>3 DEF SlotInv
  <2>7. \A q \in Posts : pc'[q] \in AfterSlot => q \in slots'[bday'[q]]
    <3>1. TAKE q \in Posts
    <3>2. HAVE pc'[q] \in AfterSlot
    <3>3. bday'[q] \in Days /\ bday'[q] = bday[q]
      BY <1>0, <2>1
    <3>4. CASE q = p
      BY <1>0, <2>1, <3>3, <3>4
    <3>5. CASE q # p
      BY <1>0, <2>1, <2>5, <3>2, <3>3, <3>5 DEF SlotInv
    <3> QED BY <3>4, <3>5
  <2>8. \A q \in Posts : pc'[q] = "txCommit" => seen'[q] < Cap
    BY <1>0, <2>1, <2>5 DEF SlotInv, AfterSlot
  <2> QED BY <2>3, <2>4, <2>6, <2>7, <2>8 DEF SlotInv
<1>6. ASSUME NEW p \in Posts,
             TxRetry(p) \/ Denied(p) \/ CallFails(p) \/ InstanceLost(p)
      PROVE  SlotInv'
  <2>1. Quiet(p)
    BY <1>6 DEF TxRetry, Denied, CallFails, InstanceLost, Goto, Answer, InFlight,
                BeforeSlot, stores, history
  <2> QED BY <2>1, <1>1
<1>7. ASSUME NEW p \in Posts, GetTrail(p) \/ GetStops(p) \/ GetConcept(p) PROVE SlotInv'
  <2>1. Quiet(p)
    BY <1>7 DEF GetTrail, GetStops, GetConcept, Goto, Answer, InFlight, AfterSlot, stores, history
  <2> QED BY <2>1, <1>1
<1>8. ASSUME NEW p \in Posts, SetTrail(p) \/ Add(p) PROVE SlotInv'
  <2>1. Quiet(p)
    BY <1>8 DEF SetTrail, Add, Answer
  <2> QED BY <2>1, <1>1
<1>9. CASE UNCHANGED vars \/ Midnight \/ \E c \in Concepts : PublishConcept(c)
  BY <1>0, <1>9 DEF SlotInv, Midnight, PublishConcept, vars, stores, locals, history
<1> QED BY <1>2, <1>3, <1>4, <1>5, <1>6, <1>7, <1>8, <1>9 DEF Next, Handle
-----------------------------------------------------------------------------

\* A document's request holds the slot it was charged to, and has ended.
LEMMA WroteStep ==
  ASSUME IInv, [Next]_vars
  PROVE  WroteInv'
<1> USE DEF TypeOK
<1>0. TypeOK /\ TypeOK' /\ SlotInv /\ WroteInv
  BY TypeStep DEF IInv
\* A step of p that leaves wrote, p's day and everybody's slot alone.
<1> DEFINE Moves(p) == /\ pc[p] # "done"
                       /\ wrote' = wrote
                       /\ \A q \in Posts : q # p => pc'[q] = pc[q] /\ bday'[q] = bday[q]
                       /\ \A d \in Days : slots[d] \subseteq slots'[d]
<1>1. ASSUME NEW p \in Posts, Moves(p) PROVE WroteInv'
  BY <1>0, <1>1 DEF WroteInv
<1>2. ASSUME NEW p \in Posts, Arrive(p) PROVE WroteInv'
  <2>1. Moves(p)
    BY <1>0, <1>2 DEF Arrive, Goto, Answer, stores, history
  <2> QED BY <2>1, <1>1
<1>3. ASSUME NEW p \in Posts, ReadDay(p) \/ TxGet(p) \/ TxRetry(p) \/ Denied(p) PROVE WroteInv'
  <2>1. Moves(p)
    BY <1>0, <1>3 DEF ReadDay, TxGet, TxRetry, Denied, Goto, Answer, stores, history
  <2> QED BY <2>1, <1>1
<1>4. ASSUME NEW p \in Posts, TxCommit(p) PROVE WroteInv'
  <2>1. Moves(p)
    BY <1>0, <1>4 DEF TxCommit, Goto, Answer
  <2> QED BY <2>1, <1>1
<1>5. ASSUME NEW p \in Posts,
             GetTrail(p) \/ GetStops(p) \/ GetConcept(p) \/ CallFails(p) \/ InstanceLost(p)
      PROVE  WroteInv'
  <2>1. Moves(p)
    BY <1>0, <1>5 DEF GetTrail, GetStops, GetConcept, CallFails, InstanceLost, InFlight,
                      Goto, Answer, stores, history
  <2> QED BY <2>1, <1>1
<1>6. ASSUME NEW p \in Posts, SetTrail(p) \/ Add(p) PROVE WroteInv'
  <2>1. p \in slots[bday[p]]
    BY <1>0, <1>6 DEF SlotInv, SetTrail, Add, AfterSlot
  <2>2. /\ wrote' = wrote \cup {p} /\ UNCHANGED <<slots, bday>>
        /\ pc'[p] = "done" /\ \A q \in Posts : q # p => pc'[q] = pc[q]
    BY <1>0, <1>6 DEF SetTrail, Add, Answer
  <2> QED BY <1>0, <2>1, <2>2 DEF WroteInv
<1>7. CASE UNCHANGED vars \/ Midnight \/ \E c \in Concepts : PublishConcept(c)
  BY <1>0, <1>7 DEF WroteInv, Midnight, PublishConcept, vars, stores, locals, history
<1> QED BY <1>2, <1>3, <1>4, <1>5, <1>6, <1>7 DEF Next, Handle

\* A body's kind decides its request's calls.
LEMMA KindStep ==
  ASSUME IInv, [Next]_vars
  PROVE  KindInv'
<1> USE DEF TypeOK
<1>0. TypeOK /\ TypeOK' /\ KindInv
  BY TypeStep DEF IInv
\* p moves to l, which its body's kind allows.
<1> DEFINE Moves(p, l) == /\ body' = body
                          /\ pc' = [pc EXCEPT ![p] = l]
                          /\ l \in InFlight => body[p].kind # "bad"
                          /\ l \in TrailCalls => body[p].kind = "trail"
                          /\ l = "getConcept" => body[p].kind = "review"
<1>1. ASSUME NEW p \in Posts, NEW l, Moves(p, l) PROVE KindInv'
  BY <1>0, <1>1 DEF KindInv
<1>2. ASSUME NEW p \in Posts, Arrive(p) PROVE KindInv'
  <2>1. PICK b \in Bodies : /\ body' = [body EXCEPT ![p] = b]
                            /\ IF b \in BadBody THEN Answer(p, "invalid") ELSE Goto(p, "stamp")
    BY <1>2 DEF Arrive
  <2>2. b.kind = "bad" => pc' = [pc EXCEPT ![p] = "done"]
    BY <2>1, BodyKinds DEF Answer
  <2>3. b.kind # "bad" => pc' = [pc EXCEPT ![p] = "stamp"]
    BY <2>1, BodyKinds DEF Goto
  <2> QED BY <1>0, <2>1, <2>2, <2>3 DEF KindInv, InFlight, TrailCalls
<1>3. ASSUME NEW p \in Posts, ReadDay(p) \/ TxGet(p) \/ TxRetry(p) PROVE KindInv'
  <2>1. \E l \in {"txGet", "denied", "txCommit"} : Moves(p, l)
    BY <1>0, <1>3 DEF ReadDay, TxGet, TxRetry, Goto, KindInv, InFlight, TrailCalls
  <2> QED BY <2>1, <1>1
<1>4. ASSUME NEW p \in Posts, TxCommit(p) PROVE KindInv'
  <2>1. pc[p] \in InFlight /\ body[p] \in Bodies /\ body[p].kind # "bad"
    BY <1>0, <1>4 DEF TxCommit, KindInv, InFlight
  <2>2. CASE Goto(p, FirstCall(body[p]))
    <3>1. Moves(p, FirstCall(body[p]))
      BY <1>4, <2>1, <2>2, FirstCallKinds DEF TxCommit, Goto, TrailCalls
    <3> QED BY <3>1, <1>1
  <2>3. CASE Answer(p, "internal")
    <3>1. Moves(p, "done")
      BY <1>4, <2>3 DEF TxCommit, Answer, InFlight, TrailCalls
    <3> QED BY <3>1, <1>1
  <2> QED BY <1>4, <2>2, <2>3 DEF TxCommit
<1>5. ASSUME NEW p \in Posts, GetTrail(p) \/ GetStops(p) PROVE KindInv'
  <2>1. \E l \in {"getStops", "setTrail", "done"} : Moves(p, l)
    BY <1>0, <1>5 DEF GetTrail, GetStops, Goto, Answer, KindInv, InFlight, TrailCalls
  <2> QED BY <2>1, <1>1
<1>6. ASSUME NEW p \in Posts, GetConcept(p) PROVE KindInv'
  <2>1. \E l \in {"add", "done"} : Moves(p, l)
    BY <1>0, <1>6 DEF GetConcept, Goto, Answer, KindInv, InFlight, TrailCalls
  <2> QED BY <2>1, <1>1
<1>7. ASSUME NEW p \in Posts,
             Denied(p) \/ SetTrail(p) \/ Add(p) \/ CallFails(p) \/ InstanceLost(p)
      PROVE  KindInv'
  <2>1. Moves(p, "done")
    BY <1>7 DEF Denied, SetTrail, Add, CallFails, InstanceLost, Answer, InFlight, TrailCalls
  <2> QED BY <2>1, <1>1
<1>8. CASE UNCHANGED vars \/ Midnight \/ \E c \in Concepts : PublishConcept(c)
  BY <1>0, <1>8 DEF KindInv, Midnight, PublishConcept, vars, stores, locals, history
<1> QED BY <1>2, <1>3, <1>4, <1>5, <1>6, <1>7, <1>8 DEF Next, Handle
-----------------------------------------------------------------------------

\* No request is in flight across two midnights, so its document is dated the
\* day it was charged to or the day after.
LEMMA DateStep ==
  ASSUME IInv, [Next]_vars
  PROVE  DateInv'
<1> USE WritePathAssumption DEF TypeOK, Days
<1>0. TypeOK /\ TypeOK' /\ WroteInv /\ DateInv
  BY TypeStep DEF IInv
\* p moves to l while the clock stands still.
<1> DEFINE Moves(p, l) == /\ UNCHANGED <<day, bday, wrote>>
                          /\ pc' = [pc EXCEPT ![p] = l]
                          /\ stamp' \in {stamp, [stamp EXCEPT ![p] = day]}
                          /\ p \notin wrote
                          /\ l \in InFlight \ {"stamp"} => pc[p] \in InFlight \ {"stamp"}
                          /\ l = "setTrail" => stamp'[p] = day /\ pc[p] \in InFlight \ {"stamp"}
<1>1. ASSUME NEW p \in Posts, NEW l, Moves(p, l) PROVE DateInv'
  BY <1>0, <1>1 DEF DateInv
<1>2. ASSUME NEW p \in Posts, Arrive(p) PROVE DateInv'
  <2>1. p \notin wrote
    BY <1>0, <1>2 DEF Arrive, WroteInv
  <2>2. \E l \in {"stamp", "done"} : Moves(p, l)
    BY <1>2, <2>1 DEF Arrive, Goto, Answer, InFlight, stores, history
  <2> QED BY <2>2, <1>1
<1>3. ASSUME NEW p \in Posts, ReadDay(p) PROVE DateInv'
  <2>1. p \notin wrote
    BY <1>0, <1>3 DEF ReadDay, WroteInv
  <2> QED BY <1>0, <1>3, <2>1 DEF ReadDay, Goto, DateInv, stores, history
<1>4. ASSUME NEW p \in Posts, TxGet(p) \/ TxRetry(p) \/ Denied(p) PROVE DateInv'
  <2>1. p \notin wrote
    BY <1>0, <1>4 DEF TxGet, TxRetry, Denied, WroteInv
  <2>2. \E l \in {"txGet", "txCommit", "denied", "done"} : Moves(p, l)
    BY <1>4, <2>1 DEF TxGet, TxRetry, Denied, Goto, Answer, InFlight, stores, history
  <2> QED BY <2>2, <1>1
<1>5. ASSUME NEW p \in Posts, TxCommit(p) PROVE DateInv'
  <2>1. p \notin wrote /\ pc[p] \in InFlight \ {"stamp"}
    BY <1>0, <1>5 DEF TxCommit, WroteInv, InFlight
  <2>2. CASE Goto(p, FirstCall(body[p]))
    <3>1. FirstCall(body[p]) # "setTrail"
      BY <1>0, <1>5, FirstCallKinds DEF TxCommit, IInv, KindInv, InFlight
    <3>2. Moves(p, FirstCall(body[p]))
      BY <1>5, <2>1, <2>2, <3>1 DEF TxCommit, Goto
    <3> QED BY <3>2, <1>1
  <2>3. CASE Answer(p, "internal")
    <3>1. Moves(p, "done")
      BY <1>5, <2>1, <2>3 DEF TxCommit, Answer, InFlight
    <3> QED BY <3>1, <1>1
  <2> QED BY <1>5, <2>2, <2>3 DEF TxCommit
<1>6. ASSUME NEW p \in Posts, GetTrail(p) \/ GetConcept(p) PROVE DateInv'
  <2>1. p \notin wrote
    BY <1>0, <1>6 DEF GetTrail, GetConcept, WroteInv
  <2>2. \E l \in {"getStops", "add", "done"} : Moves(p, l)
    BY <1>6, <2>1 DEF GetTrail, GetConcept, Goto, Answer, InFlight, stores, history
  <2> QED BY <2>2, <1>1
<1>7. ASSUME NEW p \in Posts, GetStops(p) PROVE DateInv'
  <2>1. p \notin wrote /\ pc[p] = "getStops" /\ stamp' = [stamp EXCEPT ![p] = day]
    BY <1>0, <1>7 DEF GetStops, WroteInv
  <2>2. \E l \in {"setTrail", "done"} : Moves(p, l)
    BY <1>0, <1>7, <2>1 DEF GetStops, Goto, Answer, InFlight, stores, history
  <2> QED BY <2>2, <1>1
<1>8. ASSUME NEW p \in Posts, CallFails(p) \/ InstanceLost(p) PROVE DateInv'
  <2>1. p \notin wrote
    BY <1>0, <1>8 DEF CallFails, InstanceLost, WroteInv, InFlight
  <2>2. Moves(p, "done")
    BY <1>8, <2>1 DEF CallFails, InstanceLost, Answer, InFlight, stores, history
  <2> QED BY <2>2, <1>1
<1>9. ASSUME NEW p \in Posts, SetTrail(p) \/ Add(p) PROVE DateInv'
  <2>1. /\ UNCHANGED <<day, bday>> /\ wrote' = wrote \cup {p}
        /\ pc'[p] = "done" /\ \A q \in Posts : q # p => pc'[q] = pc[q] /\ stamp'[q] = stamp[q]
    BY <1>0, <1>9 DEF SetTrail, Add, Answer
  <2>2. stamp'[p] \in {bday[p], bday[p] + 1}
    BY <1>0, <1>9 DEF SetTrail, Add, DateInv, InFlight
  <2> QED BY <1>0, <2>1, <2>2 DEF DateInv, InFlight
<1>10. CASE Midnight
  <2>1. /\ \A p \in Posts : pc[p] \in InFlight \ {"stamp"} => bday[p] = day
        /\ day' = day + 1 /\ UNCHANGED <<pc, bday, stamp, wrote>>
    BY <1>10 DEF Midnight, locals, history
  <2> QED BY <1>0, <2>1 DEF DateInv
<1>11. CASE UNCHANGED vars \/ \E c \in Concepts : PublishConcept(c)
  BY <1>0, <1>11 DEF DateInv, PublishConcept, vars, stores, locals, history
<1> QED BY <1>2, <1>3, <1>4, <1>5, <1>6, <1>7, <1>8, <1>9, <1>10, <1>11 DEF Next, Handle

\* An answer's claim about the counter, the slots or the trail stays true.
LEMMA AnswerStep ==
  ASSUME IInv, [Next]_vars
  PROVE  AnswerInv'
<1> USE WritePathAssumption DEF TypeOK, Days
<1>0. TypeOK /\ TypeOK' /\ SlotInv /\ SlotInv' /\ KindInv /\ AnswerInv
  BY TypeStep, SlotStep DEF IInv
<1>1. \A q \in Posts : AnswerHolds(q) /\ (body[q].kind = "trail" => body[q].walk \in Walks)
  BY <1>0, BodyKinds DEF AnswerInv
\* What a step of p does to the others' answers.
<1> DEFINE Others(p) == \A q \in Posts \ {p} :
                          /\ pc'[q] = pc[q] /\ resp'[q] = resp[q]
                          /\ bday'[q] = bday[q] /\ body'[q] = body[q]
           Slots(p) == /\ \A d \in Days : count[d] = Cap => count'[d] = Cap
                       /\ \A q \in Posts \ {p}, d \in Days : q \notin slots[d] => q \notin slots'[d]
           Trails == \A w \in Walks : trails[w] # None => trails'[w] # None
<1>2. ASSUME NEW p \in Posts, Others(p), Slots(p), Trails, AnswerHolds(p)' PROVE AnswerInv'
  <2>1. ASSUME NEW q \in Posts \ {p} PROVE AnswerHolds(q)'
    <3>1. /\ AnswerHolds(q) /\ bday[q] \in Days
          /\ body[q].kind = "trail" => body[q].walk \in Walks
      BY <1>0, <1>1
    <3>2. /\ pc'[q] = pc[q] /\ resp'[q] = resp[q]
          /\ bday'[q] = bday[q] /\ body'[q] = body[q]
      BY <1>2
    <3>3. /\ count[bday[q]] = Cap => count'[bday[q]] = Cap
          /\ \A d \in Days : q \notin slots[d] => q \notin slots'[d]
      BY <1>2, <3>1
    <3>4. body[q].kind = "trail" /\ trails[body[q].walk] # None => trails'[body[q].walk] # None
      BY <1>2, <3>1
    <3> QED BY <3>1, <3>2, <3>3, <3>4 DEF AnswerHolds
  <2> QED BY <1>2, <2>1 DEF AnswerInv
\* A step that touches neither ledger nor trails.
<1> DEFINE Frame == UNCHANGED <<count, slots, trails>>
<1>3. ASSUME NEW p \in Posts, Others(p), Frame, AnswerHolds(p)' PROVE AnswerInv'
  BY <1>2, <1>3
\* A step of p that answers an error, or nothing.
<1> DEFINE Moves(p, l, a) ==
             /\ Frame /\ UNCHANGED <<bday, body>>
             /\ pc[p] # "done"
             /\ pc' = [pc EXCEPT ![p] = l] /\ l # "denied"
             /\ \/ resp' = resp
                \/ resp' = [resp EXCEPT ![p] = a] /\ l = "done"
             /\ a \notin {"rateLimited", "invalid", "created"}
<1>4. ASSUME NEW p \in Posts, NEW l, NEW a, Moves(p, l, a) PROVE AnswerInv'
  <2>1. Others(p)
    BY <1>0, <1>4
  <2>2. resp[p] = "none" /\ pc'[p] = l /\ (resp'[p] = "none" \/ (resp'[p] = a /\ l = "done"))
    <3>1. resp[p] = "none"
      BY <1>0, <1>1, <1>4 DEF AnswerHolds
    <3>2. pc'[p] = l
      BY <1>0, <1>4
    <3>3. CASE resp' = resp
      BY <1>0, <3>1, <3>2, <3>3
    <3>4. CASE resp' = [resp EXCEPT ![p] = a] /\ l = "done"
      BY <1>0, <3>1, <3>2, <3>4
    <3> QED BY <1>4, <3>1, <3>3, <3>4
  <2>3. AnswerHolds(p)'
    BY <1>4, <2>2 DEF AnswerHolds
  <2> QED BY <1>3, <1>4, <2>1, <2>3
<1>5. ASSUME NEW p \in Posts, Arrive(p) PROVE AnswerInv'
  <2>1. pc[p] = "idle" /\ UNCHANGED <<count, slots, trails, bday>> /\ resp[p] = "none"
    BY <1>1, <1>5 DEF Arrive, AnswerHolds, stores, history
  <2>2. PICK b \in Bodies : /\ body' = [body EXCEPT ![p] = b]
                            /\ IF b \in BadBody THEN Answer(p, "invalid") ELSE Goto(p, "stamp")
    BY <1>5 DEF Arrive
  <2>3. Others(p)
    <3>1. CASE Answer(p, "invalid")
      BY <1>0, <2>1, <2>2, <3>1 DEF Answer
    <3>2. CASE Goto(p, "stamp")
      BY <1>0, <2>1, <2>2, <3>2 DEF Goto
    <3> QED BY <2>2, <3>1, <3>2
  <2>4. \A d \in Days : p \notin slots[d]
    BY <1>0, <2>1 DEF SlotInv, BeforeSlot
  <2>5. \/ pc'[p] = "done" /\ resp'[p] = "invalid"
        \/ pc'[p] = "stamp" /\ resp'[p] = "none"
    BY <1>0, <2>1, <2>2 DEF Goto, Answer
  <2>6. AnswerHolds(p)'
    BY <2>1, <2>4, <2>5 DEF AnswerHolds
  <2> QED BY <1>3, <2>1, <2>3, <2>6
<1>6. ASSUME NEW p \in Posts, ReadDay(p) PROVE AnswerInv'
  <2>1. pc[p] = "stamp" /\ Frame /\ pc'[p] = "txGet" /\ resp' = resp /\ Others(p)
    BY <1>0, <1>6 DEF ReadDay, Goto, stores, history
  <2>2. AnswerHolds(p)'
    BY <1>1, <2>1 DEF AnswerHolds
  <2> QED BY <1>3, <2>1, <2>2
<1>7. ASSUME NEW p \in Posts, TxGet(p) PROVE AnswerInv'
  <2>1. /\ pc[p] = "txGet" /\ Frame /\ UNCHANGED <<bday, body, resp>> /\ Others(p)
        /\ pc'[p] = IF count[bday[p]] >= Cap THEN "denied" ELSE "txCommit"
    BY <1>0, <1>7 DEF TxGet, Goto, stores, history
  <2>2. count[bday[p]] \in 0..Cap
    BY <1>0
  <2>3. AnswerHolds(p)'
    BY <1>1, <2>1, <2>2 DEF AnswerHolds
  <2> QED BY <1>3, <2>1, <2>3
<1>8. ASSUME NEW p \in Posts, TxCommit(p) PROVE AnswerInv'
  <2>1. /\ pc[p] = "txCommit" /\ resp[p] = "none" /\ seen[p] < Cap
        /\ count[bday[p]] = seen[p] /\ bday[p] \in Days
        /\ count' = [count EXCEPT ![bday[p]] = seen[p] + 1]
        /\ slots' = [slots EXCEPT ![bday[p]] = slots[bday[p]] \cup {p}]
        /\ UNCHANGED <<trails, bday, body>>
    BY <1>0, <1>1, <1>8 DEF TxCommit, AnswerHolds, SlotInv
  <2>2. Slots(p) /\ Trails
    BY <1>0, <2>1
  <2>3. CASE Goto(p, FirstCall(body[p]))
    <3>1. FirstCall(body[p]) # "denied"
      BY <1>0, <2>1, FirstCallKinds DEF KindInv, InFlight
    <3>2. Others(p) /\ AnswerHolds(p)'
      BY <1>0, <2>1, <2>3, <3>1 DEF Goto, AnswerHolds
    <3> QED BY <1>2, <2>2, <3>2
  <2>4. CASE Answer(p, "internal")
    <3>1. Others(p) /\ AnswerHolds(p)'
      BY <1>0, <2>1, <2>4 DEF Answer, AnswerHolds
    <3> QED BY <1>2, <2>2, <3>1
  <2> QED BY <1>8, <2>3, <2>4 DEF TxCommit
<1>9. ASSUME NEW p \in Posts, TxRetry(p) \/ GetConcept(p) \/ CallFails(p) \/ InstanceLost(p)
      PROVE  AnswerInv'
  <2>1. \E l \in {"txGet", "add", "done"}, a \in {"notFound", "internal", "lost"} : Moves(p, l, a)
    BY <1>9 DEF TxRetry, GetConcept, CallFails, InstanceLost, Goto, Answer, InFlight, stores, history
  <2> QED BY <2>1, <1>4
<1>10. ASSUME NEW p \in Posts, Denied(p) PROVE AnswerInv'
  <2>1. /\ pc[p] = "denied" /\ Frame /\ UNCHANGED <<bday, body>> /\ Others(p)
        /\ pc'[p] = "done" /\ resp'[p] = "rateLimited"
    BY <1>0, <1>10 DEF Denied, Answer, stores, history
  <2>2. \A d \in Days : p \notin slots[d]
    BY <1>0, <2>1 DEF SlotInv, BeforeSlot
  <2>3. AnswerHolds(p)'
    BY <1>1, <2>1, <2>2 DEF AnswerHolds
  <2> QED BY <1>3, <2>1, <2>3
<1>11. ASSUME NEW p \in Posts, GetTrail(p) PROVE AnswerInv'
  <2>1. /\ pc[p] = "getTrail" /\ Frame /\ UNCHANGED <<bday, body>> /\ Others(p)
        /\ body[p].kind = "trail"
    BY <1>0, <1>11 DEF GetTrail, Goto, Answer, KindInv, TrailCalls, stores, history
  <2>2. \/ pc'[p] = "done" /\ resp'[p] = "created" /\ trails[body[p].walk] # None
        \/ pc'[p] = "getStops" /\ resp'[p] = resp[p]
    BY <1>0, <1>11 DEF GetTrail, Goto, Answer
  <2>3. AnswerHolds(p)'
    BY <1>1, <2>1, <2>2 DEF AnswerHolds
  <2> QED BY <1>3, <2>1, <2>3
<1>12. ASSUME NEW p \in Posts, GetStops(p) PROVE AnswerInv'
  <2>1. \E l \in {"setTrail", "done"} : Moves(p, l, "missingStops")
    BY <1>12 DEF GetStops, Goto, Answer, stores, history
  <2> QED BY <2>1, <1>4
<1>13. ASSUME NEW p \in Posts, SetTrail(p) PROVE AnswerInv'
  <2>1. /\ pc[p] = "setTrail" /\ UNCHANGED <<count, slots, bday, body>>
        /\ body[p].kind = "trail" /\ body[p].walk \in Walks
    BY <1>0, <1>1, <1>13 DEF SetTrail, KindInv, TrailCalls
  <2>2. [by |-> p, created |-> stamp[p]] # None
    BY <1>0, NoneIsNoDoc
  <2>3. Trails /\ trails'[body[p].walk] # None
    BY <1>0, <1>13, <2>1, <2>2 DEF SetTrail
  <2>4. PICK a \in {"created", "internal"} : Answer(p, a)
    BY <1>13 DEF SetTrail
  <2>5. Others(p) /\ pc'[p] = "done" /\ resp'[p] = a
    BY <1>0, <2>1, <2>4 DEF Answer
  <2>6. AnswerHolds(p)'
    BY <2>1, <2>3, <2>5 DEF AnswerHolds
  <2> QED BY <1>2, <2>1, <2>3, <2>5, <2>6
<1>14. ASSUME NEW p \in Posts, Add(p) PROVE AnswerInv'
  <2>1. \E a \in {"accepted", "internal"} : Moves(p, "done", a)
    BY <1>14 DEF Add, Answer
  <2> QED BY <2>1, <1>4
<1>15. CASE UNCHANGED vars \/ Midnight \/ \E c \in Concepts : PublishConcept(c)
  <2>1. UNCHANGED <<count, slots, trails, locals>>
    BY <1>15 DEF Midnight, PublishConcept, vars, stores, locals, history
  <2> QED BY <1>0, <2>1 DEF AnswerInv, AnswerHolds, locals
<1> QED BY <1>5, <1>6, <1>7, <1>8, <1>9, <1>10, <1>11, <1>12, <1>13, <1>14, <1>15 DEF Next, Handle
-----------------------------------------------------------------------------

\* The invariant holds at the start.
LEMMA InductiveInit == Init => IInv
<1> SUFFICES ASSUME Init PROVE IInv
  OBVIOUS
<1> USE WritePathAssumption DEF Init, Days
<1>1. TypeOK
  <2>1. [kind |-> "bad"] \in Bodies
    BY DEF Bodies, BadBody
  <2> QED BY <2>1 DEF TypeOK, InFlight, Answers
<1>2. SlotInv
  BY FS_EmptySet DEF SlotInv, BeforeSlot, AfterSlot
<1>3. WroteInv /\ AnswerInv /\ KindInv /\ DateInv
  BY DEF WroteInv, AnswerInv, AnswerHolds, KindInv, DateInv, InFlight, TrailCalls
<1> QED BY <1>1, <1>2, <1>3 DEF IInv

\* The inductive invariant holds of every reachable state.
THEOREM Invariance == Spec => []IInv
<1>1. IInv /\ [Next]_vars => IInv'
  BY TypeStep, SlotStep, WroteStep, AnswerStep, KindStep, DateStep DEF IInv
<1> QED BY InductiveInit, <1>1, PTL DEF Spec

\* Type correctness, the counter's range 0..Cap included.
THEOREM TypeCorrect == Spec => []TypeOK
<1>1. IInv => TypeOK
  BY DEF IInv
<1> QED BY Invariance, <1>1, PTL

\* The counter document is the number of slots handed out, and every document
\* was paid for on the day its request read.
THEOREM Funded == Spec => []WritesAreFunded
<1>1. IInv => WritesAreFunded
  BY DEF IInv, SlotInv, WroteInv, WritesAreFunded
<1> QED BY Invariance, <1>1, PTL

\* No more than Cap requests hold a slot of a day.
LEMMA SlotsBounded ==
  ASSUME IInv, NEW d \in Days
  PROVE  IsFiniteSet(slots[d]) /\ Cardinality(slots[d]) \in 0..Cap
<1>1. slots[d] \in SUBSET Posts /\ count[d] \in 0..Cap /\ count[d] = Cardinality(slots[d])
  BY DEF IInv, TypeOK, SlotInv
<1> QED BY <1>1, WritePathAssumption, FS_Subset

\* One day's budget never pays for more than dailyCap documents.
THEOREM Budget == Spec => []BudgetHeld
<1>1. ASSUME IInv PROVE BudgetHeld
  <2>1. SUFFICES ASSUME NEW d \in Days PROVE Cardinality(ChargedTo(d)) <= Cap
    BY DEF BudgetHeld
  <2>2. ChargedTo(d) \in SUBSET slots[d]
    BY <1>1 DEF ChargedTo, IInv, TypeOK, WroteInv
  <2>3. Cardinality(ChargedTo(d)) \in Nat /\ Cardinality(ChargedTo(d)) <= Cardinality(slots[d])
    BY <1>1, <2>2, SlotsBounded, FS_Subset, FS_CardinalityType
  <2> QED BY <1>1, <2>3, SlotsBounded, WritePathAssumption
<1> QED BY Invariance, <1>1, PTL

\* Midnight moves at most one budget's worth of documents into the next day.
THEOREM TwoBudgets == Spec => []DayHoldsAtMostTwoBudgets
<1>1. ASSUME IInv PROVE DayHoldsAtMostTwoBudgets
  <2> USE WritePathAssumption
  <2>1. \A p \in wrote : p \in Posts /\ bday[p] \in Days /\ p \in slots[bday[p]]
                         /\ stamp[p] \in {bday[p], bday[p] + 1}
    BY <1>1 DEF IInv, TypeOK, WroteInv, DateInv
  <2>2. ASSUME NEW d \in Days PROVE Cardinality(DatedOn(d)) <= 2 * Cap
    <3>1. CASE d = 0
      <4>1. DatedOn(d) \in SUBSET slots[d]
        BY <2>1, <3>1 DEF DatedOn, Days
      <4>2. Cardinality(DatedOn(d)) \in Nat /\ Cardinality(DatedOn(d)) <= Cardinality(slots[d])
        BY <1>1, <4>1, SlotsBounded, FS_Subset, FS_CardinalityType
      <4> QED BY <1>1, <4>2, SlotsBounded
    <3>2. CASE d # 0
      <4>1. d - 1 \in Days
        BY <3>2 DEF Days
      <4> DEFINE Two == slots[d - 1] \cup slots[d]
      <4>2. DatedOn(d) \in SUBSET Two
        BY <2>1, <4>1 DEF DatedOn, Days
      <4>3. /\ IsFiniteSet(slots[d - 1]) /\ Cardinality(slots[d - 1]) \in 0..Cap
            /\ IsFiniteSet(slots[d]) /\ Cardinality(slots[d]) \in 0..Cap
        BY <1>1, <4>1, SlotsBounded
      <4>4. IsFiniteSet(Two) /\ Cardinality(Two) <= 2 * Cap
        <5>1. IsFiniteSet(slots[d - 1] \cap slots[d])
          BY <4>3, FS_Intersection
        <5>2. Cardinality(slots[d - 1] \cap slots[d]) \in Nat
          BY <5>1, FS_CardinalityType
        <5>3. IsFiniteSet(Two) /\ Cardinality(Two) = Cardinality(slots[d - 1]) + Cardinality(slots[d])
                                 - Cardinality(slots[d - 1] \cap slots[d])
          BY <4>3, FS_Union
        <5> QED BY <4>3, <5>2, <5>3
      <4>5. /\ Cardinality(DatedOn(d)) \in Nat /\ Cardinality(Two) \in Nat
            /\ Cardinality(DatedOn(d)) <= Cardinality(Two)
        BY <4>2, <4>4, FS_Subset, FS_CardinalityType
      <4> QED BY <4>4, <4>5
    <3> QED BY <3>1, <3>2
  <2> QED BY <2>1, <2>2 DEF DayHoldsAtMostTwoBudgets
<1> QED BY Invariance, <1>1, PTL

\* A 201's slug resolves, a budget 429 is told only when the day is spent, and
\* neither a refusal nor a retry ever costs a slot.
THEOREM HonestAnswers ==
  Spec => [](CreatedResolves /\ RateLimitedOnlyWhenSpent /\ RefusalsAreFree)
<1>1. ASSUME IInv PROVE CreatedResolves /\ RateLimitedOnlyWhenSpent /\ RefusalsAreFree
  <2>1. CreatedResolves /\ RateLimitedOnlyWhenSpent
    BY <1>1 DEF IInv, AnswerInv, AnswerHolds, CreatedResolves, RateLimitedOnlyWhenSpent
  <2>2. \A p \in Posts : resp[p] \in {"invalid", "rateLimited"} => p \notin Holders
    BY <1>1 DEF IInv, AnswerInv, AnswerHolds, Holders
  <2>3. \A d, e \in Days : d # e => slots[d] \cap slots[e] = {}
    BY <1>1 DEF IInv, SlotInv
  <2> QED BY <2>1, <2>2, <2>3 DEF RefusalsAreFree
<1> QED BY Invariance, <1>1, PTL
-----------------------------------------------------------------------------

\* The handlers implement the ledger: a commit hands a slot out, a document
\* write stores, and nothing else is visible to whoever pays.
THEOREM Refinement == Spec => LedgerSpec
<1>1. Init => Ledger!LedgerInit
  BY DEF Init, Ledger!LedgerInit
<1>2. ASSUME IInv, [Next]_vars PROVE [Ledger!LedgerNext]_(Ledger!ledgerVars)
  <2> USE DEF Ledger!ledgerVars
  <2>0. TypeOK /\ SlotInv
    BY <1>2 DEF IInv
  <2>1. ASSUME NEW p \in Posts, TxCommit(p) PROVE Ledger!LedgerNext
    <3>1. bday[p] \in Days
      BY <2>0 DEF TypeOK
    <3>2. \A d \in Days : p \notin slots[d]
      BY <2>0, <2>1 DEF TxCommit, SlotInv, BeforeSlot
    <3>3. Cardinality(slots[bday[p]]) < Cap
      <4>1. seen[p] < Cap /\ count[bday[p]] = seen[p] /\ count[bday[p]] = Cardinality(slots[bday[p]])
        BY <2>0, <2>1, <3>1 DEF TxCommit, SlotInv
      <4> QED BY <4>1
    <3>4. Ledger!Grant(p, bday[p])
      <4>1. slots' = [slots EXCEPT ![bday[p]] = slots[bday[p]] \cup {p}] /\ wrote' = wrote
        BY <2>1 DEF TxCommit
      <4> QED BY <3>2, <3>3, <4>1 DEF Ledger!Grant, Ledger!Cardinality, Cardinality
    <3> QED BY <3>1, <3>4 DEF Ledger!LedgerNext
  <2>2. ASSUME NEW p \in Posts, SetTrail(p) \/ Add(p) PROVE Ledger!LedgerNext
    <3>1. bday[p] \in Days /\ p \in slots[bday[p]]
      BY <2>0, <2>2 DEF TypeOK, SlotInv, SetTrail, Add, AfterSlot
    <3>2. Ledger!Store(p)
      BY <2>2, <3>1 DEF SetTrail, Add, Ledger!Store
    <3> QED BY <3>2 DEF Ledger!LedgerNext
  <2>3. ASSUME NEW p \in Posts,
               \/ Arrive(p) \/ ReadDay(p) \/ TxGet(p) \/ TxRetry(p) \/ Denied(p)
               \/ GetTrail(p) \/ GetStops(p) \/ GetConcept(p) \/ CallFails(p) \/ InstanceLost(p)
        PROVE  UNCHANGED <<slots, wrote>>
    BY <2>3 DEF Arrive, ReadDay, TxGet, TxRetry, Denied, GetTrail, GetStops, GetConcept,
                CallFails, InstanceLost, history
  <2>4. CASE UNCHANGED vars \/ Midnight \/ \E c \in Concepts : PublishConcept(c)
    BY <2>4 DEF Midnight, PublishConcept, vars, history
  <2> QED BY <1>2, <2>1, <2>2, <2>3, <2>4 DEF Next, Handle
<1> QED BY <1>1, <1>2, Invariance, PTL DEF Spec, LedgerSpec, Ledger!LedgerSpec

\* Who has not missed a trail before it existed never overwrites it.
THEOREM TrailSettles == Spec => SettledTrailStable
<1> DEFINE Settles == \A w \in Walks : trails[w] # None =>
                        /\ Unsettled(w)' \subseteq Unsettled(w)
                        /\ Unsettled(w) = {} => trails'[w] = trails[w]
<1>1. ASSUME IInv, [Next]_vars PROVE [Settles]_vars
  <2>0. TypeOK /\ KindInv
    BY <1>1 DEF IInv
  <2> USE DEF TypeOK
  \* A step of p that leaves the trails alone and does not start a new walk.
  <2> DEFINE Keeps(p) == /\ trails' = trails
                         /\ \A q \in Posts \ {p} : pc'[q] = pc[q] /\ body'[q] = body[q]
                         /\ pc'[p] \in {"getStops", "setTrail"} =>
                              /\ body' = body
                              /\ \/ pc[p] \in {"getStops", "setTrail"}
                                 \/ trails[body[p].walk] = None
  <2>1. ASSUME NEW p \in Posts, Keeps(p) PROVE Settles
    BY <2>1 DEF Unsettled
  <2>2. ASSUME NEW p \in Posts, Arrive(p) PROVE Keeps(p)
    <3>1. PICK b \in Bodies : /\ body' = [body EXCEPT ![p] = b]
                              /\ IF b \in BadBody THEN Answer(p, "invalid") ELSE Goto(p, "stamp")
      BY <2>2 DEF Arrive
    <3>2. \E l \in {"done", "stamp"} : pc' = [pc EXCEPT ![p] = l]
      BY <3>1 DEF Answer, Goto
    <3> QED BY <2>0, <2>2, <3>1, <3>2 DEF Arrive, stores
  <2>3. ASSUME NEW p \in Posts, ReadDay(p) \/ TxGet(p) \/ TxRetry(p) \/ Denied(p) PROVE Keeps(p)
    BY <2>0, <2>3 DEF ReadDay, TxGet, TxRetry, Denied, Goto, Answer, stores
  <2>4. ASSUME NEW p \in Posts, TxCommit(p) PROVE Keeps(p)
    <3>1. FirstCall(body[p]) \notin {"getStops", "setTrail"}
      BY <2>0, <2>4, FirstCallKinds DEF TxCommit, KindInv, InFlight
    <3>2. \E l \in {"done", FirstCall(body[p])} : pc' = [pc EXCEPT ![p] = l]
      BY <2>4 DEF TxCommit, Goto, Answer
    <3> QED BY <2>0, <2>4, <3>1, <3>2 DEF TxCommit
  <2>5. ASSUME NEW p \in Posts, GetTrail(p) \/ GetStops(p) \/ GetConcept(p) PROVE Keeps(p)
    BY <2>0, <2>5 DEF GetTrail, GetStops, GetConcept, Goto, Answer, stores
  <2>6. ASSUME NEW p \in Posts, Add(p) \/ CallFails(p) \/ InstanceLost(p) PROVE Keeps(p)
    BY <2>0, <2>6 DEF Add, CallFails, InstanceLost, Answer, stores
  <2>7. ASSUME NEW p \in Posts, SetTrail(p) PROVE Settles
    <3>1. /\ pc[p] = "setTrail" /\ body' = body
          /\ pc'[p] = "done" /\ \A q \in Posts \ {p} : pc'[q] = pc[q]
          /\ \A w \in Walks : w # body[p].walk => trails'[w] = trails[w]
      BY <2>0, <2>7 DEF SetTrail, Answer
    <3>2. p \in Unsettled(body[p].walk)
      BY <3>1 DEF Unsettled
    <3> QED BY <3>1, <3>2 DEF Unsettled
  <2>8. CASE UNCHANGED vars \/ Midnight \/ \E c \in Concepts : PublishConcept(c)
    <3>1. UNCHANGED <<trails, pc, body>>
      BY <2>8 DEF Midnight, PublishConcept, vars, stores, locals
    <3> QED BY <3>1 DEF Unsettled
  <2> QED BY <1>1, <2>1, <2>2, <2>3, <2>4, <2>5, <2>6, <2>7, <2>8 DEF Next, Handle
<1> QED BY <1>1, Invariance, PTL DEF Spec, SettledTrailStable
=============================================================================
