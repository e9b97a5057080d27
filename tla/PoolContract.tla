----------------------------- MODULE PoolContract -----------------------------
(***************************************************************************)
(* What the pool promises whoever hands it urls, stated apart from queues, *)
(* indexes, requests and timers: each url is claimed once, by a worker of  *)
(* its host, and gets one verdict, from the worker that claimed it; a host *)
(* that wants to be asked alone is; and it is over when every url has its  *)
(* verdict.                                                                *)
(***************************************************************************)
CONSTANTS
  Urls,
  Hosts,
  Host,    \* Host[u]: the host of a url
  Workers, \* <<host, number>>
  Verdicts

VARIABLES
  stage,   \* "closed", "open", "done"
  alone,   \* the hosts that want one request at a time
  left,    \* what nobody has claimed
  held,    \* held[w]: what worker w has claimed and not answered, at most one
  verdicts

poolVars == <<stage, alone, left, held, verdicts>>

PoolInit ==
  /\ stage = "closed" /\ alone = {} /\ left = {}
  /\ held = [w \in Workers |-> {}] /\ verdicts = <<>>

Open ==
  /\ stage = "closed" /\ left' \subseteq Urls /\ alone' \subseteq Hosts
  /\ stage' = IF left' = {} THEN "done" ELSE "open"
  /\ UNCHANGED <<held, verdicts>>

Claim(w, u) ==
  /\ stage = "open" /\ u \in left /\ Host[u] = w[1]
  /\ \A x \in Workers : x = w \/ (x[1] = w[1] /\ w[1] \in alone) => held[x] = {}
  /\ left' = left \ {u} /\ held' = [held EXCEPT ![w] = {u}]
  /\ UNCHANGED <<stage, alone, verdicts>>

Answer(w, u) ==
  /\ stage = "open" /\ held[w] = {u} /\ u \notin DOMAIN verdicts
  /\ \E v \in Verdicts : verdicts' = [x \in DOMAIN verdicts \cup {u} |-> IF x = u THEN v ELSE verdicts[x]]
  /\ held' = [held EXCEPT ![w] = {}]
  /\ UNCHANGED <<stage, alone, left>>

Close ==
  /\ stage = "open" /\ left = {} /\ \A w \in Workers : held[w] = {}
  /\ stage' = "done" /\ UNCHANGED <<alone, left, held, verdicts>>

PoolNext == Open \/ Close \/ \E w \in Workers, u \in Urls : Claim(w, u) \/ Answer(w, u)

PoolSpec == PoolInit /\ [][PoolNext]_poolVars
=============================================================================
