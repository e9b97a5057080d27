------------------------------- MODULE PerIP -------------------------------
(***************************************************************************)
(* The per-client shaping layer, as the middleware uses it: the address    *)
(* ClientIP finds is looked up in an LRU-bounded map of token buckets.     *)
(* Allow runs under one mutex, so it is one action.  Time is counted in    *)
(* ticks; a bucket is counted in parts of a token, one part per tick, so   *)
(* Refill parts make a token and a full bucket holds Burst * Refill.       *)
(***************************************************************************)
EXTENDS ClientIP

CONSTANTS
  MaxClients, \* Config.MaxClients
  Burst,      \* Config.Burst
  Refill,     \* ticks to earn one token: 60 seconds / PerMinute
  Second,     \* ticks in a second
  Horizon     \* bound: the last tick modelled

ASSUME PerIPAssumption ==
  /\ MaxClients \in Nat \ {0}
  /\ Burst \in Nat \ {0}
  /\ Refill \in Nat \ {0}
  /\ Second \in Nat \ {0}
  /\ Horizon \in Nat

VARIABLES
  now,     \* ticks
  order,   \* the recency list, front = most recently used
  index,   \* the addresses the map holds
  level,   \* level[k]: what is in k's bucket, in parts; meaningful while tracked
  served,  \* history: served[c], the requests of caller c allowed since `since`
  since,   \* history: when the address c was last taken on
  denied   \* history: when caller c was last denied, Never if it was served since

vars == <<now, order, index, level, served, since, denied>>

Full == Burst * Refill
Never == Horizon + 1

TypeOK ==
  /\ now \in 0..Horizon
  /\ order \in Seq(Addresses)
  /\ index \subseteq Addresses
  /\ level \in [Addresses -> 0..Full]
  /\ served \in [Callers -> Nat]
  /\ since \in [Callers -> 0..Horizon]
  /\ denied \in [Callers -> 0..Never]

Init ==
  /\ now = 0
  /\ order = <<>>
  /\ index = {}
  /\ level = [k \in Addresses |-> 0]
  /\ served = [c \in Callers |-> 0]
  /\ since = [c \in Callers |-> 0]
  /\ denied = [c \in Callers |-> Never]

-----------------------------------------------------------------------------
\* rate.Limiter on k's bucket, holding `parts`: a request of caller c, allowed
\* n times before, takes a whole token or none.
Take(c, k, parts, n) ==
  IF parts >= Refill
  THEN /\ level' = [level EXCEPT ![k] = parts - Refill]
       /\ served' = [served EXCEPT ![c] = n + 1]
       /\ denied' = [denied EXCEPT ![c] = Never]
  ELSE /\ level' = [level EXCEPT ![k] = parts]
       /\ served' = [served EXCEPT ![c] = n]
       /\ denied' = [denied EXCEPT ![c] = now]

\* An address already tracked: to the front, then one token.
Hit(c, k) ==
  /\ k \in index
  /\ \E i \in DOMAIN order : order[i] = k /\ order' = <<k>> \o RemoveAt(order, i)
  /\ Take(c, k, level[k], served[c])
  /\ UNCHANGED <<now, index, since>>

\* (Mutation: the front is evicted, not the back.)
KeptBack == IF Len(order) >= MaxClients THEN Tail(order) ELSE order

\* The addresses the eviction loop leaves: the MaxClients - 1 most recent.
Kept == SubSeq(order, 1, IF Len(order) >= MaxClients THEN MaxClients - 1 ELSE Len(order))

\* A new address: evict until there is room, then a full bucket, at the front.
Miss(c, k) ==
  /\ k \notin index
  /\ order' = <<k>> \o Kept
  /\ index' = ToSet(Kept) \cup {k}
  /\ since' = IF k = c THEN [since EXCEPT ![c] = now] ELSE since
  /\ Take(c, k, Full, IF k = c THEN 0 ELSE served[c])
  /\ UNCHANGED now

\* Under whatever header c sends, its request is shaped by the address Pick finds.
KeysOf == [c \in Callers |-> {Pick(chain) : chain \in Arrivals(c)}]
Allow(c) == \E k \in KeysOf[c] : Hit(c, k) \/ Miss(c, k)

\* Buckets fill with time, up to the burst.
Tick ==
  /\ now < Horizon
  /\ now' = now + 1
  /\ level' = [k \in Addresses |->
                 IF k \in index /\ level[k] < Full THEN level[k] + 1 ELSE level[k]]
  /\ UNCHANGED <<order, index, served, since, denied>>

Next == Tick \/ \E c \in Callers : Allow(c)

Spec == Init /\ [][Next]_vars

\* (Mutation: truncated, not rounded up.)
RetryAfterTruncated == (Refill \div Second) * Second

\* int(60 / PerMinute) + 1 seconds, in ticks.
RetryAfter == (Refill \div Second + 1) * Second

-----------------------------------------------------------------------------
\* A spray of addresses grows nothing and costs nobody else the place it earned:
\* list and map hold the same addresses, each once, never more than MaxClients,
\* and of two tracked clients the one used later outlives the other.
RecencyHolds ==
  /\ [](/\ ToSet(order) = index /\ Len(order) = Cardinality(index)
        /\ Len(order) <= MaxClients)
  /\ [][\A c, d \in index :
          /\ c # d
          /\ \E i, j \in 1..Len(order) : i < j /\ order[i] = c /\ order[j] = d
          /\ d \in index'
          => c \in index']_vars

\* While its address stays tracked, a caller is served at most its burst plus
\* what the time since has earned, however its requests are spaced and whatever
\* it writes into the header itself.
CallerLaw ==
  \A c \in Callers : served[c] * Refill <= Full + (now - since[c])

\* Nobody's token is spent by somebody else, and no proxy has a bucket, which
\* would be one bucket for every visitor.
NobodyElsePays ==
  [][\A k \in index \cap index' : level'[k] < level[k] => k \in Callers /\ served'[k] > served[k]]_vars

\* A client that waits the Retry-After it was given is served, whatever the
\* other clients did meanwhile: it is either still tracked with a token, or
\* forgotten and about to get a full bucket.
RetryAfterSuffices ==
  \A c \in index \cap Callers :
    denied[c] # Never /\ now - denied[c] >= RetryAfter => level[c] >= Refill
=============================================================================
