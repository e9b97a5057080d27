----------------------------- MODULE PerIPProofs -----------------------------
(***************************************************************************)
(* For any number of callers, proxies and tracked clients, any burst and   *)
(* rate, and whatever callers write into their headers: each is shaped by  *)
(* a bucket of its own, gets what the bucket allows and no more, and is    *)
(* served when it has waited as long as it was told.                       *)
(***************************************************************************)
EXTENDS PerIP, SequenceTheorems, FiniteSetTheorems, TLAPS

\* The first n entries of a sequence, and that none is there twice.
Entries(s, n) == {s[j] : j \in 1..n}
Once(s, n) == \A i, j \in 1..n : s[i] = s[j] => i = j

\* t is s with its i-th entry taken to the front; or with e put before it.
MovedTo(t, s, n, i) ==
  \A j \in 1..n : t[j] = IF j = 1 THEN s[i] ELSE IF j <= i THEN s[j - 1] ELSE s[j]
PutBefore(t, s, n, e) ==
  \A j \in 1..n + 1 : t[j] = IF j = 1 THEN e ELSE s[j - 1]

\* List and map hold the same addresses, those of callers, each once.
ListInv ==
  /\ index \subseteq Callers
  /\ order \in Seq(index)
  /\ index = Entries(order, Len(order))
  /\ Once(order, Len(order))
  /\ Len(order) <= MaxClients

\* What a caller was served and what is left in its bucket come out of a full
\* bucket and the time since.
LawInv ==
  /\ CallerLaw
  /\ \A c \in index : served[c] * Refill + level[c] <= Full + (now - since[c])
  /\ \A c \in Callers : since[c] <= now

\* The bucket of a caller that was denied has filled ever since.
WaitInv ==
  \A c \in index :
    denied[c] # Never => denied[c] <= now /\ (level[c] >= Full \/ level[c] >= now - denied[c])

IInv == TypeOK /\ ListInv /\ LawInv /\ WaitInv

-----------------------------------------------------------------------------
\* What ClientIP finds.

\* The largest of a set of numbers that has one.
LEMMA MaxOfIs ==
  ASSUME NEW S \in SUBSET Nat, NEW m \in S, \A i \in S : i <= m
  PROVE  MaxOf(S) = m
<1>1. MaxOf(S) \in S /\ \A j \in S : j <= MaxOf(S)
  BY DEF MaxOf
<1>2. MaxOf(S) <= m /\ m <= MaxOf(S)
  BY <1>1
<1>3. MaxOf(S) \in Nat /\ m \in Nat
  BY <1>1
<1> QED BY <1>2, <1>3

\* Where the entries of a chain are: what was sent, the caller, what was appended.
LEMMA Joined ==
  ASSUME NEW S, NEW f \in Seq(S), NEW c \in S, NEW p \in Seq(S)
  PROVE  /\ Len(f \o <<c>> \o p) = Len(f) + 1 + Len(p)
         /\ (f \o <<c>> \o p)[Len(f) + 1] = c
         /\ Len(p) > 0 => (f \o <<c>> \o p)[Len(f) + 2] = p[1]
<1> DEFINE g == f \o <<c>>
<1>1. <<c>> \in Seq(S) /\ Len(<<c>>) = 1 /\ <<c>>[1] = c
  OBVIOUS
<1>2. Len(f) \in Nat /\ Len(p) \in Nat
  BY LenProperties
<1>3. g \in Seq(S) /\ Len(g) = Len(f) + 1 /\ g[Len(f) + 1] = c
  BY <1>1, <1>2, ConcatProperties
<1> HIDE DEF g
<1>4. /\ Len(g \o p) = Len(g) + Len(p)
      /\ \A i \in 1..Len(g) + Len(p) : (g \o p)[i] = IF i <= Len(g) THEN g[i] ELSE p[i - Len(g)]
  BY <1>3, ConcatProperties
<1>5. /\ Len(g \o p) = Len(f) + 1 + Len(p) /\ (g \o p)[Len(f) + 1] = c
      /\ Len(p) > 0 => (g \o p)[Len(f) + 2] = p[1]
  BY <1>2, <1>3, <1>4
<1> QED BY <1>5 DEF g

\* The proxies append one entry each, perhaps after an empty one.
LEMMA Appended ==
  ASSUME NEW p \in Proxied
  PROVE  /\ p \in Seq(Addresses)
         /\ Len(p) = Hops \/ (Len(p) = Hops + 1 /\ p[1] = Empty)
<1>1. ASSUME NEW peers \in Peers PROVE peers \in Seq(Addresses) /\ Len(peers) = Hops
  BY ClientIPAssumption DEF Peers, Addresses
<1>2. ASSUME NEW peers \in Peers, p = <<Empty>> \o peers
      PROVE  p \in Seq(Addresses) /\ Len(p) = Hops + 1 /\ p[1] = Empty
  <2>1. <<Empty>> \in Seq(Addresses) /\ Len(<<Empty>>) = 1 /\ <<Empty>>[1] = Empty
    BY DEF Addresses
  <2>2. /\ <<Empty>> \o peers \in Seq(Addresses) /\ Len(<<Empty>> \o peers) = 1 + Hops
        /\ (<<Empty>> \o peers)[1] = Empty
    BY <1>1, <2>1, ConcatProperties, ClientIPAssumption
  <2> QED BY <1>2, <2>2, ClientIPAssumption
<1> QED BY <1>1, <1>2 DEF Proxied

\* Whatever header the caller sends through the proxies, the address the walk
\* stops at is the caller's own (ClientIP).
LEMMA KeyIsCaller ==
  ASSUME NEW c \in Callers, NEW chain \in Arrivals(c)
  PROVE  Pick(chain) = c
<1> USE ClientIPAssumption
<1>1. c # Empty /\ c \in Addresses
  BY DEF Addresses
<1>2. CASE chain = <<c>>
  <2>1. Len(chain) = 1 /\ chain[1] = c
    BY <1>2
  <2>2. Start(chain) \in {0, 1}
    BY <2>1 DEF Start
  <2>3. Named(chain, 0) = {} /\ Named(chain, 1) = {1}
    BY <1>1, <2>1 DEF Named
  <2>4. MaxOf({1}) = 1 /\ MinOf({1}) = 1
    BY DEF MaxOf, MinOf
  <2> QED BY <2>1, <2>2, <2>3, <2>4 DEF Pick
<1>3. ASSUME NEW f \in Forged, NEW p \in Proxied, chain = f \o <<c>> \o p
      PROVE  Pick(chain) = c
  <2>1. f \in Seq(Addresses) /\ Len(f) \in Nat
    <3>1. PICK m \in 0..MaxForged : f \in [1..m -> Callers \cup {Empty}]
      BY DEF Forged, SeqOf
    <3> QED BY <3>1 DEF Addresses
  <2>2. p \in Seq(Addresses) /\ (Len(p) = Hops \/ (Len(p) = Hops + 1 /\ p[1] = Empty))
    BY Appended
  <2>3. /\ Len(chain) = Len(f) + 1 + Len(p) /\ chain[Len(f) + 1] = c
        /\ Len(p) > 0 => chain[Len(f) + 2] = p[1]
    BY <1>1, <1>3, <2>1, <2>2, Joined
  <2>4. \/ Start(chain) = Len(f) + 1
        \/ Start(chain) = Len(f) + 2 /\ chain[Len(f) + 2] = Empty
    BY <2>1, <2>2, <2>3 DEF Start
  <2> DEFINE left == Named(chain, Start(chain))
  <2>5. Len(f) + 1 \in left /\ left \in SUBSET Nat /\ \A i \in left : i <= Len(f) + 1
    BY <1>1, <2>1, <2>3, <2>4 DEF Named
  <2>6. MaxOf(left) = Len(f) + 1
    BY <2>5, MaxOfIs
  <2>7. Pick(chain) = chain[MaxOf(left)]
    BY <2>5 DEF Pick
  <2> QED BY <2>3, <2>6, <2>7
<1>4. chain = <<c>> \/ \E f \in Forged, p \in Proxied : chain = f \o <<c>> \o p
  BY DEF Arrivals
<1> QED BY <1>2, <1>3, <1>4

\* So a request is always shaped by its caller's own bucket.
LEMMA OwnBucket ==
  ASSUME NEW c \in Callers, Allow(c)
  PROVE  Hit(c, c) \/ Miss(c, c)
BY KeyIsCaller DEF Allow, KeysOf

-----------------------------------------------------------------------------
\* The bucket.

\* A full bucket holds a token, and the wait that is told is long enough for one.
LEMMA Bounds ==
  /\ Full \in Nat /\ Full >= Refill
  /\ RetryAfter \in Nat /\ RetryAfter >= Refill
<1> USE PerIPAssumption
<1>1. Full \in Nat /\ Full >= Refill
  BY DEF Full
<1>2. Refill \div Second \in Nat /\ (Refill \div Second + 1) * Second >= Refill
  OBVIOUS
<1> QED BY <1>1, <1>2 DEF RetryAfter

\* A request leaves the clock alone, and sets the caller's own bucket: it takes a
\* token out of it, or notes that there was none.
LEMMA Taken ==
  ASSUME TypeOK, NEW c \in Callers, NEW parts \in 0..Full, NEW n \in Nat, Take(c, c, parts, n)
  PROVE  /\ level' \in [Addresses -> 0..Full] /\ served' \in [Callers -> Nat]
         /\ denied' \in [Callers -> 0..Never]
         /\ \A k \in Addresses \ {c} : level'[k] = level[k]
         /\ \A d \in Callers \ {c} : served'[d] = served[d] /\ denied'[d] = denied[d]
         /\ \/ /\ parts >= Refill /\ level'[c] = parts - Refill
               /\ served'[c] = n + 1 /\ denied'[c] = Never
            \/ /\ parts < Refill /\ level'[c] = parts
               /\ served'[c] = n /\ denied'[c] = now
<1> USE PerIPAssumption, Bounds DEF TypeOK, Never
<1>1. c \in Addresses
  BY DEF Addresses
<1>2. CASE parts >= Refill
  <2>1. /\ level' = [level EXCEPT ![c] = parts - Refill]
        /\ served' = [served EXCEPT ![c] = n + 1] /\ denied' = [denied EXCEPT ![c] = Never]
    BY <1>2 DEF Take
  <2> QED BY <1>1, <1>2, <2>1
<1>3. CASE ~(parts >= Refill)
  <2>1. /\ level' = [level EXCEPT ![c] = parts]
        /\ served' = [served EXCEPT ![c] = n] /\ denied' = [denied EXCEPT ![c] = now]
    BY <1>3 DEF Take
  <2> QED BY <1>1, <1>3, <2>1
<1> QED BY <1>2, <1>3

\* A sequence with an entry taken to its front.
LEMMA ToFront ==
  ASSUME NEW S, NEW s \in Seq(S), NEW i \in 1..Len(s), NEW t, t = <<s[i]>> \o RemoveAt(s, i)
  PROVE  t \in Seq(S) /\ Len(t) = Len(s) /\ MovedTo(t, s, Len(s), i)
<1>1. Len(s) \in Nat /\ \A j \in 1..Len(s) : s[j] \in S
  BY LenProperties
<1> DEFINE front == SubSeq(s, 1, i - 1)
           back  == SubSeq(s, i + 1, Len(s))
<1>2. /\ front \in Seq(S) /\ Len(front) = i - 1
      /\ \A j \in 1..i - 1 : front[j] = s[j]
  <2>1. i - 1 \in Int /\ \A j \in 1..i - 1 : s[j] \in S
    BY <1>1
  <2>2. /\ front \in Seq(S) /\ Len(front) = IF 1 <= i - 1 THEN i - 1 - 1 + 1 ELSE 0
        /\ \A j \in 1..i - 1 - 1 + 1 : front[j] = s[1 + j - 1]
    BY <2>1, SubSeqProperties
  <2> HIDE DEF front
  <2> QED BY <1>1, <2>2
<1>3. /\ back \in Seq(S) /\ Len(back) = Len(s) - i
      /\ \A j \in 1..Len(s) - i : back[j] = s[i + j]
  <2>1. i + 1 \in Int /\ Len(s) \in Int /\ \A j \in i + 1..Len(s) : s[j] \in S
    BY <1>1
  <2>2. /\ back \in Seq(S) /\ Len(back) = IF i + 1 <= Len(s) THEN Len(s) - (i + 1) + 1 ELSE 0
        /\ \A j \in 1..Len(s) - (i + 1) + 1 : back[j] = s[i + 1 + j - 1]
    BY <2>1, SubSeqProperties
  <2> HIDE DEF back
  <2> QED BY <1>1, <2>2
<1> HIDE DEF front, back
<1> DEFINE rest == front \o back
<1>4. /\ rest \in Seq(S) /\ Len(rest) = Len(s) - 1
      /\ \A j \in 1..Len(s) - 1 : rest[j] = IF j <= i - 1 THEN s[j] ELSE s[j + 1]
  <2>1. /\ rest \in Seq(S) /\ Len(rest) = Len(front) + Len(back)
        /\ \A j \in 1..Len(front) + Len(back) :
             rest[j] = IF j <= Len(front) THEN front[j] ELSE back[j - Len(front)]
    BY <1>2, <1>3, ConcatProperties
  <2> HIDE DEF rest
  <2>2. Len(rest) = Len(s) - 1
    BY <1>1, <1>2, <1>3, <2>1
  <2>3. ASSUME NEW j \in 1..Len(s) - 1 PROVE rest[j] = IF j <= i - 1 THEN s[j] ELSE s[j + 1]
    <3>1. rest[j] = IF j <= i - 1 THEN front[j] ELSE back[j - (i - 1)]
      BY <1>1, <1>2, <1>3, <2>1
    <3>2. CASE j <= i - 1
      BY <1>1, <1>2, <3>1, <3>2
    <3>3. CASE ~(j <= i - 1)
      <4>1. j - (i - 1) \in 1..Len(s) - i /\ i + (j - (i - 1)) = j + 1
        BY <1>1, <3>3
      <4> QED BY <1>3, <3>1, <3>3, <4>1
    <3> QED BY <3>2, <3>3
  <2> QED BY <2>1, <2>2, <2>3
<1> HIDE DEF rest
<1>5. t = <<s[i]>> \o rest
  BY DEF RemoveAt, rest, front, back
<1>6. /\ t \in Seq(S) /\ Len(t) = Len(s)
      /\ \A j \in 1..Len(s) : t[j] = IF j = 1 THEN s[i] ELSE IF j <= i THEN s[j - 1] ELSE s[j]
  <2> DEFINE one == <<s[i]>>
  <2>1. one \in Seq(S) /\ Len(one) = 1 /\ one[1] = s[i]
    BY <1>1
  <2>2. t = one \o rest
    BY <1>5
  <2> HIDE DEF one
  <2>3. /\ t \in Seq(S) /\ Len(t) = Len(one) + Len(rest)
        /\ \A j \in 1..Len(one) + Len(rest) :
             t[j] = IF j <= Len(one) THEN one[j] ELSE rest[j - Len(one)]
    <3>1. one \in Seq(S) /\ rest \in Seq(S)
      BY <1>4, <2>1
    <3>2. /\ one \o rest \in Seq(S) /\ Len(one \o rest) = Len(one) + Len(rest)
          /\ \A j \in 1..Len(one) + Len(rest) :
               (one \o rest)[j] = IF j <= Len(one) THEN one[j] ELSE rest[j - Len(one)]
      BY <3>1, ConcatProperties
    <3> QED BY <2>2, <3>2, Zenon
  <2> QED BY <1>1, <1>4, <2>1, <2>3
<1> QED BY <1>6 DEF MovedTo

\* A new front before the first n entries of a sequence.
LEMMA Pushed ==
  ASSUME NEW S, NEW s \in Seq(S), NEW n \in 0..Len(s), NEW e, NEW t, t = <<e>> \o SubSeq(s, 1, n)
  PROVE  /\ ToSet(SubSeq(s, 1, n)) = Entries(s, n) /\ Entries(s, n) \subseteq S
         /\ t \in Seq(Entries(s, n) \cup {e}) /\ Len(t) = n + 1 /\ PutBefore(t, s, n, e)
<1> DEFINE kept == SubSeq(s, 1, n)
           T    == Entries(s, n)
<1>1. /\ Len(s) \in Nat /\ \A j \in 1..Len(s) : s[j] \in S
      /\ T \subseteq S /\ \A j \in 1..n : s[j] \in T
  BY LenProperties DEF Entries
<1>2. /\ kept \in Seq(T) /\ Len(kept) = n
      /\ \A j \in 1..n : kept[j] = s[j]
  <2>1. n \in Int /\ 1 \in Int
    BY <1>1
  <2>2. /\ kept \in Seq(T) /\ Len(kept) = IF 1 <= n THEN n - 1 + 1 ELSE 0
        /\ \A j \in 1..n - 1 + 1 : kept[j] = s[1 + j - 1]
    BY <1>1, <2>1, SubSeqProperties
  <2> HIDE DEF kept, T
  <2> QED BY <1>1, <2>2
<1>3. t = <<e>> \o kept
  OBVIOUS
<1> HIDE DEF kept
<1>4. ToSet(kept) = T
  <2>1. DOMAIN kept = 1..n
    BY <1>2, LenProperties
  <2> QED BY <1>1, <1>2, <2>1 DEF ToSet, Entries
<1> HIDE DEF T
<1> DEFINE one == <<e>>
<1>5. one \in Seq(T \cup {e}) /\ Len(one) = 1 /\ one[1] = e
  OBVIOUS
<1>6. t = one \o kept
  BY <1>3
<1> HIDE DEF one
<1>7. kept \in Seq(T \cup {e})
  BY <1>2, SeqMonotonic
<1>8. /\ one \o kept \in Seq(T \cup {e}) /\ Len(one \o kept) = Len(one) + Len(kept)
      /\ \A j \in 1..Len(one) + Len(kept) :
           (one \o kept)[j] = IF j <= Len(one) THEN one[j] ELSE kept[j - Len(one)]
  BY <1>5, <1>7, ConcatProperties
<1>9. t \in Seq(T \cup {e}) /\ Len(t) = n + 1
  BY <1>1, <1>2, <1>5, <1>6, <1>8
<1>10. ASSUME NEW j \in 1..n + 1 PROVE t[j] = IF j = 1 THEN e ELSE s[j - 1]
  <2>1. t[j] = IF j <= 1 THEN one[j] ELSE kept[j - 1]
    BY <1>1, <1>2, <1>5, <1>6, <1>8
  <2> QED BY <1>1, <1>2, <1>5, <2>1
<1> QED BY <1>1, <1>4, <1>9, <1>10 DEF kept, T, PutBefore

\* What goes to the front takes no entry away and repeats none.
LEMMA Rotated ==
  ASSUME NEW n \in Nat, NEW i \in 1..n, NEW s, NEW t, MovedTo(t, s, n, i)
  PROVE  Entries(t, n) = Entries(s, n) /\ (Once(s, n) => Once(t, n))
<1> DEFINE from(x) == IF x = 1 THEN i ELSE IF x <= i THEN x - 1 ELSE x
<1>1. \A x \in 1..n : from(x) \in 1..n /\ t[x] = s[from(x)]
  BY DEF MovedTo
<1>2. ASSUME NEW m \in 1..n PROVE \E j \in 1..n : from(j) = m
  <2>1. CASE m = i
    <3>1. 1 \in 1..n /\ from(1) = m
      BY <2>1
    <3> QED BY <3>1
  <2>2. CASE m < i
    <3>1. m + 1 \in 1..n /\ from(m + 1) = m
      BY <2>2
    <3> QED BY <3>1
  <2>3. CASE m > i
    <3>1. from(m) = m
      BY <2>3
    <3> QED BY <3>1
  <2> QED BY <2>1, <2>2, <2>3
<1>3. \A m, j \in 1..n : from(m) = from(j) => m = j
  OBVIOUS
<1> HIDE DEF from
<1>4. Entries(t, n) = Entries(s, n)
  BY <1>1, <1>2 DEF Entries
<1>5. Once(s, n) => Once(t, n)
  BY <1>1, <1>3 DEF Once
<1> QED BY <1>4, <1>5

\* The same of a new front, where it is new.
LEMMA PushedOnce ==
  ASSUME NEW n \in Nat, NEW s, NEW t, NEW e, PutBefore(t, s, n, e)
  PROVE  /\ Entries(t, n + 1) = Entries(s, n) \cup {e}
         /\ Once(s, n) /\ e \notin Entries(s, n) => Once(t, n + 1)
<1>1. 1 \in 1..n + 1 /\ t[1] = e
  BY DEF PutBefore
<1>2. \A x \in 1..n + 1 : x # 1 => x - 1 \in 1..n /\ t[x] = s[x - 1]
  BY DEF PutBefore
<1>3. \A m \in 1..n : m + 1 \in 1..n + 1 /\ t[m + 1] = s[m]
  BY DEF PutBefore
<1>4. Entries(t, n + 1) = Entries(s, n) \cup {e}
  BY <1>1, <1>2, <1>3 DEF Entries
<1>5. ASSUME Once(s, n), e \notin Entries(s, n), NEW m \in 1..n + 1, NEW j \in 1..n + 1, t[m] = t[j]
      PROVE  m = j
  <2>1. \A x \in 1..n + 1 : x # 1 => t[x] # e
    BY <1>2, <1>5 DEF Entries
  <2>2. CASE m # 1 /\ j # 1
    <3>1. m - 1 = j - 1
      BY <1>2, <1>5, <2>2 DEF Once
    <3> QED BY <3>1
  <2>3. CASE m = 1 \/ j = 1
    BY <1>1, <1>5, <2>1, <2>3
  <2> QED BY <2>2, <2>3
<1>6. Once(s, n) /\ e \notin Entries(s, n) => Once(t, n + 1)
  BY <1>5 DEF Once
<1> QED BY <1>4, <1>6

-----------------------------------------------------------------------------
\* A tracked address goes to the front, and the map stays as it is.
LEMMA HitList ==
  ASSUME ListInv, NEW k \in index, UNCHANGED index,
         \E i \in DOMAIN order : order[i] = k /\ order' = <<k>> \o RemoveAt(order, i)
  PROVE  ListInv'
<1>1. order \in Seq(index) /\ Len(order) \in Nat /\ DOMAIN order = 1..Len(order)
  BY LenProperties DEF ListInv
<1>2. PICK i \in 1..Len(order) : order' = <<order[i]>> \o RemoveAt(order, i)
  BY <1>1
<1>3. order' \in Seq(index) /\ Len(order') = Len(order) /\ MovedTo(order', order, Len(order), i)
  BY <1>1, <1>2, ToFront
<1>4. /\ Entries(order', Len(order)) = Entries(order, Len(order))
      /\ Once(order, Len(order)) => Once(order', Len(order))
  BY <1>1, <1>3, Rotated
<1> QED BY <1>3, <1>4 DEF ListInv

\* A new address takes the front, and those that no longer fit are forgotten.
LEMMA MissList ==
  ASSUME ListInv, NEW k \in Callers, k \notin index,
         order' = <<k>> \o Kept, index' = ToSet(Kept) \cup {k}
  PROVE  /\ ListInv'
         /\ \E n \in 0..Len(order) : index' = Entries(order, n) \cup {k}
<1>1. order \in Seq(index) /\ Len(order) \in Nat
  BY LenProperties DEF ListInv
<1> DEFINE n == IF Len(order) >= MaxClients THEN MaxClients - 1 ELSE Len(order)
<1>2. n \in Nat /\ n \in 0..Len(order) /\ n + 1 <= MaxClients
  BY <1>1, PerIPAssumption
<1>3. Kept = SubSeq(order, 1, n)
  BY DEF Kept
<1> HIDE DEF n
<1>4. /\ ToSet(Kept) = Entries(order, n) /\ Entries(order, n) \subseteq index
      /\ order' \in Seq(Entries(order, n) \cup {k}) /\ Len(order') = n + 1
      /\ PutBefore(order', order, n, k)
  <2>1. order' = <<k>> \o SubSeq(order, 1, n)
    BY <1>3
  <2>2. /\ ToSet(SubSeq(order, 1, n)) = Entries(order, n) /\ Entries(order, n) \subseteq index
        /\ order' \in Seq(Entries(order, n) \cup {k}) /\ Len(order') = n + 1
        /\ PutBefore(order', order, n, k)
    BY <1>1, <1>2, <2>1, Pushed, Zenon
  <2> QED BY <1>3, <2>2
<1>5. Once(order, n) /\ k \notin Entries(order, n)
  BY <1>1, <1>2, <1>4 DEF ListInv, Once
<1>6. Entries(order', n + 1) = Entries(order, n) \cup {k} /\ Once(order', n + 1)
  BY <1>2, <1>4, <1>5, PushedOnce
<1>7. index' = Entries(order, n) \cup {k} /\ index' \subseteq Callers
  BY <1>4 DEF ListInv
<1>8. ListInv'
  BY <1>2, <1>4, <1>6, <1>7 DEF ListInv
<1> QED BY <1>2, <1>7, <1>8

-----------------------------------------------------------------------------
\* The step of a request whose address is tracked.
LEMMA HitStep ==
  ASSUME IInv, NEW c \in Callers, Hit(c, c)
  PROVE  /\ IInv'
         /\ \A k \in index : level'[k] < level[k] => k = c /\ served'[k] > served[k]
<1> USE PerIPAssumption, Bounds
<1>1. /\ c \in index /\ UNCHANGED <<now, index, since>>
      /\ Take(c, c, level[c], served[c])
      /\ ListInv'
  BY HitList DEF Hit, IInv
<1>2. c \in Addresses /\ index \subseteq Callers /\ Callers \subseteq Addresses
  BY DEF Addresses, IInv, ListInv
<1>3. /\ now \in 0..Horizon /\ level[c] \in 0..Full /\ served[c] \in Nat
      /\ \A k \in index : level[k] \in Nat
  BY <1>2 DEF IInv, TypeOK
<1>4. /\ level' \in [Addresses -> 0..Full] /\ served' \in [Callers -> Nat]
      /\ denied' \in [Callers -> 0..Never]
      /\ \A k \in Addresses \ {c} : level'[k] = level[k]
      /\ \A d \in Callers \ {c} : served'[d] = served[d] /\ denied'[d] = denied[d]
      /\ \/ /\ level[c] >= Refill /\ level'[c] = level[c] - Refill
            /\ served'[c] = served[c] + 1 /\ denied'[c] = Never
         \/ /\ level[c] < Refill /\ level'[c] = level[c]
            /\ served'[c] = served[c] /\ denied'[c] = now
  BY <1>1, <1>3, Taken DEF IInv
<1>5. TypeOK'
  <2>1. order' \in Seq(Addresses)
    BY <1>1, <1>2, SeqMonotonic DEF ListInv
  <2> QED BY <1>1, <1>2, <1>4, <2>1 DEF IInv, TypeOK
<1>6. LawInv'
  <2>1. served'[c] * Refill + level'[c] = served[c] * Refill + level[c]
    BY <1>3, <1>4
  <2>2. /\ served[c] * Refill + level[c] <= Full + (now - since[c])
        /\ level'[c] \in Nat /\ served'[c] * Refill \in Nat /\ since[c] \in Nat
    BY <1>1, <1>2, <1>3, <1>4 DEF IInv, LawInv, TypeOK
  <2>3. served'[c] * Refill <= Full + (now - since[c])
    BY <1>3, <2>1, <2>2
  <2> QED BY <1>1, <1>2, <1>4, <2>1, <2>2, <2>3 DEF IInv, LawInv, CallerLaw
<1>7. WaitInv'
  BY <1>1, <1>2, <1>3, <1>4 DEF IInv, WaitInv, Never
<1>8. \A k \in index : level'[k] < level[k] => k = c /\ served'[k] > served[k]
  BY <1>2, <1>3, <1>4
<1> QED BY <1>1, <1>5, <1>6, <1>7, <1>8 DEF IInv

\* The step of a request whose address is new.
LEMMA MissStep ==
  ASSUME IInv, NEW c \in Callers, Miss(c, c)
  PROVE  /\ IInv'
         /\ \E n \in 0..Len(order) : index' = Entries(order, n) \cup {c}
         /\ \A k \in index : level'[k] = level[k]
<1> USE PerIPAssumption, Bounds
<1>1. /\ c \notin index /\ now' = now
      /\ since' = [since EXCEPT ![c] = now]
      /\ Take(c, c, Full, 0)
  BY DEF Miss
<1>2. ListInv' /\ \E n \in 0..Len(order) : index' = Entries(order, n) \cup {c}
  BY MissList DEF Miss, IInv
<1>3. c \in Addresses /\ index \subseteq Callers /\ Callers \subseteq Addresses /\ now \in 0..Horizon
  BY DEF Addresses, IInv, ListInv, TypeOK
<1>4. /\ level' \in [Addresses -> 0..Full] /\ served' \in [Callers -> Nat]
      /\ denied' \in [Callers -> 0..Never]
      /\ \A k \in Addresses \ {c} : level'[k] = level[k]
      /\ \A d \in Callers \ {c} : served'[d] = served[d] /\ denied'[d] = denied[d]
      /\ level'[c] = Full - Refill /\ served'[c] = 1 /\ denied'[c] = Never
  BY <1>1, Taken DEF IInv
<1>5. /\ since' \in [Callers -> 0..Horizon] /\ since'[c] = now
      /\ \A d \in Callers \ {c} : since'[d] = since[d]
  BY <1>1, <1>3 DEF IInv, TypeOK
<1>6. TypeOK'
  <2>1. order' \in Seq(Addresses) /\ index' \subseteq Addresses
    BY <1>2, <1>3, SeqMonotonic DEF ListInv
  <2> QED BY <1>1, <1>3, <1>4, <1>5, <2>1 DEF IInv, TypeOK
<1>7. index' \subseteq index \cup {c}
  <2>1. Len(order) \in Nat /\ \A j \in 1..Len(order) : order[j] \in index
    BY LenProperties DEF IInv, ListInv
  <2> QED BY <1>2, <2>1 DEF Entries
<1>8. LawInv'
  <2>1. served'[c] * Refill + level'[c] <= Full + (now - since'[c])
    BY <1>3, <1>4, <1>5
  <2>2. served'[c] * Refill <= Full + (now - since'[c])
    BY <1>3, <1>4, <1>5
  <2> QED BY <1>1, <1>3, <1>4, <1>5, <1>7, <2>1, <2>2 DEF IInv, LawInv, CallerLaw
<1>9. WaitInv'
  BY <1>1, <1>3, <1>4, <1>7 DEF IInv, WaitInv
<1>10. \A k \in index : level'[k] = level[k]
  BY <1>1, <1>3, <1>4
<1> QED BY <1>2, <1>6, <1>8, <1>9, <1>10 DEF IInv

\* The step of the clock.
LEMMA TickStep ==
  ASSUME IInv, Tick
  PROVE  IInv' /\ UNCHANGED <<order, index, served>> /\ \A k \in index : level'[k] >= level[k]
<1> USE PerIPAssumption, Bounds
<1>1. now \in 0..Horizon /\ now' = now + 1 /\ now' \in 0..Horizon /\ now' # Never
  BY DEF Tick, IInv, TypeOK, Never
<1>2. UNCHANGED <<order, index, served, since, denied>>
  BY DEF Tick
<1>3. /\ level' \in [Addresses -> 0..Full] /\ index \subseteq Callers /\ Callers \subseteq Addresses
      /\ \A k \in index : /\ level[k] \in 0..Full
                          /\ level'[k] = IF level[k] < Full THEN level[k] + 1 ELSE level[k]
  BY DEF Tick, IInv, TypeOK, ListInv, Addresses
<1>4. TypeOK'
  BY <1>1, <1>2, <1>3 DEF IInv, TypeOK
<1>5. LawInv'
  <2>1. \A c \in Callers : served[c] * Refill \in Nat /\ since[c] \in Nat
    BY DEF IInv, TypeOK
  <2>2. CallerLaw'
    BY <1>1, <1>2, <2>1 DEF IInv, LawInv, CallerLaw
  <2>3. ASSUME NEW c \in index PROVE served[c] * Refill + level'[c] <= Full + (now' - since[c])
    BY <1>1, <1>3, <2>1 DEF IInv, LawInv
  <2> QED BY <1>1, <1>2, <2>1, <2>2, <2>3 DEF IInv, LawInv
<1>6. WaitInv'
  <2>1. \A c \in index : denied[c] \in 0..Never
    BY <1>3 DEF IInv, TypeOK
  <2> QED BY <1>1, <1>2, <1>3, <2>1 DEF IInv, WaitInv
<1>7. ListInv'
  BY <1>2 DEF IInv, ListInv
<1> QED BY <1>2, <1>3, <1>4, <1>5, <1>6, <1>7 DEF IInv

\* Nobody has been served at first, and nobody is tracked.
LEMMA InductiveInit == Init => IInv
BY PerIPAssumption, Bounds, EmptySeq
   DEF Init, IInv, TypeOK, ListInv, LawInv, WaitInv, CallerLaw, Entries, Once, Never

\* Every step keeps the invariant.
LEMMA InductiveStep == IInv /\ [Next]_vars => IInv'
<1>1. CASE UNCHANGED vars
  BY <1>1 DEF vars, IInv, TypeOK, ListInv, LawInv, WaitInv, CallerLaw
<1> QED BY <1>1, OwnBucket, HitStep, MissStep, TickStep DEF Next

-----------------------------------------------------------------------------
\* The invariant holds of every behaviour.
THEOREM Invariance == Spec => []IInv
BY InductiveInit, InductiveStep, PTL DEF Spec

\* While it is tracked, no caller gets more than its burst and its rate, however its
\* requests are spaced and whatever it writes into the header (Allow, ClientIP).
THEOREM CallersGetTheirRate == Spec => []CallerLaw
<1>1. IInv => CallerLaw
  BY DEF IInv, LawInv
<1> QED BY Invariance, <1>1, PTL

\* The wait a denied client is told (RetryAfter) is enough to be served after it.
THEOREM WaitingIsEnough == Spec => []RetryAfterSuffices
<1>1. IInv => RetryAfterSuffices
  <2> SUFFICES ASSUME IInv, NEW c \in index \cap Callers, denied[c] # Never, now - denied[c] >= RetryAfter
               PROVE  level[c] >= Refill
    BY DEF RetryAfterSuffices
  <2>1. level[c] >= Full \/ level[c] >= now - denied[c]
    BY DEF IInv, WaitInv
  <2>2. level[c] \in 0..Full /\ now \in 0..Horizon /\ denied[c] \in 0..Never
    BY DEF IInv, TypeOK, Addresses
  <2> QED BY <2>1, <2>2, Bounds, PerIPAssumption DEF Never
<1> QED BY Invariance, <1>1, PTL

\* A bucket only loses a token to a request of its own caller that is served.
THEOREM NobodyPays == Spec => NobodyElsePays
<1> DEFINE A == \A k \in index \cap index' :
                  level'[k] < level[k] => k \in Callers /\ served'[k] > served[k]
<1>1. IInv /\ [Next]_vars => [A]_vars
  <2> SUFFICES ASSUME IInv, Next PROVE A
    OBVIOUS
  <2>1. \A k \in index : level[k] \in Nat
    BY Bounds DEF IInv, TypeOK, Addresses
  <2>2. CASE Tick
    <3>1. level' \in [Addresses -> 0..Full]
      BY <2>2, TickStep DEF IInv, TypeOK
    <3> QED BY <2>1, <2>2, <3>1, TickStep, Bounds DEF IInv, TypeOK
  <2>3. ASSUME NEW c \in Callers, Hit(c, c) PROVE A
    BY <2>3, HitStep
  <2>4. ASSUME NEW c \in Callers, Miss(c, c) PROVE A
    BY <2>1, <2>4, MissStep
  <2> QED BY <2>2, <2>3, <2>4, OwnBucket DEF Next
<1> QED BY Invariance, <1>1, PTL DEF Spec, NobodyElsePays

\* The list holds each address of the map once.
LEMMA CountedOnce ==
  ASSUME ListInv
  PROVE  ToSet(order) = index /\ Len(order) = Cardinality(index) /\ Len(order) <= MaxClients
<1>1. /\ order \in [1..Len(order) -> index] /\ Len(order) \in Nat /\ DOMAIN order = 1..Len(order)
  BY LenProperties DEF ListInv
<1>2. order \in Bijection(1..Len(order), index)
  BY <1>1 DEF ListInv, Entries, Once, Bijection, Injection, Surjection, IsInjective
<1>3. IsFiniteSet(1..Len(order)) /\ Cardinality(1..Len(order)) = Len(order)
  <2>1. 1 \in Int /\ Len(order) \in Int
    BY <1>1
  <2>2. IsFiniteSet(1..Len(order))
         /\ Cardinality(1..Len(order)) = IF 1 > Len(order) THEN 0 ELSE Len(order) - 1 + 1
    BY <2>1, FS_Interval
  <2> QED BY <1>1, <2>2
<1>4. Cardinality(index) = Len(order)
  BY <1>2, <1>3, FS_Bijection DEF ExistsBijection
<1>5. ToSet(order) = index
  BY <1>1 DEF ToSet, ListInv, Entries
<1> QED BY <1>4, <1>5 DEF ListInv

\* The map is bounded, agrees with the list, and forgets the least recent first
\* (the eviction loop of Allow).
THEOREM RecencyIsKept == Spec => RecencyHolds
<1> DEFINE P == ToSet(order) = index /\ Len(order) = Cardinality(index) /\ Len(order) <= MaxClients
           A == \A c, d \in index :
                  /\ c # d
                  /\ \E i, j \in 1..Len(order) : i < j /\ order[i] = c /\ order[j] = d
                  /\ d \in index'
                  => c \in index'
<1>1. IInv => P
  BY CountedOnce DEF IInv
<1>2. IInv /\ [Next]_vars => [A]_vars
  <2> SUFFICES ASSUME IInv, Next PROVE A
    OBVIOUS
  <2>1. CASE UNCHANGED index
    BY <2>1
  <2>2. ASSUME NEW k \in Callers, Miss(k, k) PROVE A
    <3>1. PICK n \in 0..Len(order) : index' = Entries(order, n) \cup {k}
      BY <2>2, MissStep
    <3>2. k \notin index /\ Len(order) \in Nat
      BY <2>2, LenProperties DEF Miss, IInv, ListInv
    <3> SUFFICES ASSUME NEW c \in index, NEW d \in index, d \in index',
                        NEW i \in 1..Len(order), NEW j \in 1..Len(order),
                        i < j, order[i] = c, order[j] = d
                 PROVE  c \in index'
      OBVIOUS
    <3>3. PICK m \in 1..n : order[m] = d
      BY <3>1, <3>2 DEF Entries
    <3>4. m = j
      BY <3>2, <3>3 DEF IInv, ListInv, Once
    <3>5. i \in 1..n
      BY <3>2, <3>4
    <3> QED BY <3>1, <3>5 DEF Entries
  <2> QED BY <2>1, <2>2, OwnBucket, TickStep DEF Next, Hit
<1> QED BY Invariance, <1>1, <1>2, PTL DEF Spec, RecencyHolds

\* The list holds addresses, and no bucket more than its burst.
THEOREM TypeCorrect == Spec => []TypeOK
<1>1. IInv => TypeOK
  BY DEF IInv
<1> QED BY Invariance, <1>1, PTL
=============================================================================
