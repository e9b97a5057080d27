-------------------------- MODULE TrailClientProofs --------------------------
(***************************************************************************)
(* For any reader, any number of tabs and any walk met: what an open page  *)
(* shows is what the trail records of it, a landing writes nothing, and    *)
(* where the browser lets one tab write at a time, no write undoes what    *)
(* another tab did.                                                        *)
(***************************************************************************)
EXTENDS TrailClient, Integers, SequenceTheorems, FiniteSetTheorems, WellFoundedInduction, TLAPS

-----------------------------------------------------------------------------
\* Sets of numbers.

\* A set of numbers has a least one.
LEMMA Least ==
  ASSUME NEW S \in SUBSET Nat, S # {}
  PROVE  \E m \in S : \A k \in S : m <= k
<1>1. PICK m \in S : \A k \in S : <<k, m>> \notin OpToRel(<, Nat)
  BY NatLessThanWellFounded, WFMin
<1>2. \A k \in S : ~(k < m)
  BY <1>1 DEF OpToRel
<1> QED BY <1>2

\* The ranks of a set of n numbers are 1..n, each once; of all numbers up to n,
\* their own.
LEMMA Ranks ==
  ASSUME NEW n \in Nat, NEW kept \in SUBSET (1..n)
  PROVE  /\ Cardinality(kept) \in Nat /\ Cardinality(kept) <= n
         /\ Cardinality(kept) = n => kept = 1..n
         /\ \A i \in kept : Rank(i, kept) \in 1..Cardinality(kept)
         /\ \A i, j \in kept : Rank(i, kept) = Rank(j, kept) => i = j
         /\ \A i, j \in kept : i < j => Rank(i, kept) < Rank(j, kept)
         /\ \A k \in 1..Cardinality(kept) : \E i \in kept : Rank(i, kept) = k
         /\ n \in kept => Rank(n, kept) = Cardinality(kept)
         /\ kept = 1..n => \A i \in 1..n : Rank(i, kept) = i
<1> DEFINE below(i) == {j \in kept : j <= i}
           c == Cardinality(kept)
<1>0. \A x \in kept : x \in Nat /\ x <= n
  OBVIOUS
<1>1. \A m \in Nat : IsFiniteSet(1..m) /\ Cardinality(1..m) = m
  <2> SUFFICES ASSUME NEW m \in Nat PROVE IsFiniteSet(1..m) /\ Cardinality(1..m) = m
    OBVIOUS
  <2>1. 1 \in Int /\ m \in Int
    OBVIOUS
  <2>2. IsFiniteSet(1..m) /\ Cardinality(1..m) = IF 1 > m THEN 0 ELSE m - 1 + 1
    BY <2>1, FS_Interval
  <2> QED BY <2>2
<1>2. IsFiniteSet(kept) /\ c \in Nat /\ c <= n /\ (c = n => kept = 1..n)
  <2>1. IsFiniteSet(kept) /\ c <= Cardinality(1..n) /\ (Cardinality(1..n) = c => 1..n = kept)
    BY <1>1, FS_Subset
  <2>2. c \in Nat
    BY <2>1, FS_CardinalityType
  <2> QED BY <1>1, <2>1, <2>2
<1>3. \A i \in kept : /\ below(i) \in SUBSET kept /\ i \in below(i) /\ IsFiniteSet(below(i))
                      /\ Cardinality(below(i)) \in Nat /\ Cardinality(below(i)) <= c
  <2> SUFFICES ASSUME NEW i \in kept
               PROVE  /\ below(i) \in SUBSET kept /\ i \in below(i) /\ IsFiniteSet(below(i))
                      /\ Cardinality(below(i)) \in Nat /\ Cardinality(below(i)) <= c
    OBVIOUS
  <2>1. below(i) \in SUBSET kept /\ i \in below(i)
    OBVIOUS
  <2>2. IsFiniteSet(below(i)) /\ Cardinality(below(i)) <= c
    BY <1>2, <2>1, FS_Subset
  <2> QED BY <2>1, <2>2, FS_CardinalityType
<1>4. \A i \in kept : Cardinality(below(i)) # 0
  BY <1>3, FS_EmptySet
<1>5. \A i, j \in kept : i < j => Cardinality(below(i)) < Cardinality(below(j))
  <2> SUFFICES ASSUME NEW i \in kept, NEW j \in kept, i < j
               PROVE  Cardinality(below(i)) < Cardinality(below(j))
    OBVIOUS
  <2>1. below(i) \in SUBSET below(j) /\ j \in below(j) /\ j \notin below(i)
    <3>1. i \in Int /\ j \in Int /\ ~(j <= i) /\ j <= j
      BY <1>0
    <3>2. \A x \in kept : x <= i => x <= j
      BY <1>0
    <3> QED BY <3>1, <3>2
  <2>2. /\ Cardinality(below(i)) <= Cardinality(below(j))
        /\ Cardinality(below(j)) = Cardinality(below(i)) => below(j) = below(i)
    BY <1>3, <2>1, FS_Subset
  <2>3. Cardinality(below(i)) # Cardinality(below(j))
    BY <2>1, <2>2
  <2> QED BY <1>3, <2>2, <2>3
<1>6. \A i \in kept : Rank(i, kept) = Cardinality(below(i))
  BY DEF Rank
<1> HIDE DEF below, c
<1>7. \A i \in kept : Rank(i, kept) \in 1..c
  BY <1>2, <1>3, <1>4, <1>6
<1>8. \A i, j \in kept : Rank(i, kept) = Rank(j, kept) => i = j
  <2> SUFFICES ASSUME NEW i \in kept, NEW j \in kept, i # j
               PROVE  Rank(i, kept) # Rank(j, kept)
    OBVIOUS
  <2>1. i < j \/ j < i
    OBVIOUS
  <2> QED BY <1>3, <1>5, <1>6, <2>1
<1>9. \A k \in 1..c : \E i \in kept : Rank(i, kept) = k
  <2> DEFINE f == [i \in kept |-> Rank(i, kept)]
  <2>1. f \in Injection(kept, 1..c)
    BY <1>7, <1>8 DEF Injection, IsInjective
  <2>2. IsFiniteSet(1..c) /\ Cardinality(kept) = Cardinality(1..c)
    BY <1>1, <1>2 DEF c
  <2>3. f \in Surjection(kept, 1..c)
    BY <2>1, <2>2, FS_Injection
  <2> QED BY <2>3 DEF Surjection
<1>10. n \in kept => Rank(n, kept) = c
  <2> SUFFICES ASSUME n \in kept PROVE below(n) = kept
    BY <1>6 DEF c
  <2> QED BY <1>0 DEF below
<1>11. kept = 1..n => \A i \in 1..n : Rank(i, kept) = i
  <2> SUFFICES ASSUME kept = 1..n, NEW i \in 1..n PROVE Rank(i, kept) = i
    OBVIOUS
  <2>1. below(i) = 1..i
    BY DEF below
  <2> QED BY <1>1, <1>6, <2>1
<1>12. \A i, j \in kept : i < j => Rank(i, kept) < Rank(j, kept)
  BY <1>5, <1>6
<1> QED BY <1>2, <1>7, <1>8, <1>9, <1>10, <1>11, <1>12 DEF c

-----------------------------------------------------------------------------
\* The operations on trails.

\* What filtering a trail leaves, in the order it had.
LEMMA Filtered ==
  ASSUME NEW S, NEW trail \in Seq(S), NEW ids
  PROVE  LET left == Without(trail, ids)
         IN  /\ left \in Seq(S) /\ Len(left) <= Len(trail)
             /\ Ids(left) = Ids(trail) \ ids
             /\ Len(left) = Len(trail) => left = trail
             /\ trail # <<>> /\ Last(trail).id \notin ids => left # <<>> /\ Last(left) = Last(trail)
<1> DEFINE kept == Kept(trail, ids)
           c    == Cardinality(kept)
           left == Without(trail, ids)
           n    == Len(trail)
           at(k) == CHOOSE i \in kept : Rank(i, kept) = k
<1>1. n \in Nat /\ DOMAIN trail = 1..n /\ \A i \in 1..n : trail[i] \in S
  BY LenProperties
<1>2. kept \in SUBSET (1..n) /\ \A i \in 1..n : i \in kept <=> trail[i].id \notin ids
  BY <1>1 DEF Kept
<1> HIDE DEF kept, n
<1>3. /\ c \in Nat /\ c <= n /\ (c = n => kept = 1..n)
      /\ \A i \in kept : Rank(i, kept) \in 1..c
      /\ \A i, j \in kept : Rank(i, kept) = Rank(j, kept) => i = j
      /\ \A k \in 1..c : \E i \in kept : Rank(i, kept) = k
      /\ n \in kept => Rank(n, kept) = c
      /\ kept = 1..n => \A i \in 1..n : Rank(i, kept) = i
  BY <1>1, <1>2, Ranks, Zenon
<1>4. left = [k \in 1..c |-> trail[at(k)]]
  BY DEF Without, kept
<1> HIDE DEF c
<1>5. \A k \in 1..c : at(k) \in kept /\ Rank(at(k), kept) = k
  BY <1>3
<1>6. \A i \in kept : at(Rank(i, kept)) = i
  BY <1>3, <1>5
<1> HIDE DEF at, left
<1>7. left \in Seq(S) /\ Len(left) = c /\ DOMAIN left = 1..c /\ \A k \in 1..c : left[k] = trail[at(k)]
  <2>1. \A k \in 1..c : trail[at(k)] \in S
    BY <1>1, <1>2, <1>5
  <2>2. left \in [1..c -> S] /\ DOMAIN left = 1..c /\ \A k \in 1..c : left[k] = trail[at(k)]
    BY <1>4, <2>1
  <2>3. c \in Nat
    BY <1>3
  <2> QED BY <2>2, <2>3
<1>8. Ids(left) = Ids(trail) \ ids
  <2>1. ASSUME NEW k \in 1..c PROVE left[k].id \in Ids(trail) \ ids
    BY <1>1, <1>2, <1>5, <1>7 DEF Ids
  <2>2. ASSUME NEW i \in 1..n, trail[i].id \notin ids PROVE trail[i].id \in Ids(left)
    <3>1. i \in kept /\ Rank(i, kept) \in 1..c /\ left[Rank(i, kept)] = trail[i]
      BY <1>2, <1>3, <1>6, <1>7, <2>2
    <3> QED BY <1>7, <3>1 DEF Ids
  <2> QED BY <1>1, <1>7, <2>1, <2>2 DEF Ids
<1>9. c = n => left = trail
  <2> SUFFICES ASSUME c = n PROVE left = trail
    OBVIOUS
  <2>1. \A k \in 1..n : at(k) = k
    BY <1>3, <1>6
  <2>2. \A k \in 1..n : left[k] = trail[k]
    BY <1>7, <2>1
  <2> QED BY <1>1, <1>7, <2>2, SeqEqual DEF n
<1>10. ASSUME trail # <<>>, Last(trail).id \notin ids
       PROVE  left # <<>> /\ Last(left) = Last(trail)
  <2>1. n \in 1..n
    BY <1>1, <1>10, EmptySeq DEF n
  <2>2. n \in kept
    BY <1>2, <1>10, <2>1 DEF Last, n
  <2>3. c \in 1..c /\ at(c) = n
    BY <1>3, <1>6, <2>2
  <2>4. left[Len(left)] = trail[n] /\ Len(left) # 0
    BY <1>7, <2>3
  <2> QED BY <2>4, EmptySeq DEF Last, n
<1> QED BY <1>3, <1>7, <1>8, <1>9, <1>10 DEF left, n

\* An empty trail is one without stops.
LEMMA NonEmpty ==
  ASSUME NEW S, NEW s \in Seq(S)
  PROVE  Len(s) \in Nat /\ (s # <<>> <=> Len(s) # 0)
BY EmptySeq, LenProperties

\* A cap takes stops off the front and none that fits.
LEMMA Caps ==
  ASSUME MaxStops \in Nat \ {0}, NEW S, NEW trail \in Seq(S)
  PROVE  /\ Capped(trail) \in Seq(S) /\ Len(Capped(trail)) <= MaxStops
         /\ Len(trail) <= MaxStops => Capped(trail) = trail
         /\ trail # <<>> => Capped(trail) # <<>> /\ Last(Capped(trail)) = Last(trail)
         /\ Ids(Capped(trail)) \subseteq Ids(trail)
<1> DEFINE n == Len(trail)
           m == IF n > MaxStops THEN n - MaxStops + 1 ELSE 1
           short == Capped(trail)
<1>1. n \in Nat /\ DOMAIN trail = 1..n /\ \A i \in 1..n : trail[i] \in S
  BY LenProperties
<1>2. m \in Nat /\ m >= 1 /\ (n > MaxStops => n - m + 1 = MaxStops) /\ (n # 0 => m <= n)
  BY <1>1
<1>3. short = SubSeq(trail, m, n)
  BY DEF Capped
<1> HIDE DEF n, m, short
<1>4. /\ short \in Seq(S) /\ Len(short) = IF m <= n THEN n - m + 1 ELSE 0
      /\ \A i \in 1..n - m + 1 : short[i] = trail[m + i - 1]
  <2>1. m \in Int /\ n \in Int /\ \A i \in m..n : trail[i] \in S
    BY <1>1, <1>2
  <2> QED BY <1>3, <2>1, SubSeqProperties
<1>5. Len(short) <= MaxStops
  BY <1>1, <1>2, <1>4 DEF m
<1>6. n <= MaxStops => short = trail
  <2> SUFFICES ASSUME n <= MaxStops PROVE short = trail
    OBVIOUS
  <2>1. m = 1
    BY <1>1 DEF m
  <2>2. SubSeq(trail, 1, n) = trail
    BY SubSeqFull DEF n
  <2> QED BY <1>3, <2>1, <2>2
<1>7. ASSUME trail # <<>> PROVE short # <<>> /\ Last(short) = Last(trail)
  <2>1. n # 0
    BY <1>7, EmptySeq DEF n
  <2>2. Len(short) = n - m + 1 /\ n - m + 1 \in 1..n - m + 1
    BY <1>1, <1>2, <1>4, <2>1
  <2>3. short[Len(short)] = trail[n]
    BY <1>1, <1>2, <1>4, <2>2
  <2> QED BY <2>2, <2>3, EmptySeq DEF Last, n
<1>8. Ids(short) \subseteq Ids(trail)
  <2>1. Len(short) = n - m + 1 \/ Len(short) = 0
    BY <1>4
  <2>2. DOMAIN short = 1..Len(short)
    BY <1>4, LenProperties
  <2>3. \A i \in 1..Len(short) : m + i - 1 \in 1..n /\ short[i] = trail[m + i - 1]
    BY <1>1, <1>2, <1>4, <2>1
  <2> QED BY <1>1, <2>2, <2>3 DEF Ids
<1> QED BY <1>4, <1>5, <1>6, <1>7, <1>8 DEF short, n

\* The stops of walks whose depths are in D.
Stops(D) == [id : Concepts, depth : D]

\* A new depth changes the last stop, if it is the one, and no other.
LEMMA Depthed ==
  ASSUME NEW D, NEW trail \in Seq(Stops(D)), NEW id \in Concepts, NEW d \in D
  PROVE  LET next == withDepth(trail, id, d)
         IN  /\ next \in Seq(Stops(D)) /\ Len(next) = Len(trail) /\ Ids(next) = Ids(trail)
             /\ \A i \in 1..Len(trail) - 1 : next[i] = trail[i]
             /\ EndsAt(trail, id) => EndsAt(next, id) /\ Last(next).depth = d
             /\ ~EndsAt(trail, id) => next = trail
<1> DEFINE next == withDepth(trail, id, d)
           n == Len(trail)
<1>1. n \in Nat /\ DOMAIN trail = 1..n /\ \A i \in 1..n : trail[i] \in Stops(D)
  BY LenProperties
<1>2. CASE ~EndsAt(trail, id)
  BY <1>2 DEF withDepth
<1>3. CASE EndsAt(trail, id)
  <2>1. n \in 1..n /\ trail[n].id = id
    BY <1>1, <1>3, EmptySeq DEF EndsAt, Last
  <2> DEFINE e == [trail[n] EXCEPT !.depth = d]
  <2>2. e \in Stops(D) /\ e.id = id /\ e.depth = d
    BY <1>1, <2>1 DEF Stops
  <2>3. next = [trail EXCEPT ![n] = e]
    BY <1>3 DEF withDepth
  <2> HIDE DEF e, next
  <2>4. /\ next \in Seq(Stops(D)) /\ Len(next) = n
        /\ \A j \in 1..n : next[j] = IF j = n THEN e ELSE trail[j]
    BY <2>1, <2>2, <2>3, ExceptSeq
  <2>5. DOMAIN next = 1..n
    BY <2>4, LenProperties
  <2>6. \A j \in 1..n : next[j].id = trail[j].id
    BY <2>1, <2>2, <2>4
  <2>7. Ids(next) = Ids(trail)
    BY <1>1, <2>5, <2>6 DEF Ids
  <2>8. EndsAt(next, id) /\ Last(next).depth = d
    <3>1. next # <<>> /\ next[Len(next)] = e
      BY <2>1, <2>4, NonEmpty
    <3> QED BY <2>2, <3>1 DEF EndsAt, Last
  <2>9. \A i \in 1..n - 1 : next[i] = trail[i]
    <3> HIDE DEF n
    <3>1. \A i \in 1..n - 1 : i \in 1..n /\ i # n
      BY <1>1
    <3> QED BY <2>4, <3>1
  <2> QED BY <1>3, <2>4, <2>7, <2>8, <2>9 DEF next
<1> QED BY <1>2, <1>3

\* Of one trail the next lacks nothing but the oldest stop, and that only if it was
\* full and the next ends in a stop it had not.
MakesRoom(trail, next) ==
  \A id \in Ids(trail) \ Ids(next) :
    Len(trail) = MaxStops /\ id = trail[1].id /\ Last(next).id \notin Ids(trail)

\* A visit ends the trail at its stop; it takes no stop out but the oldest of a
\* full trail the stop was not in, and where it leaves the order alone, all but the last stop too.
LEMMA Appending ==
  ASSUME MaxStops \in Nat \ {0}, NEW D, NEW trail \in Seq(Stops(D)), Len(trail) <= MaxStops,
         NEW stop \in Stops(D)
  PROVE  LET next == append(trail, stop)
         IN  /\ next \in Seq(Stops(D)) /\ Len(next) <= MaxStops
             /\ EndsAt(next, stop.id) /\ Last(next).depth = stop.depth
             /\ MakesRoom(trail, next)
             /\ Len(next) = Len(trail) /\ (\A i \in 1..Len(trail) : next[i].id = trail[i].id)
                  => \A i \in 1..Len(trail) - 1 : next[i] = trail[i]
<1> DEFINE next == append(trail, stop)
           n == Len(trail)
<1>1. /\ n \in Nat /\ DOMAIN trail = 1..n /\ \A i \in 1..n : trail[i] \in Stops(D)
      /\ stop.id \in Concepts /\ stop.depth \in D
  BY LenProperties DEF Stops
<1>2. CASE EndsAt(trail, stop.id)
  <2>1. next = withDepth(trail, stop.id, stop.depth)
    BY <1>2 DEF append
  <2> HIDE DEF next
  <2>2. Ids(next) = Ids(trail)
    BY <1>1, <2>1, Depthed
  <2>3. MakesRoom(trail, next)
    BY <2>2 DEF MakesRoom
  <2> QED BY <1>1, <1>2, <2>1, <2>3, Depthed DEF next
<1>3. CASE ~EndsAt(trail, stop.id)
  <2> DEFINE left == Without(trail, {stop.id})
             whole == Append(left, stop)
  <2>1. next = Capped(whole)
    BY <1>3 DEF append
  <2>2. /\ left \in Seq(Stops(D)) /\ Len(left) <= n /\ Ids(left) = Ids(trail) \ {stop.id}
        /\ Len(left) = n => left = trail
    BY Filtered
  <2> HIDE DEF left
  <2>3. /\ whole \in Seq(Stops(D)) /\ Len(whole) = Len(left) + 1
        /\ \A i \in 1..Len(left) : whole[i] = left[i]
        /\ whole[Len(left) + 1] = stop
    BY <2>2, AppendProperties
  <2> HIDE DEF whole, next
  <2>4. Len(left) \in Nat /\ DOMAIN left = 1..Len(left) /\ DOMAIN whole = 1..Len(left) + 1
    BY <2>2, <2>3, LenProperties
  <2>5. Ids(left) \subseteq Ids(whole) /\ stop.id \in Ids(whole)
    BY <2>3, <2>4 DEF Ids
  <2>6. whole # <<>> /\ Last(whole) = stop
    BY <2>3, <2>4, EmptySeq DEF Last
  <2>7. /\ next \in Seq(Stops(D)) /\ Len(next) <= MaxStops
        /\ next # <<>> /\ Last(next) = stop
        /\ Len(whole) <= MaxStops => next = whole
    BY <2>1, <2>3, <2>6, Caps
  <2>8. ASSUME NEW id \in Ids(trail) \ Ids(next)
        PROVE  n = MaxStops /\ id = trail[1].id /\ Last(next).id \notin Ids(trail)
    <3>1. ~(Len(whole) <= MaxStops)
      BY <2>2, <2>5, <2>7, <2>8
    <3>2. n = MaxStops /\ Len(left) = n /\ n >= 1
      <4>1. Len(whole) = Len(left) + 1 /\ Len(left) <= n /\ Len(left) \in Nat
        BY <2>2, <2>3, <2>4
      <4>2. n \in Nat /\ MaxStops \in Nat \ {0} /\ n <= MaxStops
        BY <1>1
      <4> HIDE DEF n
      <4>3. QED
        BY <3>1, <4>1, <4>2
    <3>3. left = trail /\ stop.id \notin Ids(trail)
      BY <2>2, <3>2
    <3>4. next = SubSeq(whole, 2, n + 1)
      <4>1. Len(whole) = n + 1 /\ Len(whole) - MaxStops + 1 = 2 /\ Len(whole) > MaxStops
        BY <1>1, <2>3, <3>2
      <4> QED BY <2>1, <4>1 DEF Capped
    <3>5. DOMAIN next = 1..n /\ \A i \in 1..n : next[i] = whole[i + 1]
      <4>1. 2 \in Int /\ n + 1 \in Int /\ \A i \in 2..n + 1 : whole[i] \in Stops(D)
        <5>1. \A i \in 1..n + 1 : whole[i] \in Stops(D)
          BY <2>3, <2>4, <3>2, LenProperties
        <5> QED BY <1>1, <5>1
      <4>2. /\ Len(next) = IF 2 <= n + 1 THEN n + 1 - 2 + 1 ELSE 0
            /\ \A i \in 1..n + 1 - 2 + 1 : next[i] = whole[2 + i - 1]
        BY <3>4, <4>1, SubSeqProperties
      <4>3. Len(next) = n /\ \A i \in 1..n : next[i] = whole[i + 1]
        BY <1>1, <3>2, <4>2
      <4> QED BY <2>7, <4>3, LenProperties
    <3>6. PICK j \in 1..n : id = trail[j].id
      BY <1>1, <2>8 DEF Ids
    <3>7. j = 1
      <4> SUFFICES ASSUME j # 1 PROVE FALSE
        OBVIOUS
      <4>1. j - 1 \in 1..n /\ j - 1 + 1 = j
        BY <1>1
      <4>2. next[j - 1] = trail[j]
        BY <2>3, <3>2, <3>3, <3>5, <4>1
      <4> QED BY <2>8, <3>5, <3>6, <4>1, <4>2 DEF Ids
    <3> QED BY <2>7, <3>2, <3>3, <3>6, <3>7
  <2>8a. MakesRoom(trail, next)
    BY <2>8 DEF MakesRoom
  <2>9. Len(next) = n => n # 0 /\ next[n].id # trail[n].id
    <3>1. Len(next) \in Nat /\ Len(next) # 0
      BY <2>7, EmptySeq
    <3> SUFFICES ASSUME Len(next) = n PROVE n # 0 /\ next[n].id # trail[n].id
      OBVIOUS
    <3>2. next[n] = stop
      BY <2>7 DEF Last
    <3>3. trail # <<>> /\ trail[n].id # stop.id
      BY <1>1, <1>3, <3>1, EmptySeq DEF EndsAt, Last
    <3> QED BY <3>1, <3>2, <3>3
  <2>10. EndsAt(next, stop.id) /\ Last(next).depth = stop.depth
    BY <2>7 DEF EndsAt
  <2>11. ~(Len(next) = n /\ \A i \in 1..n : next[i].id = trail[i].id)
    <3>1. n # 0 => n \in 1..n
      BY <1>1
    <3> QED BY <2>9, <3>1
  <2> QED BY <2>7, <2>8a, <2>10, <2>11 DEF next
<1> QED BY <1>2, <1>3

-----------------------------------------------------------------------------
(***************************************************************************)
(* The inductive invariant.                                                *)
(***************************************************************************)

Trails == Seq(Stop)

\* What t is about to write is a trail; after a repair, of the share under way.
WriteInv(t) ==
  job[t] # None =>
    /\ job[t].next \in Trails /\ Len(job[t].next) <= MaxStops
    /\ job[t].read \in Trails /\ Len(job[t].read) <= MaxStops
    /\ job[t].resend \in BOOLEAN
    /\ job[t].resend => share[t].state = "sending" /\ share[t].posts = 1

\* Per-tab state is a function of the tab, and what a tab holds is a trail: the
\* one it loads or shows, the one it sends.
TabInv(t) ==
  /\ page[t] \in Concepts \cup {None} /\ scope[t] \in Depths \cup {None}
  /\ ready[t] => page[t] \in Concepts
  /\ toggled[t] => ready[t] /\ scope[t] \in Depths
  /\ frozen[t] # None => /\ frozen[t].page \in Concepts /\ frozen[t].scope \in Depths \cup {None}
                          /\ frozen[t].share.state \in {"idle", "error", "sent"}
                          /\ frozen[t].share.posts \in 0..2
  /\ island[t].at # "none" => island[t].walk \in Trails /\ island[t].walk # <<>>
  /\ share[t].state = "sending" => ready[t] /\ share[t].walk \in Trails /\ share[t].walk # <<>>
  /\ WriteInv(t)

Shape ==
  /\ DOMAIN island = Tabs /\ DOMAIN share = Tabs /\ DOMAIN job = Tabs /\ DOMAIN frozen = Tabs
  /\ \A t \in Tabs : TabInv(t)

\* A tab on its way to a landing carries the marker of the very page it loads,
\* and nothing of an earlier page is in flight there.
LandInv ==
  \A t \in Tabs :
    landing[t] => ~ready[t] /\ marker[t] = page[t] /\ share[t].state # "sending"

\* A trail with the page t shows at its end.
WithPage(t, trail) == append(trail, [id |-> page[t], depth |-> Onscreen(t)])

\* A write is computed from the trail it read: a visit or a depth of the page t
\* shows, or a repair that takes out dead stops.
Fresh(t) ==
  IF job[t].resend
  THEN \E ids \in SUBSET (Concepts \ live) : job[t].next = Without(job[t].read, ids)
  ELSE ready[t] /\ ~toggled[t] /\ job[t].next = WithPage(t, job[t].read)

\* Under the lock one write is out at a time, and what it read is still the trail.
JobInv ==
  /\ \A t \in Tabs : job[t] # None => Fresh(t)
  /\ locking => /\ \A t, u \in Tabs : job[t] # None /\ job[u] # None => t = u
                /\ \A t \in Tabs : job[t] # None => job[t].read = store

\* No depth of t's page is on its way to the record.
Quiet(t) == ~toggled[t] /\ (job[t] = None \/ job[t].resend)

\* The page of t is open, and either its concept is gone from the trail or it
\* ends it, at the depth shown unless a depth is on its way.
OnRecord(t) ==
  /\ ready[t]
  /\ EndsAt(store, page[t]) \/ page[t] \notin Ids(store)
  /\ EndsAt(store, page[t]) /\ Quiet(t) => Last(store).depth = Onscreen(t)

\* So it is with the last page on record.
AuthorInv == locking => \A t \in Tabs : author = t => OnRecord(t)

IInv == TypeOK /\ Shape /\ LandInv /\ JobInv /\ AuthorInv

-----------------------------------------------------------------------------
(***************************************************************************)
(* Init and the steps.                                                     *)
(***************************************************************************)

\* What the assumption says of the session there is.
LEMMA OfSession ==
  ASSUME session \in Sessions
  PROVE  /\ MaxStops \in Nat \ {0} /\ Initial \in Depths /\ None \notin Depths
         /\ locking \in BOOLEAN /\ session.shared \subseteq Trails \ {<<>>}
         /\ None \notin [read : Trails, next : Trails, resend : BOOLEAN]
         /\ None \notin Concepts /\ None \notin Tabs
<1>1. Trails = Seq([id : Concepts, depth : session.depths])
  BY DEF Trails, Stop, Depths
<1> QED BY <1>1, TrailClientAssumption DEF MaxStops, Depths, locking

\* A walk leads to one of its own stops.
LEMMA Standing ==
  ASSUME NEW w \in Trails, w # <<>>, NEW marked
  PROVE  FirstStanding(w, marked) \in Concepts
<1> DEFINE n == Len(w)
           standing == {i \in 1..n : w[i].id \notin marked}
<1>1. n \in Nat /\ n # 0 /\ DOMAIN w = 1..n /\ \A i \in 1..n : w[i] \in Stop /\ w[i].id \in Concepts
  <2>1. w \in Seq(Stop)
    BY DEF Trails
  <2>2. n \in Nat /\ n # 0 /\ DOMAIN w = 1..n /\ \A i \in 1..n : w[i] \in Stop
    BY <2>1, NonEmpty, LenProperties
  <2>3. \A s \in Stop : s.id \in Concepts
    BY DEF Stop
  <2> QED BY <2>2, <2>3
<1>2. CASE Ids(w) \subseteq marked
  <2>1. 1 \in 1..n
    BY <1>1
  <2> QED BY <1>1, <1>2, <2>1 DEF FirstStanding
<1>3. CASE ~(Ids(w) \subseteq marked)
  <2>1. standing \in SUBSET Nat /\ standing # {}
    BY <1>1, <1>3 DEF Ids
  <2>2. PICK m \in standing : \A k \in standing : m <= k
    BY <2>1, Least
  <2>3. \A j \in 1..(m - 1) : w[j].id \in marked
    BY <1>1, <2>2
  <2>4. \E i \in DOMAIN w : w[i].id \notin marked /\ \A j \in 1..(i - 1) : w[j].id \in marked
    BY <1>1, <2>2, <2>3
  <2> QED BY <1>1, <1>3, <2>4 DEF FirstStanding
<1> QED BY <1>2, <1>3

\* Initially every page is blank and the trail empty.
LEMMA InitInv == Init => IInv
<1> SUFFICES ASSUME Init PROVE IInv
  OBVIOUS
<1>1. session \in Sessions
  BY DEF Init
<1>2. MaxStops \in Nat \ {0} /\ Initial \in Depths
  BY <1>1, OfSession
<1>3. store = <<>> /\ store \in Seq(Stop) /\ Len(store) = 0
  BY EmptySeq DEF Init
<1>4. TypeOK
  BY <1>1, <1>2, <1>3 DEF Init, TypeOK, NoTrail, Idle
<1>5. Shape
  BY DEF Init, Shape, TabInv, WriteInv, NoTrail, Idle
<1>6. LandInv /\ JobInv
  BY DEF Init, LandInv, JobInv
<1>7. AuthorInv
  BY <1>1, OfSession DEF Init, AuthorInv
<1> QED BY <1>4, <1>5, <1>6, <1>7 DEF IInv

\* The session never changes, nor what it fixes.
LEMMA SameSession ==
  ASSUME [Next]_vars
  PROVE  /\ session' = session /\ MaxStops' = MaxStops /\ Depths' = Depths /\ Stop' = Stop
         /\ Trails' = Trails /\ locking' = locking
<1>1. session' = session
  BY DEF Next, vars
<1> QED BY <1>1 DEF MaxStops, Depths, Stop, Trails, locking

\* The trail and the markers keep their types: a walk adopted is capped and
\* leads to one of its stops.
LEMMA TypeStep ==
  ASSUME TypeOK, Shape, [Next]_vars
  PROVE  TypeOK'
<1> USE DEF TypeOK, Shape, TabInv, WriteInv, Show, Leaves, NoTrail, Idle, Loading
<1>0. /\ session' = session /\ MaxStops' = MaxStops /\ Depths' = Depths /\ Stop' = Stop
      /\ MaxStops \in Nat \ {0} /\ Initial \in Depths /\ Trails = Seq(Stop)
  BY SameSession, OfSession DEF Trails
<1>1. ASSUME NEW t \in Tabs, NEW c \in Concepts \cup {None}, Open(t, c) PROVE TypeOK'
  BY <1>0, <1>1 DEF Open
<1>2. ASSUME NEW t \in Tabs, Back(t) PROVE TypeOK'
  BY <1>0, <1>2 DEF Back
<1>3. ASSUME NEW t \in Tabs, Visit(t) PROVE TypeOK'
  BY <1>0, <1>3 DEF Visit
<1>4. ASSUME NEW t \in Tabs, RecordDepth(t) PROVE TypeOK'
  BY <1>0, <1>4 DEF RecordDepth
<1>5. ASSUME NEW t \in Tabs, Finish(t) PROVE TypeOK'
  BY <1>0, <1>5 DEF Finish, Sending, Failed
<1>6. ASSUME NEW t \in Tabs, NEW d \in Depths, SetDepth(t, d) PROVE TypeOK'
  BY <1>0, <1>6 DEF SetDepth
<1>7. ASSUME NEW t \in Tabs, Share(t) PROVE TypeOK'
  BY <1>0, <1>7 DEF Share, Sending, screen
<1>8. ASSUME NEW t \in Tabs, Shipped(t) PROVE TypeOK'
  BY <1>0, <1>8 DEF Shipped
<1>9. ASSUME NEW t \in Tabs, Repair(t) PROVE TypeOK'
  BY <1>0, <1>9 DEF Repair, screen
<1>10. ASSUME NEW t \in Tabs, ShareFails(t) PROVE TypeOK'
  BY <1>0, <1>10 DEF ShareFails, Failed, screen
<1>11. ASSUME NEW t \in Tabs, NEW w \in session.shared, OpenTrail(t, w) PROVE TypeOK'
  BY <1>0, <1>11 DEF OpenTrail
<1>12. ASSUME NEW t \in Tabs, TrailArrives(t) \/ Retry(t) PROVE TypeOK'
  <2>1. \E y : /\ y.at \in {"none", "loading", "ready", "unreachable"}
              /\ island' = [island EXCEPT ![t] = y]
    BY <1>12 DEF TrailArrives, Retry, Ready
  <2> QED BY <1>0, <1>12, <2>1 DEF TrailArrives, Retry
<1>13. ASSUME NEW t \in Tabs, Walk(t) PROVE TypeOK'
  <2> DEFINE w == island[t].walk
             first == FirstStanding(w, island[t].marked)
  <2>1. island[t].at = "ready" /\ w \in Trails /\ w # <<>>
    BY <1>13 DEF Walk
  <2>2. first \in Concepts
    BY <2>1, Standing
  <2>3. Capped(w) \in Seq(Stop) /\ Len(Capped(w)) <= MaxStops
    BY <1>0, <2>1, Caps
  <2> HIDE DEF first
  <2>4. store' = Capped(w) /\ marker' = [marker EXCEPT ![t] = first]
    BY <1>13 DEF Walk, first
  <2>5. /\ page' = [page EXCEPT ![t] = IF first \in live THEN first ELSE None]
        /\ landing' = [landing EXCEPT ![t] = first \in live]
    BY <1>13 DEF Walk, first
  <2>6. landing' \in [Tabs -> BOOLEAN]
    <3>1. (first \in live) \in BOOLEAN
      OBVIOUS
    <3>2. landing \in [Tabs -> BOOLEAN]
      OBVIOUS
    <3> QED BY <2>5, <3>1, <3>2, Zenon
  <2> HIDE DEF w
  <2> QED BY <1>0, <1>13, <2>2, <2>3, <2>4, <2>5, <2>6 DEF Walk
<1>14. ASSUME NEW c \in Concepts, Unpublish(c) PROVE TypeOK'
  BY <1>0, <1>14 DEF Unpublish, screen
<1>15. CASE UNCHANGED vars
  BY <1>0, <1>15 DEF vars, screen
<1> QED
  BY <1>1, <1>2, <1>3, <1>4, <1>5, <1>6, <1>7, <1>8, <1>9, <1>10, <1>11, <1>12, <1>13, <1>14, <1>15
  DEF Next

\* What the tabs hold stays what it is: the pages shown are concept pages, the
\* walks loaded, sent and about to be written are trails.
LEMMA ShapeStep ==
  ASSUME TypeOK, Shape, [Next]_vars
  PROVE  Shape'
<1> USE DEF TypeOK, Shape, TabInv, WriteInv, Show, Leaves, NoTrail, Idle, Loading, screen
<1>0. /\ session' = session /\ MaxStops' = MaxStops /\ Depths' = Depths /\ Stop' = Stop
      /\ Trails' = Trails /\ MaxStops \in Nat \ {0} /\ Initial \in Depths /\ None \notin Depths
      /\ None \notin Concepts /\ session.shared \subseteq Trails \ {<<>>} /\ Trails = Seq(Stop)
  BY SameSession, OfSession DEF Trails
<1>a. Stops(Depths) = Stop
  BY DEF Stops, Stop
<1>b. ASSUME NEW t \in Tabs, NEW next \in Trails, Len(next) <= MaxStops, NEW resend \in BOOLEAN,
             job' = [job EXCEPT ![t] = [read |-> store, next |-> next, resend |-> resend]],
             UNCHANGED share, resend => share[t].state = "sending" /\ share[t].posts = 1
      PROVE  DOMAIN job' = Tabs /\ \A u \in Tabs : WriteInv(u)'
  <2>1. DOMAIN job' = Tabs /\ \A u \in Tabs : u # t => job'[u] = job[u]
    BY <1>b
  <2>2. job'[t].next = next /\ job'[t].resend = resend /\ job'[t].read = store
    BY <1>b
  <2>3. share' = share
    BY <1>b
  <2>4. \A u \in Tabs : WriteInv(u)
    OBVIOUS
  <2> SUFFICES ASSUME NEW u \in Tabs PROVE WriteInv(u)'
    BY <2>1
  <2>5. CASE u = t
    BY <1>0, <1>b, <2>2, <2>3, <2>5
  <2>6. CASE u # t
    BY <1>0, <2>1, <2>3, <2>4, <2>6
  <2> QED BY <2>5, <2>6
<1>1. ASSUME NEW t \in Tabs, NEW c \in Concepts \cup {None}, Open(t, c) PROVE Shape'
  BY <1>0, <1>1 DEF Open, Keep, Settled
<1>2. ASSUME NEW t \in Tabs, Back(t) PROVE Shape'
  BY <1>0, <1>2 DEF Back, Settled
<1>3. ASSUME NEW t \in Tabs, Visit(t) PROVE Shape'
  <2> DEFINE stop == [id |-> page[t], depth |-> Onscreen(t)]
             next == append(store, stop)
  <2>1. page[t] \in Concepts /\ stop \in Stop
    BY <1>0, <1>3 DEF Visit, Onscreen, Stop
  <2>2. next \in Trails /\ Len(next) <= MaxStops
    <3> HIDE DEF stop
    <3> QED BY <1>0, <1>a, <2>1, Appending
  <2>3. \/ job' = job
        \/ job' = [job EXCEPT ![t] = [read |-> store, next |-> next, resend |-> FALSE]]
    BY <1>3 DEF Visit
  <2> HIDE DEF next
  <2>4. DOMAIN job' = Tabs /\ \A u \in Tabs : WriteInv(u)'
    <3>1. UNCHANGED share
      BY <1>3 DEF Visit
    <3>2. CASE job' = job
      BY <1>0, <3>1, <3>2
    <3>3. CASE job' = [job EXCEPT ![t] = [read |-> store, next |-> next, resend |-> FALSE]]
      BY <1>b, <2>2, <3>1, <3>3
    <3> QED BY <2>3, <3>2, <3>3
  <2> QED BY <1>0, <1>3, <2>1, <2>4 DEF Visit
<1>4. ASSUME NEW t \in Tabs, RecordDepth(t) PROVE Shape'
  <2> DEFINE next == withDepth(store, page[t], scope[t])
  <2>1. page[t] \in Concepts /\ scope[t] \in Depths
    BY <1>4 DEF RecordDepth
  <2>2. next \in Trails /\ Len(next) <= MaxStops
    <3> HIDE DEF TabInv
    <3> QED BY <1>0, <1>a, <2>1, Depthed
  <2>3. job' = [job EXCEPT ![t] = IF next = store THEN None ELSE [read |-> store, next |-> next, resend |-> FALSE]]
    BY <1>4 DEF RecordDepth
  <2> HIDE DEF next
  <2>4. DOMAIN job' = Tabs /\ \A u \in Tabs : WriteInv(u)'
    <3>1. UNCHANGED share
      BY <1>4 DEF RecordDepth
    <3>2. CASE next = store
      BY <1>0, <2>3, <3>1, <3>2
    <3>3. CASE next # store
      BY <1>b, <2>2, <2>3, <3>1, <3>3
    <3> QED BY <3>2, <3>3
  <2> QED BY <1>0, <1>4, <2>4 DEF RecordDepth
<1>5. ASSUME NEW t \in Tabs, Finish(t) PROVE Shape'
  BY <1>0, <1>5 DEF Finish, Sending, Failed
<1>6. ASSUME NEW t \in Tabs, NEW d \in Depths, SetDepth(t, d) PROVE Shape'
  BY <1>0, <1>6 DEF SetDepth
<1>7. ASSUME NEW t \in Tabs, Share(t) PROVE Shape'
  <2> DEFINE walk == IF store # <<>> THEN store ELSE Seed(t)
  <2>1. Seed(t) \in Trails /\ Seed(t) # <<>>
    BY <1>0, <1>7 DEF Share, Seed, Stop
  <2>2. walk \in Trails /\ walk # <<>>
    BY <1>0, <2>1
  <2>3. share' = [share EXCEPT ![t] = Sending(walk, 1)]
    BY <1>7 DEF Share
  <2> HIDE DEF walk
  <2> QED BY <1>0, <1>7, <2>2, <2>3 DEF Share, Sending, Settled
<1>8. ASSUME NEW t \in Tabs, Shipped(t) PROVE Shape'
  BY <1>0, <1>8 DEF Shipped, Posted, Settled, Sent
<1>9. ASSUME NEW t \in Tabs, Repair(t) PROVE Shape'
  <2> DEFINE next == Without(store, Missing(t))
  <2>1. next \in Trails /\ Len(next) <= MaxStops
    BY <1>0, Filtered, NonEmpty
  <2>2. job' = [job EXCEPT ![t] = [read |-> store, next |-> next, resend |-> TRUE]]
    BY <1>9 DEF Repair
  <2> HIDE DEF next
  <2>3. DOMAIN job' = Tabs /\ \A u \in Tabs : WriteInv(u)'
    <3>1. UNCHANGED share /\ share[t].state = "sending" /\ share[t].posts = 1
      BY <1>9 DEF Repair, Posted
    <3> QED BY <1>b, <2>1, <2>2, <3>1
  <2> QED BY <1>0, <1>9, <2>3 DEF Repair
<1>10. ASSUME NEW t \in Tabs, ShareFails(t) PROVE Shape'
  BY <1>0, <1>10 DEF ShareFails, Failed, Posted, Settled
<1>11. ASSUME NEW t \in Tabs, NEW w \in session.shared, OpenTrail(t, w) PROVE Shape'
  BY <1>0, <1>11 DEF OpenTrail, Keep, Settled
<1>12. ASSUME NEW t \in Tabs, TrailArrives(t) \/ Retry(t) PROVE Shape'
  <2>1. /\ UNCHANGED <<page, ready, scope, toggled, job, share, frozen>>
        /\ island[t].walk \in Trails /\ island[t].walk # <<>>
    BY <1>12 DEF TrailArrives, Retry
  <2>2. \E y : /\ y.at # "none" => y.walk = island[t].walk
              /\ island' = [island EXCEPT ![t] = y]
    BY <1>12 DEF TrailArrives, Retry, Ready
  <2> QED BY <1>0, <2>1, <2>2
<1>13. ASSUME NEW t \in Tabs, Walk(t) PROVE Shape'
  BY <1>0, <1>13 DEF Walk, Free
<1>14. ASSUME NEW c \in Concepts, Unpublish(c) PROVE Shape'
  BY <1>0, <1>14 DEF Unpublish
<1>15. CASE UNCHANGED vars
  BY <1>0, <1>15 DEF vars
<1> QED
  BY <1>1, <1>2, <1>3, <1>4, <1>5, <1>6, <1>7, <1>8, <1>9, <1>10, <1>11, <1>12, <1>13, <1>14, <1>15
  DEF Next

\* A landing is under way until the ribbon spends its marker, or the reader
\* goes elsewhere.
LEMMA LandStep ==
  ASSUME TypeOK, Shape, LandInv, [Next]_vars
  PROVE  LandInv'
<1> USE DEF TypeOK, Shape, LandInv, Show, Leaves, Idle, screen
<1>1. ASSUME NEW t \in Tabs, NEW c \in Concepts \cup {None}, Open(t, c) PROVE LandInv'
  BY <1>1 DEF Open
<1>2. ASSUME NEW t \in Tabs, Back(t) PROVE LandInv'
  BY <1>2 DEF Back
<1>3. ASSUME NEW t \in Tabs, Visit(t) PROVE LandInv'
  BY <1>3 DEF Visit
<1>4. ASSUME NEW t \in Tabs, RecordDepth(t) PROVE LandInv'
  BY <1>4 DEF RecordDepth
<1>5. ASSUME NEW t \in Tabs, Finish(t) PROVE LandInv'
  BY <1>5 DEF Finish, TabInv, WriteInv, Failed
<1>6. ASSUME NEW t \in Tabs, NEW d \in Depths, SetDepth(t, d) PROVE LandInv'
  BY <1>6 DEF SetDepth
<1>7. ASSUME NEW t \in Tabs, Share(t) PROVE LandInv'
  BY <1>7 DEF Share, TabInv
<1>8. ASSUME NEW t \in Tabs, Shipped(t) PROVE LandInv'
  BY <1>8 DEF Shipped, Posted
<1>9. ASSUME NEW t \in Tabs, Repair(t) PROVE LandInv'
  BY <1>9 DEF Repair
<1>10. ASSUME NEW t \in Tabs, ShareFails(t) PROVE LandInv'
  BY <1>10 DEF ShareFails, Failed
<1>11. ASSUME NEW t \in Tabs, NEW w \in session.shared, OpenTrail(t, w) PROVE LandInv'
  BY <1>11 DEF OpenTrail
<1>12. ASSUME NEW t \in Tabs, TrailArrives(t) \/ Retry(t) PROVE LandInv'
  BY <1>12 DEF TrailArrives, Retry
<1>13. ASSUME NEW t \in Tabs, Walk(t) PROVE LandInv'
  BY <1>13 DEF Walk
<1>14. ASSUME NEW c \in Concepts, Unpublish(c) PROVE LandInv'
  BY <1>14 DEF Unpublish
<1>15. CASE UNCHANGED vars
  BY <1>15 DEF vars
<1> QED
  BY <1>1, <1>2, <1>3, <1>4, <1>5, <1>6, <1>7, <1>8, <1>9, <1>10, <1>11, <1>12, <1>13, <1>14, <1>15
  DEF Next

\* What t shows, put on record in the trail it read, is the same after a step that
\* leaves its page alone.
LEMMA SamePage ==
  ASSUME session' = session, NEW t \in Tabs, page'[t] = page[t], scope'[t] = scope[t]
  PROVE  WithPage(t, job[t].read)' = WithPage(t, job'[t].read)
<1>1. Onscreen(t)' = Onscreen(t)
  BY DEF Onscreen
<1>2. MaxStops' = MaxStops
  BY DEF MaxStops
<1> QED BY <1>1, <1>2 DEF WithPage, append, Capped

\* No write of another tab, and no deploy, makes a write out of date while it
\* is under way.
LEMMA JobStep ==
  ASSUME TypeOK, Shape, JobInv, [Next]_vars
  PROVE  JobInv'
<1>0. /\ session' = session /\ (locking' <=> locking) /\ Trails = Seq(Stop) /\ Stops(Depths) = Stop
      /\ MaxStops \in Nat \ {0} /\ Initial \in Depths /\ None \notin Depths
  BY SameSession, OfSession DEF Trails, Stops, Stop, TypeOK
<1>a. ASSUME live' \subseteq live, NEW u \in Tabs, job'[u] = job[u], job[u] # None,
             page'[u] = page[u], scope'[u] = scope[u],
             ready[u] => ready'[u], ~toggled[u] => ~toggled'[u]
      PROVE  Fresh(u)'
  <2>1. Fresh(u)
    BY <1>a DEF JobInv
  <2>2. WithPage(u, job[u].read)' = WithPage(u, job[u].read)
    BY <1>0, <1>a, SamePage
  <2>3. Concepts \ live \subseteq Concepts \ live'
    BY <1>a
  <2> QED BY <1>a, <2>1, <2>2, <2>3 DEF Fresh
<1>b. ASSUME store' = store, live' \subseteq live, job' = job,
             \A u \in Tabs : job[u] # None => /\ page'[u] = page[u] /\ scope'[u] = scope[u]
                                              /\ ready[u] => ready'[u]
                                              /\ ~toggled[u] => ~toggled'[u]
      PROVE  JobInv'
  <2>1. ASSUME NEW u \in Tabs, job'[u] # None PROVE Fresh(u)'
    BY <1>a, <1>b, <2>1
  <2> QED BY <1>0, <1>b, <2>1 DEF JobInv
<1>c. ASSUME live' = live, page' = page, scope' = scope, store' = store, NEW t \in Tabs, Free(t),
             \A u \in Tabs : u # t => job'[u] = job[u],
             \A u \in Tabs : (ready[u] => ready'[u]) /\ (~toggled[u] => ~toggled'[u]),
             job'[t] # None => Fresh(t)' /\ job'[t].read = store
      PROVE  JobInv'
  <2>1. ASSUME NEW u \in Tabs, job'[u] # None PROVE Fresh(u)'
    BY <1>a, <1>c, <2>1
  <2>2. locking => \A u \in Tabs : job[u] = None
    BY <1>c DEF Free
  <2> QED BY <1>0, <1>c, <2>1, <2>2 DEF JobInv
<1> USE DEF TypeOK, Show, screen
<1>1. ASSUME NEW t \in Tabs, NEW c \in Concepts \cup {None}, Open(t, c) PROVE JobInv'
  BY <1>b, <1>1 DEF Open, Settled
<1>2. ASSUME NEW t \in Tabs, Back(t) PROVE JobInv'
  BY <1>b, <1>2 DEF Back, Settled
<1>3. ASSUME NEW t \in Tabs, Visit(t) PROVE JobInv'
  <2>1. \/ job' = job
        \/ job' = [job EXCEPT ![t] =
                    [read |-> store, next |-> WithPage(t, store), resend |-> FALSE]]
    BY <1>3 DEF Visit, WithPage
  <2>2. WithPage(t, job[t].read)' = WithPage(t, job'[t].read)
    BY <1>0, <1>3, SamePage DEF Visit
  <2>3. ready'[t] /\ ~toggled'[t] /\ job[t] = None
    BY <1>3 DEF Visit, Shape, TabInv, Free
  <2>4. job'[t] # None => Fresh(t)' /\ job'[t].read = store
    BY <2>1, <2>2, <2>3 DEF Fresh, Shape
  <2>5. \A u \in Tabs : u # t => job'[u] = job[u]
    BY <2>1 DEF Shape
  <2> QED BY <1>3, <1>c, <2>4, <2>5 DEF Visit
<1>4. ASSUME NEW t \in Tabs, RecordDepth(t) PROVE JobInv'
  <2> DEFINE next == withDepth(store, page[t], scope[t])
  <2>1. job' = [job EXCEPT ![t] = IF next = store THEN None
                                  ELSE [read |-> store, next |-> next, resend |-> FALSE]]
    BY <1>4 DEF RecordDepth
  <2>2. ready[t] /\ page[t] \in Concepts /\ scope[t] \in Depths
    BY <1>4 DEF RecordDepth, Shape, TabInv
  <2>3. next # store => next = WithPage(t, store)
    <3>1. EndsAt(store, page[t]) \/ next = store
      BY DEF withDepth
    <3>2. Onscreen(t) = scope[t]
      BY <1>0, <2>2 DEF Onscreen
    <3> QED BY <3>1, <3>2 DEF WithPage, append
  <2>4. WithPage(t, job[t].read)' = WithPage(t, job'[t].read)
    BY <1>0, <1>4, SamePage DEF RecordDepth
  <2>5. ready'[t] /\ ~toggled'[t]
    BY <1>4, <2>2 DEF RecordDepth
  <2> HIDE DEF next
  <2>6. job'[t] # None => Fresh(t)' /\ job'[t].read = store
    BY <2>1, <2>3, <2>4, <2>5 DEF Fresh, Shape
  <2>7. \A u \in Tabs : u # t => job'[u] = job[u]
    BY <2>1 DEF Shape
  <2> QED BY <1>4, <1>c, <2>6, <2>7 DEF RecordDepth
<1>5. ASSUME NEW t \in Tabs, Finish(t) PROVE JobInv'
  <2>1. /\ job'[t] = None /\ \A u \in Tabs : u # t => job'[u] = job[u]
        /\ live' = live /\ page' = page /\ scope' = scope /\ ready' = ready /\ toggled' = toggled
    BY <1>5 DEF Finish, Shape
  <2>2. ASSUME NEW u \in Tabs, job'[u] # None PROVE Fresh(u)'
    BY <1>a, <2>1, <2>2
  <2>3. locking => \A u \in Tabs : u # t => job[u] = None
    BY <1>5 DEF Finish, JobInv
  <2> QED BY <1>0, <2>1, <2>2, <2>3 DEF JobInv
<1>6. ASSUME NEW t \in Tabs, NEW d \in Depths, SetDepth(t, d) PROVE JobInv'
  BY <1>b, <1>6 DEF SetDepth, Settled
<1>7. ASSUME NEW t \in Tabs, Share(t) PROVE JobInv'
  BY <1>b, <1>7 DEF Share, Settled
<1>8. ASSUME NEW t \in Tabs, Shipped(t) PROVE JobInv'
  BY <1>b, <1>8 DEF Shipped, Settled, Posted
<1>9. ASSUME NEW t \in Tabs, Repair(t) PROVE JobInv'
  <2>1. job' = [job EXCEPT ![t] =
                 [read |-> store, next |-> Without(store, Missing(t)), resend |-> TRUE]]
    BY <1>9 DEF Repair
  <2>2. Missing(t) \in SUBSET (Concepts \ live')
    <3>1. share[t].walk \in Seq(Stop) /\ live' = live
      BY <1>0, <1>9 DEF Repair, Posted, Shape, TabInv
    <3>2. Ids(share[t].walk) \subseteq Concepts
      <4> DEFINE walk == share[t].walk
      <4>1. DOMAIN walk = 1..Len(walk) /\ \A i \in 1..Len(walk) : walk[i] \in Stop
        BY <3>1, LenProperties
      <4>2. \A s \in Stop : s.id \in Concepts
        BY DEF Stop
      <4> QED BY <4>1, <4>2 DEF Ids
    <3> QED BY <3>1, <3>2 DEF Missing
  <2>3. job'[t] # None => Fresh(t)' /\ job'[t].read = store
    BY <2>1, <2>2 DEF Fresh, Shape
  <2>4. \A u \in Tabs : u # t => job'[u] = job[u]
    BY <2>1 DEF Shape
  <2> QED BY <1>9, <1>c, <2>3, <2>4 DEF Repair
<1>10. ASSUME NEW t \in Tabs, ShareFails(t) PROVE JobInv'
  BY <1>b, <1>10 DEF ShareFails, Settled, Posted
<1>11. ASSUME NEW t \in Tabs, NEW w \in session.shared, OpenTrail(t, w) PROVE JobInv'
  BY <1>b, <1>11 DEF OpenTrail, Settled
<1>12. ASSUME NEW t \in Tabs, TrailArrives(t) \/ Retry(t) PROVE JobInv'
  BY <1>b, <1>12 DEF TrailArrives, Retry
<1>13. ASSUME NEW t \in Tabs, Walk(t) PROVE JobInv'
  <2>1. /\ job[t] = None /\ job' = job /\ live' = live
        /\ locking => \A u \in Tabs : job[u] = None
    BY <1>13 DEF Walk, Free
  <2>2. \A u \in Tabs : u # t => /\ page'[u] = page[u] /\ scope'[u] = scope[u]
                                 /\ ready'[u] = ready[u] /\ toggled'[u] = toggled[u]
    BY <1>13 DEF Walk
  <2>3. ASSUME NEW u \in Tabs, job'[u] # None PROVE Fresh(u)'
    BY <1>a, <2>1, <2>2, <2>3
  <2> QED BY <1>0, <2>1, <2>3 DEF JobInv
<1>14. ASSUME NEW c \in Concepts, Unpublish(c) PROVE JobInv'
  BY <1>b, <1>14 DEF Unpublish
<1>15. CASE UNCHANGED vars
  BY <1>b, <1>15 DEF vars
<1> QED
  BY <1>1, <1>2, <1>3, <1>4, <1>5, <1>6, <1>7, <1>8, <1>9, <1>10, <1>11, <1>12, <1>13, <1>14, <1>15
  DEF Next

\* The page last put on record stays there as it is shown: a repair keeps the
\* end of the trail or takes it out, another visit makes another author.
LEMMA AuthorStep ==
  ASSUME TypeOK, Shape, JobInv, AuthorInv, [Next]_vars
  PROVE  AuthorInv'
<1>0. /\ session' = session /\ (locking' <=> locking) /\ Trails = Seq(Stop) /\ Stops(Depths) = Stop
      /\ MaxStops \in Nat \ {0} /\ Initial \in Depths /\ None \notin Depths /\ None \notin Tabs
      /\ store \in Seq(Stop) /\ Len(store) <= MaxStops
      /\ None \notin [read : Trails, next : Trails, resend : BOOLEAN]
  BY SameSession, OfSession DEF Trails, Stops, Stop, TypeOK
<1>a. ASSUME store' = store,
             \A u \in Tabs : author' = u =>
               /\ author = u /\ page'[u] = page[u] /\ (ready[u] => ready'[u])
               /\ Quiet(u)' => Quiet(u) /\ scope'[u] = scope[u]
      PROVE  AuthorInv'
  BY <1>0, <1>a DEF AuthorInv, OnRecord, Onscreen
<1>d. ~locking => AuthorInv'
  BY <1>0 DEF AuthorInv
<1>e. \A s \in Trails : \A p : EndsAt(s, p) => p \in Ids(s)
  <2> SUFFICES ASSUME NEW s \in Trails, NEW p, EndsAt(s, p) PROVE p \in Ids(s)
    OBVIOUS
  <2>1. Len(s) \in Nat /\ Len(s) # 0 /\ DOMAIN s = 1..Len(s)
    BY <1>0, NonEmpty, LenProperties DEF EndsAt
  <2>2. Len(s) \in DOMAIN s
    BY <2>1
  <2> QED BY <2>2 DEF EndsAt, Last, Ids
<1> USE DEF TypeOK, Show, screen, Leaves
<1>1. ASSUME NEW t \in Tabs, NEW c \in Concepts \cup {None}, Open(t, c) PROVE AuthorInv'
  BY <1>0, <1>a, <1>1 DEF Open, Quiet
<1>2. ASSUME NEW t \in Tabs, Back(t) PROVE AuthorInv'
  BY <1>0, <1>a, <1>2 DEF Back, Quiet
<1>3. ASSUME NEW t \in Tabs, Visit(t) PROVE AuthorInv'
  <2> SUFFICES ASSUME locking PROVE AuthorInv'
    BY <1>d
  <2>1. author # t
    BY <1>3 DEF Visit, AuthorInv, OnRecord
  <2>2. \A u \in Tabs : u # t => job'[u] = job[u] /\ (ready[u] => ready'[u])
    BY <1>3 DEF Visit, Shape
  <2> QED BY <1>a, <1>3, <2>1, <2>2 DEF Visit, Quiet
<1>4. ASSUME NEW t \in Tabs, RecordDepth(t) PROVE AuthorInv'
  <2> SUFFICES ASSUME locking PROVE AuthorInv'
    BY <1>d
  <2> DEFINE next == withDepth(store, page[t], scope[t])
             write == [read |-> store, next |-> next, resend |-> FALSE]
  <2>1. /\ store' = store /\ page' = page /\ ready' = ready /\ scope' = scope /\ author' = author
        /\ toggled' = [toggled EXCEPT ![t] = FALSE]
        /\ job' = [job EXCEPT ![t] = IF next = store THEN None ELSE write]
    BY <1>4 DEF RecordDepth
  <2>2. page[t] \in Concepts /\ scope[t] \in Depths /\ Onscreen(t) = scope[t]
    BY <1>0, <1>4 DEF RecordDepth, Shape, TabInv, Onscreen
  <2>3. next \in Trails /\ (EndsAt(store, page[t]) => Last(next).depth = scope[t])
    BY <1>0, <2>2, Depthed
  <2> HIDE DEF next
  <2>4. write # None /\ ~write.resend
    <3>1. write \in [read : Trails, next : Trails, resend : BOOLEAN] /\ write.resend = FALSE
      BY <1>0, <2>3
    <3> QED BY <1>0, <3>1
  <2> HIDE DEF write
  <2>5. \A u \in Tabs : Onscreen(u)' = Onscreen(u)
    BY <2>1 DEF Onscreen
  <2>6. ASSUME author = t PROVE OnRecord(t)'
    <3>1. OnRecord(t)
      BY <2>6 DEF AuthorInv
    <3>2. Quiet(t)' => next = store
      BY <2>1, <2>4 DEF Quiet, Shape
    <3> QED BY <2>1, <2>2, <2>3, <2>5, <3>1, <3>2 DEF OnRecord
  <2>7. ASSUME NEW u \in Tabs, u # t, author = u PROVE OnRecord(u)'
    <3>1. OnRecord(u)
      BY <2>7 DEF AuthorInv
    <3>2. Quiet(u)' => Quiet(u)
      BY <2>1, <2>7 DEF Quiet, Shape
    <3> QED BY <2>1, <2>5, <3>1, <3>2 DEF OnRecord
  <2> QED BY <2>1, <2>6, <2>7 DEF AuthorInv
<1>5. ASSUME NEW t \in Tabs, Finish(t) PROVE AuthorInv'
  <2> SUFFICES ASSUME locking PROVE AuthorInv'
    BY <1>d
  <2>1. /\ store' = job[t].next /\ page' = page /\ ready' = ready /\ scope' = scope /\ toggled' = toggled
        /\ author' = IF job[t].resend THEN author ELSE t
    BY <1>5 DEF Finish
  <2>2. Fresh(t) /\ job[t].read = store /\ \A u \in Tabs : u # t => job[u] = None
    BY <1>5 DEF Finish, JobInv
  <2>3. \A u \in Tabs : Onscreen(u)' = Onscreen(u)
    BY <2>1 DEF Onscreen
  <2>4. ASSUME job[t].resend, NEW u \in Tabs, author = u PROVE OnRecord(u)'
    <3>1. PICK ids \in SUBSET (Concepts \ live) : store' = Without(store, ids)
      BY <2>1, <2>2, <2>4 DEF Fresh
    <3>2. /\ store' \in Trails /\ Ids(store') = Ids(store) \ ids
          /\ store # <<>> /\ Last(store).id \notin ids => store' # <<>> /\ Last(store') = Last(store)
      <4> DEFINE left == Without(store, ids)
      <4>1. /\ left \in Seq(Stop) /\ Ids(left) = Ids(store) \ ids
            /\ store # <<>> /\ Last(store).id \notin ids => left # <<>> /\ Last(left) = Last(store)
        BY <1>0, Filtered
      <4>2. store' = left
        BY <3>1
      <4> HIDE DEF left
      <4> QED BY <1>0, <4>1, <4>2
    <3>3. OnRecord(u) /\ (job[u] = None \/ job[u].resend)
      BY <2>2, <2>4 DEF AuthorInv
    <3>4. EndsAt(store', page[u]) => page[u] \in Ids(store) \ ids
      BY <1>e, <3>2
    <3>5. EndsAt(store, page[u]) => EndsAt(store', page[u]) \/ page[u] \in ids
      BY <3>2 DEF EndsAt
    <3>6. EndsAt(store, page[u]) /\ page[u] \notin ids => Last(store') = Last(store)
      BY <3>2 DEF EndsAt
    <3> QED BY <2>1, <2>3, <3>2, <3>3, <3>4, <3>5, <3>6 DEF OnRecord, Quiet
  <2>5. ASSUME ~job[t].resend PROVE OnRecord(t)'
    <3>1. ready[t] /\ store' = WithPage(t, store) /\ page[t] \in Concepts
      BY <2>1, <2>2, <2>5 DEF Fresh, Shape, TabInv
    <3> DEFINE stop == [id |-> page[t], depth |-> Onscreen(t)]
    <3>2. stop \in Stop /\ stop.id = page[t] /\ stop.depth = Onscreen(t)
      BY <1>0, <3>1 DEF Stop, Onscreen
    <3>3. store' = append(store, stop)
      BY <3>1 DEF WithPage
    <3> HIDE DEF stop
    <3>4. EndsAt(store', page[t]) /\ Last(store').depth = Onscreen(t)
      BY <1>0, <3>2, <3>3, Appending
    <3> QED BY <2>1, <2>3, <3>1, <3>4 DEF OnRecord
  <2>6. CASE job[t].resend
    BY <2>1, <2>4, <2>6 DEF AuthorInv
  <2>7. CASE ~job[t].resend
    <3>1. author' = t
      BY <2>1, <2>7
    <3> QED BY <2>5, <2>7, <3>1 DEF AuthorInv
  <2> QED BY <2>6, <2>7
<1>6. ASSUME NEW t \in Tabs, NEW d \in Depths, SetDepth(t, d) PROVE AuthorInv'
  <2> SUFFICES ASSUME locking PROVE AuthorInv'
    BY <1>d
  <2>1. author = t => ready[t]
    BY <1>6 DEF AuthorInv, OnRecord
  <2>2. author = t => ~Quiet(t)'
    BY <1>6, <2>1 DEF SetDepth, Quiet
  <2>3. \A u \in Tabs : u # t => scope'[u] = scope[u] /\ (Quiet(u)' => Quiet(u))
    BY <1>6 DEF SetDepth, Quiet
  <2> QED BY <1>d, <1>6, <2>2, <2>3 DEF SetDepth, AuthorInv, OnRecord, Onscreen
<1>7. ASSUME NEW t \in Tabs, Share(t) PROVE AuthorInv'
  BY <1>0, <1>a, <1>7 DEF Share, Quiet
<1>8. ASSUME NEW t \in Tabs, Shipped(t) PROVE AuthorInv'
  BY <1>0, <1>a, <1>8 DEF Shipped, Quiet
<1>9. ASSUME NEW t \in Tabs, Repair(t) PROVE AuthorInv'
  BY <1>0, <1>a, <1>9 DEF Repair, Quiet, Free, Shape
<1>10. ASSUME NEW t \in Tabs, ShareFails(t) PROVE AuthorInv'
  BY <1>0, <1>a, <1>10 DEF ShareFails, Quiet
<1>11. ASSUME NEW t \in Tabs, NEW w \in session.shared, OpenTrail(t, w) PROVE AuthorInv'
  BY <1>0, <1>a, <1>11 DEF OpenTrail, Quiet
<1>12. ASSUME NEW t \in Tabs, TrailArrives(t) \/ Retry(t) PROVE AuthorInv'
  BY <1>a, <1>12 DEF TrailArrives, Retry, Quiet
<1>13. ASSUME NEW t \in Tabs, Walk(t) PROVE AuthorInv'
  BY <1>0, <1>13 DEF Walk, AuthorInv
<1>14. ASSUME NEW c \in Concepts, Unpublish(c) PROVE AuthorInv'
  BY <1>a, <1>14 DEF Unpublish, Quiet
<1>15. CASE UNCHANGED vars
  BY <1>a, <1>15 DEF vars, Quiet
<1> QED
  BY <1>1, <1>2, <1>3, <1>4, <1>5, <1>6, <1>7, <1>8, <1>9, <1>10, <1>11, <1>12, <1>13, <1>14, <1>15
  DEF Next

\* The inductive invariant holds throughout.
THEOREM Invariance == Spec => []IInv
<1>1. Init => IInv
  BY InitInv
<1>2. IInv /\ [Next]_vars => IInv'
  BY TypeStep, ShapeStep, LandStep, JobStep, AuthorStep DEF IInv
<1> QED BY <1>1, <1>2, PTL DEF Spec

\* Types: one trail no longer than MAX_STOPS, a state for each tab.
THEOREM TypeCorrect == Spec => []TypeOK
<1>1. IInv => TypeOK
  BY DEF IInv
<1> QED BY <1>1, Invariance, PTL

\* However many tabs write, and in whatever order the islands hydrate, the page
\* that last put itself on record is on record at the depth it shows.
THEOREM DepthIsOnRecord == Spec => []DepthOnRecord
<1>1. IInv => DepthOnRecord
  <2> SUFFICES ASSUME IInv, NEW t \in Tabs, locking, author = t, Settled(t), EndsAt(store, page[t])
               PROVE  Last(store).depth = Onscreen(t)
    BY DEF DepthOnRecord
  <2>1. OnRecord(t) /\ Quiet(t)
    BY DEF IInv, AuthorInv, Settled, Quiet
  <2> QED BY <2>1 DEF OnRecord
<1> QED BY <1>1, Invariance, PTL

\* Landing on an adopted walk writes nothing, whatever other tabs do meanwhile.
THEOREM LandingWritesNothing == Spec => LandingKeepsOrder
<1>1. IInv /\ [Next]_vars =>
        [\A t \in Tabs : landing[t] /\ ready'[t] /\ page[t] \in Ids(store) => job'[t] = None]_vars
  <2> SUFFICES ASSUME IInv, Next, NEW t \in Tabs, landing[t], ready'[t], page[t] \in Ids(store)
               PROVE  job'[t] = None
    OBVIOUS
  <2>1. ~ready[t] /\ marker[t] = page[t]
    BY DEF IInv, LandInv
  <2> USE DEF TypeOK, Show, screen
  <2>2. PICK u \in Tabs : Visit(u) \/ Back(u)
    BY <2>1 DEF IInv, Next, Open, SetDepth, RecordDepth, Share, Shipped, Repair, ShareFails, Finish,
                OpenTrail, TrailArrives, Retry, Walk, Unpublish
  <2>3. u = t
    BY <2>1, <2>2 DEF IInv, Visit, Back
  <2>4. job[t] = None /\ job' = job
    BY <2>1, <2>2, <2>3 DEF Visit, Back, Free, Settled
  <2> QED BY <2>4
<1> QED BY <1>1, Invariance, PTL DEF Spec, LandingKeepsOrder

\* What a step does to the trail: a write that is out makes it, or a walk is
\* adopted, or nothing happens to it.
LEMMA StoreStep ==
  ASSUME IInv, [Next]_vars
  PROVE  \/ store' = store
         \/ \E t \in Tabs : Walk(t)
         \/ \E t \in Tabs : job[t] # None /\ job'[t] = None /\ store' = job[t].next
BY DEF Next, Open, Back, Visit, SetDepth, RecordDepth, Share, Shipped, Repair, ShareFails, Finish,
       OpenTrail, TrailArrives, Retry, Unpublish, vars, IInv, Shape

\* A write takes out of the trail it read dead stops, or the oldest of a full one
\* for a new stop.
LEMMA WriteTakes ==
  ASSUME IInv, NEW t \in Tabs, job[t] # None, store' = job[t].next,
         NEW id \in Ids(job[t].read) \ Ids(store')
  PROVE  id \notin live \/ PushedOff(id, job[t].read)
<1> DEFINE trail == job[t].read
<1>0. /\ trail \in Seq(Stop) /\ Len(trail) <= MaxStops /\ Stops(Depths) = Stop
      /\ MaxStops \in Nat \ {0} /\ Initial \in Depths /\ Fresh(t)
  BY OfSession DEF IInv, TypeOK, Shape, TabInv, WriteInv, Trails, Stops, Stop, JobInv
<1> HIDE DEF trail
<1>1. CASE job[t].resend
  <2>1. PICK ids \in SUBSET (Concepts \ live) : store' = Without(trail, ids)
    BY <1>0, <1>1 DEF Fresh, trail
  <2>2. Ids(store') = Ids(trail) \ ids
    BY <1>0, <2>1, Filtered
  <2> QED BY <2>2 DEF trail
<1>2. CASE ~job[t].resend
  <2> DEFINE stop == [id |-> page[t], depth |-> Onscreen(t)]
  <2>1. stop \in Stop /\ store' = append(trail, stop)
    BY <1>0, <1>2 DEF IInv, TypeOK, Fresh, WithPage, Shape, TabInv, Stop, Onscreen, trail
  <2> HIDE DEF stop
  <2>2. MakesRoom(trail, store')
    BY <1>0, <2>1, Appending
  <2> QED BY <2>2 DEF MakesRoom, PushedOff, trail
<1> QED BY <1>1, <1>2

\* No tab forgets what another recorded: a stop goes because it is dead, as the
\* oldest of a full trail for a new one, or because the reader adopts another walk;
\* without the lock, also because the tab that writes had read before it came.
THEOREM NothingIsForgotten == Spec => NothingForgotten
<1>1. IInv /\ [Next]_vars =>
        [\A id \in Ids(store) \ Ids(store') :
           \/ id \notin live \/ (\E t \in Tabs : Walk(t))
           \/ \E t \in Tabs :
                /\ job[t] # None /\ job'[t] = None
                /\ id \notin Ids(Base(t)) \/ PushedOff(id, Base(t))]_vars
  <2> SUFFICES ASSUME IInv, [Next]_vars, NEW id \in Ids(store) \ Ids(store'), id \in live,
                      ~(\E t \in Tabs : Walk(t))
               PROVE  \E t \in Tabs :
                        /\ job[t] # None /\ job'[t] = None
                        /\ id \notin Ids(Base(t)) \/ PushedOff(id, Base(t))
    OBVIOUS
  <2>1. PICK t \in Tabs : job[t] # None /\ job'[t] = None /\ store' = job[t].next
    BY StoreStep
  <2>2. Base(t) = job[t].read
    BY <2>1 DEF Base, IInv, JobInv
  <2>3. id \in Ids(job[t].read) => PushedOff(id, job[t].read)
    BY <2>1, WriteTakes
  <2> QED BY <2>1, <2>2, <2>3
<1> QED BY <1>1, Invariance, PTL DEF Spec, NothingForgotten

\* A stale island never rewrites the depth of a stop the reader has walked past.
THEOREM StaleIslandsAreHarmless == Spec => StaleIslandHarmless
<1>1. IInv /\ [Next]_vars =>
        [locking /\ Len(store') = Len(store) /\ (\A i \in DOMAIN store : store'[i].id = store[i].id)
           /\ ~(\E t \in Tabs : Walk(t))
         => \A i \in 1..(Len(store) - 1) : store'[i] = store[i]]_vars
  <2> SUFFICES ASSUME IInv, [Next]_vars, locking, ~(\E t \in Tabs : Walk(t)),
                      Len(store') = Len(store), \A i \in DOMAIN store : store'[i].id = store[i].id
               PROVE  \A i \in 1..(Len(store) - 1) : store'[i] = store[i]
    OBVIOUS
  <2>0. /\ store \in Seq(Stop) /\ Len(store) <= MaxStops /\ Stops(Depths) = Stop
        /\ MaxStops \in Nat \ {0} /\ Initial \in Depths /\ DOMAIN store = 1..Len(store)
    BY OfSession, LenProperties DEF IInv, TypeOK, Stops, Stop
  <2>1. CASE store' = store
    BY <2>1
  <2>2. ASSUME NEW t \in Tabs, job[t] # None, store' = job[t].next, job[t].resend
        PROVE  store' = store
    <3>1. PICK ids \in SUBSET (Concepts \ live) : store' = Without(store, ids)
      BY <2>2 DEF IInv, JobInv, Fresh
    <3> QED BY <2>0, <3>1, Filtered
  <2>3. ASSUME NEW t \in Tabs, job[t] # None, store' = job[t].next, ~job[t].resend
        PROVE  \A i \in 1..(Len(store) - 1) : store'[i] = store[i]
    <3> DEFINE stop == [id |-> page[t], depth |-> Onscreen(t)]
    <3>1. stop \in Stop /\ store' = append(store, stop)
      BY <2>0, <2>3 DEF IInv, JobInv, Fresh, WithPage, Shape, TabInv, Stop, Onscreen
    <3> HIDE DEF stop
    <3>2. Len(store') = Len(store) /\ \A i \in 1..Len(store) : store'[i].id = store[i].id
      BY <2>0
    <3> QED BY <2>0, <3>1, <3>2, Appending
  <2> QED BY <2>1, <2>2, <2>3, StoreStep
<1> QED BY <1>1, Invariance, PTL DEF Spec, StaleIslandHarmless

-----------------------------------------------------------------------------
\* The trail implements its contract.

\* Filtering thins: what is left is at increasing places, and nothing else goes.
LEMMA WithoutThins ==
  ASSUME NEW S, NEW trail \in Seq(S), NEW ids
  PROVE  OneTrail!Thinned(trail, OneTrail!Places(trail, ids), Without(trail, ids))
<1> DEFINE kept == Kept(trail, ids)
           c    == Cardinality(kept)
           left == Without(trail, ids)
           n    == Len(trail)
           at   == [k \in 1..c |-> CHOOSE i \in kept : Rank(i, kept) = k]
<1>1. n \in Nat /\ DOMAIN trail = 1..n
  BY LenProperties
<1>2. kept \in SUBSET (1..n)
  BY <1>1 DEF Kept
<1>3. kept = DOMAIN trail \ OneTrail!Places(trail, ids)
  BY <1>1 DEF Kept, OneTrail!Places
<1>4. left = [k \in 1..c |-> trail[CHOOSE i \in kept : Rank(i, kept) = k]]
  BY DEF Without
<1> HIDE DEF kept, n
<1>5. /\ c \in Nat
      /\ \A i \in kept : Rank(i, kept) \in 1..c
      /\ \A i, j \in kept : Rank(i, kept) = Rank(j, kept) => i = j
      /\ \A i, j \in kept : i < j => Rank(i, kept) < Rank(j, kept)
      /\ \A k \in 1..c : \E i \in kept : Rank(i, kept) = k
  BY <1>1, <1>2, Ranks, Zenon
<1> HIDE DEF c
<1>6. \A k \in 1..c : at[k] \in kept /\ Rank(at[k], kept) = k
  BY <1>5
<1>7. \A i \in kept : at[Rank(i, kept)] = i
  BY <1>5, <1>6
<1>8. DOMAIN left = 1..c /\ \A k \in 1..c : left[k] = trail[at[k]]
  BY <1>4
<1>9. at \in [DOMAIN left -> kept]
  BY <1>6, <1>8
<1> HIDE DEF at, left
<1>10. \A j, k \in 1..c : j < k => at[j] < at[k]
  <2> SUFFICES ASSUME NEW j \in 1..c, NEW k \in 1..c, j < k, ~(at[j] < at[k]) PROVE FALSE
    OBVIOUS
  <2>1. at[j] \in kept /\ at[k] \in kept /\ Rank(at[j], kept) = j /\ Rank(at[k], kept) = k
    BY <1>6
  <2>2. \A x \in kept : x \in Nat
    BY <1>1, <1>2
  <2>3. at[k] < at[j] \/ at[k] = at[j]
    BY <2>1, <2>2
  <2>4. k < j \/ k = j
    BY <1>5, <2>1, <2>3
  <2>5. k \in Nat /\ j \in Nat
    BY <1>5
  <2>6. QED
    BY <2>4, <2>5
<1>11. \A p \in kept : \E k \in 1..c : at[k] = p
  BY <1>5, <1>7
<1>12. QED
  BY <1>3, <1>8, <1>9, <1>10, <1>11 DEF OneTrail!Thinned, left

\* A visit records its stop: in its place if it is being read, else at the end of
\* what is left, and the oldest goes only if the trail was full.
LEMMA AppendRecords ==
  ASSUME MaxStops \in Nat \ {0}, NEW trail \in Seq(Stop), Len(trail) <= MaxStops, NEW stop \in Stop
  PROVE  OneTrail!Recorded(trail, stop, append(trail, stop))
<1> DEFINE next == append(trail, stop)
           n == Len(trail)
<1>1. /\ n \in Nat /\ DOMAIN trail = 1..n /\ \A i \in 1..n : trail[i] \in Stop
      /\ stop.id \in Concepts /\ stop.depth \in Depths
  BY LenProperties DEF Stop
<1>2. EndsAt(trail, stop.id) <=> trail # <<>> /\ trail[n].id = stop.id
  BY DEF EndsAt, Last
<1>3. CASE EndsAt(trail, stop.id)
  <2>1. n \in 1..n
    BY <1>1, <1>2, <1>3, EmptySeq
  <2>2. [trail[n] EXCEPT !.depth = stop.depth] = stop
    BY <1>1, <1>2, <1>3, <2>1 DEF Stop
  <2>3. next = [trail EXCEPT ![n] = stop]
    BY <1>3, <2>2 DEF append, withDepth
  <2> HIDE DEF next
  <2>4. QED
    BY <1>2, <1>3, <2>3 DEF OneTrail!Recorded, next
<1>4. CASE ~EndsAt(trail, stop.id)
  <2> DEFINE left == Without(trail, {stop.id})
             whole == Append(left, stop)
             out == OneTrail!Places(trail, {stop.id})
  <2>1. next = Capped(whole)
    BY <1>4 DEF append
  <2>2. left \in Seq(Stop) /\ Len(left) <= n /\ (Len(left) = n => left = trail)
    BY Filtered
  <2>3. OneTrail!Thinned(trail, out, left)
    BY WithoutThins
  <2> HIDE DEF left, out
  <2>4. /\ whole \in Seq(Stop) /\ Len(whole) = Len(left) + 1
        /\ \A i \in 1..Len(left) : whole[i] = left[i]
        /\ whole[Len(left) + 1] = stop
    BY <2>2, AppendProperties
  <2> HIDE DEF whole, next
  <2>5. Len(left) \in Nat /\ DOMAIN left = 1..Len(left) /\ DOMAIN whole = 1..Len(left) + 1
    BY <2>2, <2>4, LenProperties
  <2>6. whole # <<>> /\ Last(whole) = stop
    BY <2>4, <2>5, EmptySeq DEF Last
  <2>7. /\ next \in Seq(Stop) /\ Len(next) <= MaxStops /\ next # <<>> /\ next[Len(next)] = stop
        /\ Len(whole) <= MaxStops => next = whole
    BY <2>1, <2>4, <2>6, Caps DEF Last
  <2>8. CASE Len(whole) <= MaxStops
    <3>1. next = whole
      BY <2>7, <2>8
    <3>2. SubSeq(whole, 1, Len(left)) = left
      <4>1. 1 \in Int /\ Len(left) \in Int /\ \A i \in 1..Len(left) : whole[i] \in Stop
        BY <2>2, <2>4, <2>5
      <4>2. /\ SubSeq(whole, 1, Len(left)) \in Seq(Stop)
            /\ Len(SubSeq(whole, 1, Len(left))) = IF 1 <= Len(left) THEN Len(left) - 1 + 1 ELSE 0
            /\ \A i \in 1..Len(left) - 1 + 1 : SubSeq(whole, 1, Len(left))[i] = whole[1 + i - 1]
        BY <4>1, SubSeqProperties
      <4>3. Len(SubSeq(whole, 1, Len(left))) = Len(left)
        BY <2>5, <4>2
      <4>4. \A i \in 1..Len(left) : SubSeq(whole, 1, Len(left))[i] = left[i]
        BY <2>4, <2>5, <4>2
      <4>5. QED
        BY <2>2, <4>2, <4>3, <4>4, SeqEqual
    <3>3. SubSeq(next, 1, Len(next) - 1) = left
      BY <2>4, <2>5, <3>1, <3>2
    <3>4. (1..0) \cup out = out /\ 0 \in 0..n /\ ~(0 > 0)
      BY <1>1
    <3>5. QED
      BY <1>2, <1>4, <2>3, <2>7, <3>3, <3>4 DEF OneTrail!Recorded, next, out
  <2>9. CASE ~(Len(whole) <= MaxStops)
    <3>1. Len(left) = n /\ n = MaxStops /\ left = trail /\ n >= 1
      <4>1. Len(left) + 1 > MaxStops /\ Len(left) \in Nat /\ n <= MaxStops /\ MaxStops >= 1 /\ MaxStops \in Nat
        BY <2>4, <2>5, <2>9
      <4> HIDE DEF n
      <4>2. Len(left) = n /\ n = MaxStops /\ n >= 1
        BY <1>1, <2>2, <4>1
      <4>3. QED
        BY <2>2, <4>2
    <3>2. out = {}
      <4>1. Ids(trail) = Ids(trail) \ {stop.id}
        BY <3>1, Filtered DEF left
      <4>2. \A i \in 1..n : trail[i].id # stop.id
        BY <1>1, <4>1 DEF Ids
      <4>3. QED
        BY <1>1, <4>2 DEF out, OneTrail!Places
    <3>3. next = SubSeq(whole, 2, n + 1)
      <4>1. Len(whole) = n + 1 /\ Len(whole) - MaxStops + 1 = 2 /\ Len(whole) > MaxStops
        BY <1>1, <2>4, <3>1
      <4>2. QED
        BY <2>1, <4>1 DEF Capped
    <3>4. Len(next) = n /\ \A i \in 1..n : next[i] = whole[i + 1]
      <4>1. 2 \in Int /\ n + 1 \in Int /\ \A i \in 2..n + 1 : whole[i] \in Stop
        <5>1. \A i \in 1..n + 1 : whole[i] \in Stop
          BY <2>4, <2>5, <3>1, LenProperties
        <5>2. QED
          BY <1>1, <5>1
      <4>2. /\ Len(next) = IF 2 <= n + 1 THEN n + 1 - 2 + 1 ELSE 0
            /\ \A i \in 1..n + 1 - 2 + 1 : next[i] = whole[2 + i - 1]
        BY <3>3, <4>1, SubSeqProperties
      <4>3. n + 1 - 2 + 1 = n /\ \A i \in 1..n : 2 + i - 1 = i + 1
        BY <1>1
      <4>4. QED
        BY <1>1, <3>1, <4>2, <4>3
    <3> DEFINE rest == SubSeq(next, 1, n - 1)
               at == [k \in 1..n - 1 |-> k + 1]
    <3>5. DOMAIN rest = 1..n - 1 /\ \A i \in 1..n - 1 : rest[i] = next[i]
      <4>1. 1 \in Int /\ n - 1 \in Int /\ \A i \in 1..n - 1 : next[i] \in Stop
        BY <1>1, <2>7, <3>4, LenProperties
      <4>2. /\ rest \in Seq(Stop) /\ Len(rest) = IF 1 <= n - 1 THEN n - 1 - 1 + 1 ELSE 0
            /\ \A i \in 1..n - 1 - 1 + 1 : rest[i] = next[1 + i - 1]
        BY <4>1, SubSeqProperties
      <4>3. Len(rest) = n - 1
        BY <1>1, <3>1, <4>2
      <4>4. DOMAIN rest = 1..n - 1
        BY <4>2, <4>3, LenProperties
      <4>5. n - 1 - 1 + 1 = n - 1 /\ \A i \in 1..n - 1 : 1 + i - 1 = i
        BY <1>1
      <4>6. QED
        BY <4>2, <4>4, <4>5
    <3> HIDE DEF rest
    <3>6. \A i \in 1..n - 1 : rest[i] = trail[at[i]]
      <4> SUFFICES ASSUME NEW i \in 1..n - 1 PROVE rest[i] = trail[i + 1]
        OBVIOUS
      <4>1. i \in 1..n /\ i + 1 \in 1..n
        BY <1>1
      <4>2. rest[i] = whole[i + 1]
        BY <3>4, <3>5, <4>1
      <4>3. QED
        BY <2>4, <3>1, <4>1, <4>2
    <3>7. OneTrail!Thinned(trail, {1}, rest)
      <4>1. DOMAIN trail \ {1} = 2..n
        BY <1>1
      <4>2. at \in [1..n - 1 -> 2..n] /\ \A j, k \in 1..n - 1 : j < k => at[j] < at[k]
        BY <1>1
      <4>3. \A p \in 2..n : p - 1 \in 1..n - 1 /\ at[p - 1] = p
        BY <1>1
      <4> HIDE DEF at
      <4>4. at \in [DOMAIN rest -> DOMAIN trail \ {1}]
        BY <3>5, <4>1, <4>2
      <4>5. \A p \in DOMAIN trail \ {1} : \E k \in DOMAIN rest : at[k] = p
        BY <3>5, <4>1, <4>3
      <4>6. \A j, k \in DOMAIN rest : j < k => at[j] < at[k]
        BY <3>5, <4>2
      <4>7. \A k \in DOMAIN rest : rest[k] = trail[at[k]]
        BY <3>5, <3>6
      <4>8. QED
        BY <4>4, <4>5, <4>6, <4>7, Zenon DEF OneTrail!Thinned
    <3>8. (1..1) \cup OneTrail!Places(trail, {stop.id}) = {1} /\ 1 \in 0..n /\ Len(next) = MaxStops
      <4>1. 1..1 = {1} /\ 1 \in 0..n
        BY <1>1, <3>1
      <4>2. (1..1) \cup out = {1}
        BY <3>2, <4>1
      <4>3. QED
        BY <3>1, <3>4, <4>1, <4>2 DEF out
    <3>9. QED
      BY <1>2, <1>4, <2>7, <3>4, <3>7, <3>8 DEF OneTrail!Recorded, next, rest
  <2>10. QED
    BY <2>8, <2>9
<1>5. QED
  BY <1>3, <1>4

\* Of a walk too long, the end of it is kept, as much as a trail holds.
LEMMA CapsEnd ==
  ASSUME MaxStops \in Nat \ {0}, NEW S, NEW trail \in Seq(S)
  PROVE  \E n \in 0..Len(trail) :
           /\ Capped(trail) = SubSeq(trail, n + 1, Len(trail))
           /\ n > 0 => Len(Capped(trail)) = MaxStops
<1> DEFINE len == Len(trail)
<1>1. len \in Nat /\ \A i \in 1..len : trail[i] \in S
  BY LenProperties
<1>2. CASE len > MaxStops
  <2>1. len - MaxStops \in 0..len /\ Capped(trail) = SubSeq(trail, len - MaxStops + 1, len)
    BY <1>1, <1>2 DEF Capped
  <2>2. /\ len - MaxStops + 1 \in Int /\ len \in Int
        /\ \A i \in (len - MaxStops + 1)..len : trail[i] \in S
    BY <1>1, <1>2
  <2>3. Len(SubSeq(trail, len - MaxStops + 1, len))
          = IF len - MaxStops + 1 <= len THEN len - (len - MaxStops + 1) + 1 ELSE 0
    BY <2>2, SubSeqProperties
  <2>4. Len(Capped(trail)) = MaxStops
    BY <1>1, <1>2, <2>1, <2>3
  <2>5. QED
    BY <2>1, <2>4
<1>3. CASE ~(len > MaxStops)
  <2>1. 0 \in 0..len /\ ~(0 > 0) /\ 0 + 1 = 1
    BY <1>1
  <2>2. Capped(trail) = SubSeq(trail, 1, len)
    BY <1>3 DEF Capped
  <2>3. QED
    BY <2>1, <2>2
<1>4. QED
  BY <1>2, <1>3

\* Only a write and an adopted walk change the trail; neither changes what the
\* browser is, no step publishes a concept again, and a tab that is not writing may
\* read the trail.
LEMMA TrailKept ==
  ASSUME IInv, [Next]_vars, store' = store, ~(\E t \in Tabs : Finish(t))
  PROVE  OneTrail!Elsewhere
<1>1. live' \subseteq live
  BY DEF Next, Open, Back, Visit, SetDepth, RecordDepth, Share, Shipped, Repair, ShareFails, Finish,
         OpenTrail, TrailArrives, Retry, Walk, Unpublish, vars
<1>2. (Concepts \ live) \subseteq (Concepts \ live)'
  BY <1>1
<1>3. [locking |-> locking, limit |-> MaxStops]' = [locking |-> locking, limit |-> MaxStops]
  BY SameSession
<1>4. \A t \in Tabs : job'[t] = job[t] \/ (job[t] = None /\ (job'[t] = None \/ job'[t].read = store))
  <2>1. CASE \E t \in Tabs : Visit(t) \/ RecordDepth(t) \/ Repair(t)
    <3>1. PICK t \in Tabs : Visit(t) \/ RecordDepth(t) \/ Repair(t)
      BY <2>1
    <3>2. job[t] = None /\ DOMAIN job = Tabs
      BY <3>1 DEF Visit, RecordDepth, Repair, Free, IInv, Shape
    <3>3. CASE job' = job
      BY <3>3
    <3>4. ASSUME NEW x, x.read = store, job' = [job EXCEPT ![t] = x] \/ job' = [job EXCEPT ![t] = None]
          PROVE  \A u \in Tabs : job'[u] = job[u] \/ (job[u] = None /\ (job'[u] = None \/ job'[u].read = store))
      BY <3>2, <3>4
    <3>5. CASE Visit(t) /\ job' # job
      BY <3>4, <3>5 DEF Visit
    <3>6. CASE RecordDepth(t)
      <4> DEFINE next == withDepth(store, page[t], scope[t])
                 x == [read |-> store, next |-> next, resend |-> FALSE]
      <4>1. job' = [job EXCEPT ![t] = IF next = store THEN None ELSE x]
        BY <3>6 DEF RecordDepth
      <4>2. x.read = store
        OBVIOUS
      <4> HIDE DEF next, x
      <4>3. job' = [job EXCEPT ![t] = x] \/ job' = [job EXCEPT ![t] = None]
        BY <4>1
      <4>4. QED
        BY <3>4, <4>2, <4>3
    <3>7. CASE Repair(t)
      <4> DEFINE x == [read |-> store, next |-> Without(store, Missing(t)), resend |-> TRUE]
      <4>1. job' = [job EXCEPT ![t] = x] /\ x.read = store
        BY <3>7 DEF Repair
      <4> HIDE DEF x
      <4>2. QED
        BY <3>4, <4>1
    <3>8. QED
      BY <3>1, <3>3, <3>5, <3>6, <3>7
  <2>2. CASE ~(\E t \in Tabs : Visit(t) \/ RecordDepth(t) \/ Repair(t))
    <3>1. job' = job
      BY <2>2 DEF Next, Open, Back, SetDepth, Share, Shipped, ShareFails,
             OpenTrail, TrailArrives, Retry, Walk, Unpublish, vars
    <3>2. QED
      BY <3>1
  <2>3. QED
    BY <2>1, <2>2
<1>5. \A t \in Tabs : readTrail'[t] = readTrail[t] \/ (readTrail[t] = {} /\ readTrail'[t] = {store})
  BY <1>4 DEF readTrail
<1>6. QED
  BY <1>2, <1>3, <1>5 DEF OneTrail!Elsewhere

\* Walking a shared trail adopts the one on the screen.
LEMMA WalkAdopts ==
  ASSUME IInv, [Next]_vars, NEW t \in Tabs, Walk(t)
  PROVE  OneTrail!Adopt(t)
<1>1. MaxStops \in Nat \ {0}
  BY OfSession DEF IInv, TypeOK
<1>2. [locking |-> locking, limit |-> MaxStops]'
        = [locking |-> locking, limit |-> MaxStops]
  BY SameSession
<1> DEFINE w == island[t].walk
<1>3. island[t].at = "ready" /\ store' = Capped(w) /\ live' = live
  BY DEF Walk
<1>4. w \in Seq(Stop) /\ w # <<>> /\ offeredWalk[t] = w
  BY <1>3 DEF IInv, Shape, TabInv, Trails, offeredWalk
<1> HIDE DEF w
<1>5. \E n \in 0..Len(w) :
        store' = SubSeq(w, n + 1, Len(w)) /\ (n > 0 => Len(store') = MaxStops)
  BY <1>1, <1>3, <1>4, CapsEnd
<1>6. Len(store') <= MaxStops
  BY <1>1, <1>3, <1>4, Caps
<1>7. offeredWalk' = [offeredWalk EXCEPT ![t] = <<>>]
  BY DEF Walk, Show, NoTrail, offeredWalk, IInv, Shape
<1>8. \A u \in Tabs \ {t} : shownStop'[u] = shownStop[u]
  BY DEF Walk, Show, shownStop, Onscreen, IInv, TypeOK
<1>9. readTrail' = readTrail
  BY DEF Walk, readTrail
<1>10. QED
  BY <1>2, <1>3, <1>4, <1>5, <1>6, <1>7, <1>8, <1>9 DEF OneTrail!Adopt

\* A write records the stop its tab shows, or is a repair, in the trail that was read.
LEMMA FinishWrites ==
  ASSUME IInv, [Next]_vars, NEW t \in Tabs, Finish(t)
  PROVE  OneTrail!Record(t) \/ OneTrail!Repair(t)
<1> DEFINE trail == job[t].read
<1>1. /\ MaxStops \in Nat \ {0} /\ Initial \in Depths /\ job[t] # None /\ store' = job[t].next
      /\ trail \in Seq(Stop) /\ Len(trail) <= MaxStops /\ Fresh(t)
  BY OfSession DEF IInv, TypeOK, Shape, TabInv, WriteInv, Trails, JobInv, Finish
<1>2. readTrail[t] = {trail} /\ readTrail' = [readTrail EXCEPT ![t] = {}]
  BY <1>1 DEF Finish, readTrail, IInv, Shape
<1>3. locking => trail = store
  BY <1>1 DEF IInv, JobInv
<1>4. OneTrail!Writes(t)
  <2>1. live' = live /\ page' = page /\ scope' = scope /\ island' = island
    BY DEF Finish
  <2>2. UNCHANGED <<Concepts \ live, shownStop, offeredWalk, [locking |-> locking, limit |-> MaxStops]>>
    BY <2>1, SameSession DEF shownStop, offeredWalk, Onscreen
  <2>3. QED
    BY <1>2, <1>3, <2>2 DEF OneTrail!Writes
<1> HIDE DEF trail
<1>5. CASE job[t].resend
  <2>1. PICK ids \in SUBSET (Concepts \ live) : store' = Without(trail, ids)
    BY <1>1, <1>5 DEF Fresh, trail
  <2>2. OneTrail!Thinned(trail, OneTrail!Places(trail, ids), store')
    BY <1>1, <2>1, WithoutThins
  <2>3. QED
    BY <1>2, <1>4, <2>2 DEF OneTrail!Repair
<1>6. CASE ~job[t].resend
  <2> DEFINE stop == [id |-> page[t], depth |-> Onscreen(t)]
  <2>1. ready[t] /\ store' = append(trail, stop)
    BY <1>1, <1>6 DEF Fresh, WithPage, trail
  <2>2. page[t] \in Concepts /\ page[t] # None /\ stop \in Stop
    BY <1>1, <2>1, OfSession DEF IInv, TypeOK, Shape, TabInv, Stop, Onscreen
  <2>3. stop \in shownStop[t]
    BY <2>2 DEF shownStop
  <2> HIDE DEF stop
  <2>4. OneTrail!Recorded(trail, stop, store')
    BY <1>1, <2>1, <2>2, AppendRecords
  <2>5. QED
    BY <1>2, <1>4, <2>3, <2>4 DEF OneTrail!Record
<1>7. QED
  BY <1>5, <1>6

\* Any number of tabs, reading the trail and writing it back, leave one list that
\* changes by a stop a tab shows, by a repair of dead stops or by the shared trail
\* on a screen: as if in one step where the browser locks storage, else from the
\* trail that was read.
THEOREM TrailImplements == Spec => TrailSpec
<1>1. Init => OneTrail!TrailInit
  <2> SUFFICES ASSUME Init PROVE OneTrail!TrailInit
    OBVIOUS
  <2>1. store = <<>> /\ Concepts \ live = {}
    BY DEF Init
  <2>2. shownStop = [t \in Tabs |-> {}]
    BY DEF Init, shownStop
  <2>3. offeredWalk = [t \in Tabs |-> <<>>]
    BY DEF Init, offeredWalk, NoTrail
  <2>4. readTrail = [t \in Tabs |-> {}]
    BY DEF Init, readTrail
  <2>5. QED
    BY <2>1, <2>2, <2>3, <2>4 DEF OneTrail!TrailInit
<1>2. IInv /\ [Next]_vars => [OneTrail!TrailNext]_(OneTrail!trailVars)
  <2> SUFFICES ASSUME IInv, [Next]_vars PROVE OneTrail!TrailNext
    OBVIOUS
  <2>1. CASE store' = store /\ ~(\E t \in Tabs : Finish(t))
    BY <2>1, TrailKept DEF OneTrail!TrailNext
  <2>2. CASE \E t \in Tabs : Walk(t)
    BY <2>2, WalkAdopts DEF OneTrail!TrailNext
  <2>3. CASE \E t \in Tabs : Finish(t)
    BY <2>3, FinishWrites DEF OneTrail!TrailNext
  <2>4. store' = store \/ (\E t \in Tabs : Walk(t)) \/ (\E t \in Tabs : Finish(t))
    BY DEF Next, Open, Back, Visit, SetDepth, RecordDepth, Share, Shipped, Repair, ShareFails,
           OpenTrail, TrailArrives, Retry, Unpublish, vars
  <2>5. QED
    BY <2>1, <2>2, <2>3, <2>4
<1>3. QED
  BY <1>1, <1>2, Invariance, PTL DEF Spec, TrailSpec, OneTrail!TrailSpec
=============================================================================
