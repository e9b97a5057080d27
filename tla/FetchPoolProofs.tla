--------------------------- MODULE FetchPoolProofs ---------------------------
(***************************************************************************)
(* For any corpus, hosts, robots.txt files and bounds, and whatever the    *)
(* hosts answer: no url is in two hands and no delayed host is asked twice *)
(* at a time; green means that every page was seen to be right; and what   *)
(* is condemned is at fault.                                               *)
(***************************************************************************)
EXTENDS FetchPool, FiniteSetTheorems, WellFoundedInduction, TLAPS

-----------------------------------------------------------------------------
\* What is computed from a corpus and from a robots.txt.

\* A set of numbers has a least one.
LEMMA Least ==
  ASSUME NEW S \in SUBSET Nat, S # {}
  PROVE  \E m \in S : \A k \in S : m <= k
<1>1. PICK m \in S : \A k \in S : <<k, m>> \notin OpToRel(<, Nat)
  BY NatLessThanWellFounded, WFMin
<1>2. \A k \in S : ~(k < m)
  BY <1>1 DEF OpToRel
<1>3. QED
  BY <1>2

\* A delay that is stated is a number of seconds, and none is 0.
LEMMA DelayIsNumber ==
  ASSUME NEW h \in Hosts
  PROVE  starGroupDelay(Robots[h]) \in Nat
<1> DEFINE robots == Robots[h]
           stated == {i \in DOMAIN robots : /\ robots[i].field = "crawl-delay" /\ robots[i].seconds > 0
                                            /\ "*" \in Agents(robots, i)}
<1>1. robots \in Seq(ToSet(robots)) /\ \A i \in DOMAIN robots : robots[i].seconds \in Nat
  BY LinkReportsAssumption
<1>2. DOMAIN robots \in SUBSET Nat
  <2>1. DOMAIN robots = 1..Len(robots) /\ Len(robots) \in Nat
    BY <1>1
  <2>2. QED
    BY <2>1
<1>3. starGroupDelay(robots) = IF stated = {} THEN 0 ELSE robots[Min(stated)].seconds
  BY DEF starGroupDelay
<1>4. ASSUME stated # {} PROVE Min(stated) \in DOMAIN robots
  <2>1. stated \in SUBSET Nat
    BY <1>2
  <2> HIDE DEF stated
  <2>2. \E m \in stated : \A k \in stated : m <= k
    BY <1>4, <2>1, Least
  <2>3. Min(stated) \in stated
    BY <2>2 DEF Min
  <2>4. QED
    BY <2>3 DEF stated
<1> HIDE DEF stated
<1>5. QED
  BY <1>1, <1>3, <1>4

\* Every url of a corpus comes first somewhere, and no two at one place.
LEMMA FirstIs ==
  ASSUME NEW es, es \in Seq(ToSet(es)), NEW u \in urlsOf(es)
  PROVE  /\ firstOf(es, u) \in DOMAIN es /\ firstOf(es, u) \in Nat
         /\ es[firstOf(es, u)].url = u
<1> DEFINE S == {i \in DOMAIN es : es[i].url = u}
<1>1. DOMAIN es = 1..Len(es) /\ Len(es) \in Nat
  OBVIOUS
<1>2. S \in SUBSET Nat /\ S # {}
  BY <1>1 DEF urlsOf
<1>3. PICK m \in S : \A k \in S : m <= k
  <2> HIDE DEF S
  <2>1. QED
    BY <1>2, Least
<1>4. m \in DOMAIN es /\ es[m].url = u /\ \A j \in 1..m - 1 : es[j].url # u
  <2>1. m \in 1..Len(es) /\ es[m].url = u
    BY <1>1, <1>3
  <2>2. ASSUME NEW j \in 1..m - 1 PROVE es[j].url # u
    <3>1. j \in DOMAIN es /\ ~(m <= j)
      BY <1>1, <2>1
    <3>2. QED
      BY <1>3, <3>1
  <2>3. QED
    BY <1>1, <2>1, <2>2
<1>5. \E i \in DOMAIN es : es[i].url = u /\ \A j \in 1..i - 1 : es[j].url # u
  BY <1>4
<1>6. firstOf(es, u) \in DOMAIN es /\ es[firstOf(es, u)].url = u
  BY <1>5 DEF firstOf
<1>7. QED
  BY <1>1, <1>6

\* The urls of a corpus are finitely many.
LEMMA UrlsFinite ==
  ASSUME NEW es, es \in Seq(ToSet(es))
  PROVE  IsFiniteSet(urlsOf(es))
<1> DEFINE n == Len(es)
           f == [i \in 1..n |-> es[i].url]
<1>1. DOMAIN es = 1..n /\ n \in Nat
  OBVIOUS
<1>2. f \in Surjection(1..n, urlsOf(es))
  BY <1>1 DEF Surjection, urlsOf
<1>3. IsFiniteSet(1..n)
  <2>1. 1 \in Int /\ n \in Int
    BY <1>1
  <2>2. QED
    BY <2>1, FS_Interval
<1> HIDE DEF f, n
<1>4. QED
  BY <1>2, <1>3, FS_Surjection

\* Put in order, urls are a sequence of all of them, each once.
LEMMA Ordered ==
  ASSUME NEW es, es \in Seq(ToSet(es)), NEW us \in SUBSET urlsOf(es)
  PROVE  /\ inOrder(es, us) \in Seq(us)
         /\ \A u \in us : \E k \in DOMAIN inOrder(es, us) : inOrder(es, us)[k] = u
         /\ \A j, k \in DOMAIN inOrder(es, us) : inOrder(es, us)[j] = inOrder(es, us)[k] => j = k
<1> DEFINE n == Cardinality(us)
           at(u) == firstOf(es, u)
           upTo(u) == {v \in us : at(v) <= at(u)}
           place(u) == Place(es, us, u)
<1>1. IsFiniteSet(us) /\ n \in Nat
  <2>1. IsFiniteSet(us)
    BY UrlsFinite, FS_Subset
  <2>2. QED
    BY <2>1, FS_CardinalityType
<1>2. (\A u \in us : at(u) \in Nat) /\ (\A u, v \in us : at(u) = at(v) => u = v)
  BY FirstIs
<1>3. \A u \in us : place(u) = Cardinality(upTo(u))
  BY DEF Place
<1> HIDE DEF at, place, n
<1>4. \A u \in us : /\ u \in upTo(u) /\ upTo(u) \in SUBSET us /\ IsFiniteSet(upTo(u))
                    /\ Cardinality(upTo(u)) \in 1..n
  <2> SUFFICES ASSUME NEW u \in us
               PROVE  /\ u \in upTo(u) /\ upTo(u) \in SUBSET us /\ IsFiniteSet(upTo(u))
                      /\ Cardinality(upTo(u)) \in 1..n
    OBVIOUS
  <2>1. u \in upTo(u) /\ upTo(u) \in SUBSET us
    BY <1>2
  <2> HIDE DEF upTo
  <2>2. IsFiniteSet(upTo(u)) /\ Cardinality(upTo(u)) <= n
    BY <1>1, <2>1, FS_Subset DEF n
  <2>3. Cardinality(upTo(u)) \in Nat /\ Cardinality(upTo(u)) # 0
    BY <2>1, <2>2, FS_CardinalityType, FS_EmptySet
  <2>4. QED
    BY <1>1, <2>1, <2>2, <2>3
<1>5. \A u, v \in us : at(u) < at(v) => upTo(u) \subseteq upTo(v) /\ v \notin upTo(u)
  BY <1>2
<1> HIDE DEF upTo
<1>6. \A u, v \in us : at(u) < at(v) => place(u) # place(v)
  <2> SUFFICES ASSUME NEW u \in us, NEW v \in us, at(u) < at(v) PROVE place(u) # place(v)
    OBVIOUS
  <2>1. upTo(u) \in SUBSET upTo(v) /\ v \in upTo(v) /\ v \notin upTo(u)
    BY <1>4, <1>5
  <2>2. Cardinality(upTo(v)) = Cardinality(upTo(u)) => upTo(v) = upTo(u)
    BY <1>4, <2>1, FS_Subset
  <2>3. QED
    BY <1>3, <2>1, <2>2
<1>7. \A u, v \in us : place(u) = place(v) => u = v
  <2> SUFFICES ASSUME NEW u \in us, NEW v \in us, u # v PROVE place(u) # place(v)
    OBVIOUS
  <2>1. at(u) \in Nat /\ at(v) \in Nat /\ at(u) # at(v)
    BY <1>2
  <2>2. at(u) < at(v) \/ at(v) < at(u)
    BY <2>1
  <2>3. QED
    BY <1>6, <2>2
<1>8. \A k \in 1..n : \E u \in us : place(u) = k
  <2> DEFINE f == [u \in us |-> place(u)]
  <2>1. f \in Injection(us, 1..n)
    BY <1>3, <1>4, <1>7 DEF Injection, IsInjective
  <2>2. IsFiniteSet(1..n) /\ Cardinality(1..n) = n
    <3>1. 1 \in Int /\ n \in Int
      BY <1>1
    <3>2. IsFiniteSet(1..n) /\ Cardinality(1..n) = IF 1 > n THEN 0 ELSE n - 1 + 1
      BY <3>1, FS_Interval
    <3>3. QED
      BY <1>1, <3>2
  <2>3. f \in Surjection(us, 1..n)
    <3>1. Cardinality(us) = Cardinality(1..n) <=> f \in Surjection(us, 1..n)
      BY <2>1, <2>2, FS_Injection
    <3>2. QED
      BY <2>2, <3>1 DEF n
  <2>4. QED
    BY <2>3 DEF Surjection
<1> DEFINE q == inOrder(es, us)
<1>9. q = [k \in 1..n |-> CHOOSE u \in us : place(u) = k]
  BY DEF inOrder, n, place
<1> HIDE DEF q
<1>10. \A k \in 1..n : q[k] \in us /\ place(q[k]) = k
  <2> SUFFICES ASSUME NEW k \in 1..n PROVE q[k] \in us /\ place(q[k]) = k
    OBVIOUS
  <2>1. q[k] = CHOOSE u \in us : place(u) = k
    BY <1>9
  <2>2. QED
    BY <1>8, <2>1
<1>11. DOMAIN q = 1..n
  BY <1>9
<1>12. q \in Seq(us)
  <2>1. q \in [1..n -> us]
    BY <1>9, <1>10
  <2>2. QED
    BY <1>1, <2>1
<1>13. \A u \in us : \E k \in DOMAIN q : q[k] = u
  <2> SUFFICES ASSUME NEW u \in us PROVE \E k \in DOMAIN q : q[k] = u
    OBVIOUS
  <2>1. place(u) \in 1..n
    BY <1>3, <1>4
  <2>2. q[place(u)] = u
    BY <1>7, <1>10, <2>1
  <2>3. QED
    BY <1>11, <2>1, <2>2
<1>14. \A j, k \in DOMAIN q : q[j] = q[k] => j = k
  BY <1>10, <1>11
<1>15. QED
  BY <1>12, <1>13, <1>14 DEF q

-----------------------------------------------------------------------------
\* The inductive invariant.

\* What has been taken from a queue.
Taken(u) == \E h \in Hosts : \E k \in 1..next[h] : queue[h][k] = u

\* A queue holds urls of its host, each once; together they hold what is to be
\* checked.
QueueInv ==
  /\ \A h \in Hosts : \A k \in DOMAIN queue[h] : hostOf(queue[h][k]) = h
  /\ \A h \in Hosts : \A j, k \in DOMAIN queue[h] : queue[h][j] = queue[h][k] => j = k
  /\ phase = "pool" => \A u \in checking : \E h \in Hosts : \E k \in DOMAIN queue[h] : queue[h][k] = u

\* The robots.txt files are asked before anything is taken, of entries that are
\* sound, and the delays stand from then on; nobody works on after the report.
PhaseInv ==
  /\ \A h \in Hosts : delays[h] \in {Unheard, 0, starGroupDelay(Robots[h])}
  /\ phase \in {"start", "robots"} =>
       (\A w \in Workers : job[w] = Free) /\ DOMAIN results = {} /\ \A h \in Hosts : next[h] = 0
  /\ phase = "start" => exit = 0
  /\ phase \in {"robots", "pool"} => run.mode # "offline" /\ (run.checker = "explainers" => problems = {})
  /\ phase = "pool" => \A h \in Asked : delays[h] # Unheard
  /\ phase = "exited" => \A w \in Workers : ~Busy(w)

\* A url is in one hand or has a verdict, and either way has been taken; with a
\* delay only one worker has any.
HandInv ==
  /\ \A w \in Workers : Busy(w) => /\ Taken(job[w].url) /\ job[w].url \notin DOMAIN results
                                   /\ (delays[w[1]] = 0 \/ w[2] = 1)
  /\ \A w, x \in Workers : w # x /\ Busy(w) /\ Busy(x) => job[w].url # job[x].url
  /\ \A u \in DOMAIN results : Taken(u)

\* "ok" and "real" are what the page is.
VerdictInv ==
  \A u \in DOMAIN results :
    /\ results[u] = "ok" => Page[u] \in {"right"} \cup (IF run.checker = "citations" THEN {"wrong"} ELSE {})
    /\ results[u] = "real" /\ run.checker = "explainers" => Page[u] # "right"

IInv ==
  /\ TypeOK /\ QueueInv /\ PhaseInv /\ HandInv /\ VerdictInv
  /\ GreenMeansVerified /\ OnlyTheGoneAreCondemned

-----------------------------------------------------------------------------
\* What follows from the types.

\* A run is one of the two checkers, over urls whose pages are known.
LEMMA RunIs ==
  ASSUME TypeOK
  PROVE  /\ run.checker \in {"citations", "explainers"} /\ run.mode \in {"full", "fast", "offline"}
         /\ run.corpus \in Seq(ToSet(run.corpus))
         /\ \A u \in urls : u \in DOMAIN Url /\ Page[u] \in {"right", "wrong", "gone"}
<1>1. run \in Runs
  BY DEF TypeOK
<1>2. urlsOf(run.corpus) \subseteq DOMAIN Url
  BY <1>1, FetchPoolAssumption
<1>3. QED
  BY <1>1, <1>2, FetchPoolAssumption DEF urls

\* What is said of the corpus stays while the run does.
LEMMA SameRun ==
  ASSUME run' = run
  PROVE  /\ urls' = urls /\ Asked' = Asked /\ problems' = problems
         /\ Gaps' = Gaps /\ Fetches' = Fetches /\ Sleeps' = Sleeps
<1>1. urls' = urls
  BY DEF urls
<1>2. QED
  BY <1>1 DEF Asked, problems, Gaps, Fetches, Sleeps

\* Of an entry that is sound, the url has a host.
LEMMA SoundHasHost ==
  ASSUME TypeOK, run.checker = "explainers" => problems = {}, NEW u \in urls
  PROVE  hostOf(u) \in Hosts /\ hostOf(u) \in Asked
<1>1. PICK i \in DOMAIN run.corpus : run.corpus[i].url = u
  BY DEF urls, urlsOf
<1>2. CASE run.checker = "citations"
  <2>1. hostOf(u) # None
    BY <1>2, FetchPoolAssumption DEF TypeOK, urls
  <2>2. u \in DOMAIN Url
    BY RunIs
  <2>3. QED
    BY <2>1, <2>2, LinkReportsAssumption DEF Asked
<1>3. CASE run.checker = "explainers"
  <2> DEFINE e == run.corpus[i]
  <2>1. e \in ToSet(run.corpus)
    BY <1>1 DEF ToSet
  <2>2. e.kind \in DOMAIN EXPLAINER_HOSTS
    BY <1>3, <2>1, FetchPoolAssumption DEF TypeOK
  <2>3. explainerProblems(run.corpus) = {}
    BY <1>3 DEF problems, structuralProblems
  <2>4. hostOf(e.url) \in EXPLAINER_HOSTS[e.kind]
    BY <2>1, <2>3 DEF explainerProblems
  <2>5. hostOf(u) \in Hosts
    BY <1>1, <2>2, <2>4, LinkReportsAssumption
  <2>6. QED
    BY <2>5 DEF Asked
<1>4. QED
  BY <1>2, <1>3, RunIs

\* An empty corpus has no problem.
LEMMA NothingNoProblem ==
  ASSUME TypeOK, urls = {}, run.checker = "citations"
  PROVE  problems = {}
<1>1. DOMAIN run.corpus = {}
  BY DEF urls, urlsOf
<1>2. QED
  BY <1>1 DEF problems, structuralProblems, citationProblems

\* A worker is free, in a gap or has a url, and what it has is a url's.
LEMMA JobIs ==
  ASSUME TypeOK, NEW w \in Workers
  PROVE  /\ job[w].at = "free" <=> job[w] = Free
         /\ job[w].at = "gap" <=> job[w] \in Gaps
         /\ job[w].at = "fetch" <=> job[w] \in Fetches
         /\ job[w].at = "sleep" <=> job[w] \in Sleeps
         /\ Busy(w) => job[w].url \in urls
         /\ job[w] \in {Free} \cup Gaps \cup Fetches \cup Sleeps
<1>1. job[w] \in {Free} \cup Gaps \cup Fetches \cup Sleeps
  BY DEF TypeOK
<1>2. Free.at = "free" /\ (\A j \in Gaps : j.at = "gap")
      /\ (\A j \in Fetches : j.at = "fetch" /\ j.url \in urls) /\ (\A j \in Sleeps : j.at = "sleep" /\ j.url \in urls)
  BY DEF Free, Gaps, Fetches, Sleeps
<1>3. QED
  BY <1>1, <1>2 DEF Busy

-----------------------------------------------------------------------------
\* What a worker's step amounts to.

\* The verdict says what the page is.
Sound(u, verdict) ==
  /\ verdict \in Verdicts
  /\ verdict = "ok" => Page[u] \in {"right"} \cup (IF run.checker = "citations" THEN {"wrong"} ELSE {})
  /\ verdict = "real" /\ run.checker = "explainers" => Page[u] # "right"

\* It goes on with its url, or is done with it.
GoesOn(w) ==
  /\ Busy(w) /\ Kept /\ UNCHANGED results
  /\ \E j \in Fetches \cup Sleeps : j.url = job[w].url /\ job' = [job EXCEPT ![w] = j]

IsDone(w) == Busy(w) /\ Kept /\ \E verdict \in Verdicts : Sound(job[w].url, verdict) /\ Settle(w, verdict)

\* The wait for a retry is a number, whatever the header.
LEMMA WaitIsNumber ==
  ASSUME NEW h \in Headers, NEW d \in retryAfterSeconds(h)
  PROVE  d \in Nat
<1>1. h.form \in {"none", "seconds", "date"} /\ h.n \in Int /\ (h.form = "seconds" => h.n \in Nat)
  BY FetchPoolAssumption
<1>2. CASE h.form = "seconds"
  <2>1. d = h.n
    BY <1>2 DEF retryAfterSeconds
  <2>2. QED
    BY <1>1, <1>2, <2>1
<1>3. CASE h.form = "date"
  <2>1. d = IF h.n < 0 THEN 0 ELSE h.n
    BY <1>3 DEF retryAfterSeconds
  <2>2. QED
    BY <1>1, <2>1
<1>4. CASE h.form = "none"
  BY <1>4 DEF retryAfterSeconds
<1>5. QED
  BY <1>1, <1>2, <1>3, <1>4

\* A sleep is of the url that was asked for, and no longer than the cap.
LEMMA Sleeping ==
  ASSUME TypeOK, NEW w \in Workers, Waiting(w), Kept, job[w].try < Attempts, NEW d \in Nat, SleepFor(w, d)
  PROVE  GoesOn(w)
<1> DEFINE j == [at |-> "sleep", url |-> job[w].url, what |-> job[w].what, try |-> job[w].try,
                 age |-> job[w].age, left |-> Lesser(d, Cap)]
<1>1. job[w] \in Fetches
  BY JobIs DEF Waiting
<1>2. Lesser(d, Cap) \in 0..Cap
  BY FetchPoolAssumption DEF Lesser
<1>3. job[w].try \in 1..Attempts - 1
  BY <1>1, FetchPoolAssumption DEF Fetches
<1>4. j \in Sleeps
  BY <1>1, <1>2, <1>3 DEF Fetches, Sleeps
<1>5. job' = [job EXCEPT ![w] = j] /\ UNCHANGED results
  BY DEF SleepFor
<1>6. j.url = job[w].url /\ Busy(w)
  BY DEF Busy, Waiting
<1> HIDE DEF j
<1>7. QED
  BY <1>4, <1>5, <1>6 DEF GoesOn

\* So is a further request, and a retry.
LEMMA AskingAgain ==
  ASSUME TypeOK, NEW w \in Workers, Busy(w), Kept, UNCHANGED results,
         NEW what \in Asks, NEW try \in 1..Attempts, NEW age \in 0..Deadline,
         job' = [job EXCEPT ![w] = [at |-> "fetch", url |-> job[w].url, what |-> what, try |-> try, age |-> age]]
  PROVE  GoesOn(w)
<1>1. [at |-> "fetch", url |-> job[w].url, what |-> what, try |-> try, age |-> age] \in Fetches
  BY JobIs DEF Fetches
<1>2. QED
  BY <1>1 DEF GoesOn

\* So a worker takes a url, goes on with it, is done with it, or its gap is over.
LEMMA StepIs ==
  ASSUME TypeOK, NEW w \in Workers, Step(w)
  PROVE  Take(w) \/ GapOver(w) \/ GoesOn(w) \/ IsDone(w)
<1>1. ASSUME Busy(w), Kept, NEW v \in Verdicts, Sound(job[w].url, v), Settle(w, v) PROVE IsDone(w)
  BY <1>1 DEF IsDone
<1>2. \A u \in urls : Page[u] \in {"right", "wrong", "gone"}
  BY RunIs
<1>3. Waiting(w) => Busy(w) /\ job[w] \in Fetches /\ job[w].url \in urls
  BY JobIs DEF Waiting, Busy
<1>4. \A u : \A v \in Verdicts \ {"ok", "real"} : Sound(u, v)
  BY DEF Sound
<1>5. \A u \in urls : Page[u] = "right" => Sound(u, "ok")
  BY DEF Sound, Verdicts
<1>6. \A u \in urls : Page[u] # "right" => Sound(u, "real")
  BY DEF Sound, Verdicts
<1>7. CASE Throttled(w)
  <2>1. Waiting(w) /\ Kept
    BY <1>7 DEF Throttled
  <2>2. CASE job[w].try >= Attempts \/ job[w].what = "api"
    <3>1. Settle(w, "throttled")
      BY <1>7, <2>2 DEF Throttled
    <3>2. QED
      BY <1>1, <1>3, <1>4, <2>1, <3>1 DEF Verdicts
  <2>3. CASE ~(job[w].try >= Attempts \/ job[w].what = "api")
    <3>1. PICK h \in Headers : \E d \in (IF retryAfterSeconds(h) = {} THEN {Backoff[job[w].try]} ELSE retryAfterSeconds(h)) :
                                 SleepFor(w, d)
      BY <1>7, <2>3 DEF Throttled
    <3>2. PICK d \in (IF retryAfterSeconds(h) = {} THEN {Backoff[job[w].try]} ELSE retryAfterSeconds(h)) : SleepFor(w, d)
      BY <3>1
    <3>3. job[w].try \in 1..Attempts /\ job[w].try < Attempts
      BY <1>3, <2>1, <2>3, FetchPoolAssumption DEF Fetches
    <3>4. Backoff[job[w].try] \in Nat
      BY <3>3, FetchPoolAssumption
    <3>5. d \in Nat
      BY <3>2, <3>4, WaitIsNumber
    <3>6. QED
      BY <2>1, <3>2, <3>3, <3>5, Sleeping
  <2>4. QED
    BY <2>2, <2>3
<1>8. CASE Wake(w)
  <2>1. job[w].at = "sleep" /\ Kept
    BY <1>8 DEF Wake
  <2>2. Busy(w) /\ job[w] \in Sleeps
    BY <2>1, JobIs DEF Busy
  <2>3. CASE job[w].age >= Deadline
    <3>1. Settle(w, "silent")
      BY <1>8, <2>3 DEF Wake
    <3>2. QED
      BY <1>1, <1>4, <2>1, <2>2, <3>1 DEF Verdicts
  <2>4. CASE ~(job[w].age >= Deadline)
    <3>1. job' = [job EXCEPT ![w] = [at |-> "fetch", url |-> job[w].url, what |-> job[w].what,
                                     try |-> job[w].try + 1, age |-> job[w].age]]
          /\ UNCHANGED results
      BY <1>8, <2>4 DEF Wake
    <3>2. job[w].what \in Asks /\ job[w].try + 1 \in 1..Attempts /\ job[w].age \in 0..Deadline
      BY <2>2, FetchPoolAssumption DEF Sleeps
    <3>3. QED
      BY <2>1, <2>2, <3>1, <3>2, AskingAgain
  <2>5. QED
    BY <2>3, <2>4
<1>9. CASE Silent(w)
  <2>1. job[w].at = "fetch" /\ Kept /\ Settle(w, "silent")
    BY <1>9 DEF Silent
  <2>2. QED
    BY <1>1, <1>4, <2>1 DEF Busy, Verdicts
<1>10. ASSUME Waiting(w), Kept, NEW what \in Asks, AskFurther(w, what) PROVE GoesOn(w)
  <2>1. job' = [job EXCEPT ![w] = [at |-> "fetch", url |-> job[w].url, what |-> what, try |-> 1, age |-> 0]]
        /\ UNCHANGED results
    BY <1>10 DEF AskFurther, Asking
  <2>2. 1 \in 1..Attempts /\ 0 \in 0..Deadline
    BY FetchPoolAssumption
  <2>3. QED
    BY <1>3, <1>10, <2>1, <2>2, AskingAgain
<1>11. CASE resolves(w)
  <2>1. Waiting(w) /\ Kept /\ run.checker = "citations"
    BY <1>11 DEF resolves
  <2>2. CASE job[w].what = "HEAD" /\ job[w].url \in NoHead
    BY <1>10, <1>11, <2>1, <2>2 DEF resolves, Asks
  <2>3. CASE ~(job[w].what = "HEAD" /\ job[w].url \in NoHead)
    <3>1. Settle(w, IF Page[job[w].url] = "gone" THEN "real" ELSE "ok") \/ Settle(w, "silent")
      BY <1>11, <2>3 DEF resolves
    <3>2. Page[job[w].url] # "gone" => Sound(job[w].url, "ok")
      BY <1>2, <1>3, <2>1 DEF Sound, Verdicts
    <3>3. QED
      BY <1>1, <1>3, <1>4, <1>6, <2>1, <3>1, <3>2 DEF Verdicts
  <2>4. QED
    BY <2>2, <2>3
<1>12. CASE verifyRead(w)
  <2>1. Waiting(w) /\ Kept
    BY <1>12 DEF verifyRead
  <2>2. Settle(w, IF Page[job[w].url] = "right" THEN "ok" ELSE "real") \/ Settle(w, "torn")
    BY <1>12 DEF verifyRead
  <2>3. QED
    BY <1>1, <1>3, <1>4, <1>5, <1>6, <2>1, <2>2 DEF Verdicts
<1>13. CASE verifyVideo(w)
  <2>1. Waiting(w) /\ Kept
    BY <1>13 DEF verifyVideo
  <2>2. \/ AskFurther(w, "api") \/ Settle(w, "unverifiable")
        \/ Settle(w, IF Page[job[w].url] = "right" THEN "ok" ELSE "real") \/ Settle(w, "torn")
    BY <1>13 DEF verifyVideo
  <2>3. QED
    BY <1>1, <1>3, <1>4, <1>5, <1>6, <1>10, <2>1, <2>2 DEF Verdicts, Asks
<1>14. CASE verifyVideoByApi(w)
  <2>1. Waiting(w) /\ Kept
    BY <1>14 DEF verifyVideoByApi
  <2>2. Settle(w, IF Page[job[w].url] = "right" THEN "ok" ELSE "real") \/ Settle(w, "unverifiable")
    BY <1>14 DEF verifyVideoByApi
  <2>3. QED
    BY <1>1, <1>3, <1>4, <1>5, <1>6, <2>1, <2>2 DEF Verdicts
<1>15. QED
  BY <1>7, <1>8, <1>9, <1>11, <1>12, <1>13, <1>14 DEF Step

-----------------------------------------------------------------------------
\* A worker's step keeps the invariant.

\* A queue stands while its phase does.
LEMMA QueueKept ==
  ASSUME QueueInv, UNCHANGED <<run, phase, delays, queue>>
  PROVE  QueueInv'
<1>1. checking' = checking
  BY SameRun DEF checking
<1>2. QED
  BY <1>1 DEF QueueInv

\* The types stand if what one worker does is of its type.
LEMMA TypesKept ==
  ASSUME TypeOK, NEW w \in Workers, NEW j \in {Free} \cup Gaps \cup Fetches \cup Sleeps,
         job' = [job EXCEPT ![w] = j], Kept,
         DOMAIN results' \subseteq urls, \A u \in DOMAIN results' : results'[u] \in Verdicts
  PROVE  TypeOK'
<1>1. run' = run /\ UNCHANGED <<phase, delays, queue, next, exit>>
  BY DEF Kept
<1>2. urls' = urls /\ Gaps' = Gaps /\ Fetches' = Fetches /\ Sleeps' = Sleeps
  BY <1>1, SameRun
<1>3. job' \in [Workers -> {Free} \cup Gaps \cup Fetches \cup Sleeps]
  BY DEF TypeOK
<1>4. QED
  BY <1>1, <1>2, <1>3 DEF TypeOK

\* What one worker does leaves the others' jobs.
LEMMA OthersKept ==
  ASSUME TypeOK, NEW w \in Workers, NEW j, job' = [job EXCEPT ![w] = j]
  PROVE  job'[w] = j /\ \A x \in Workers : x # w => job'[x] = job[x]
BY DEF TypeOK

\* A worker that goes on has the url it had.
LEMMA GoesOnKeeps ==
  ASSUME TypeOK, QueueInv, PhaseInv, HandInv, VerdictInv, NEW w \in Workers, GoesOn(w)
  PROVE  TypeOK' /\ QueueInv' /\ PhaseInv' /\ HandInv' /\ VerdictInv'
<1>1. PICK j \in Fetches \cup Sleeps : j.url = job[w].url /\ job' = [job EXCEPT ![w] = j]
  BY DEF GoesOn
<1>2. run' = run /\ UNCHANGED <<phase, delays, queue, next, exit, results>> /\ Busy(w) /\ Kept
  BY DEF GoesOn, Kept
<1>3. TypeOK'
  BY <1>1, <1>2, TypesKept DEF TypeOK
<1>4. QueueInv'
  BY <1>2, QueueKept
<1>5. job[w] # Free
  BY <1>2 DEF Busy, Free
<1>6. problems' = problems /\ Asked' = Asked
  BY <1>2, SameRun
<1>7. phase \notin {"start", "robots", "exited"}
  BY <1>2, <1>5 DEF PhaseInv
<1>8. PhaseInv'
  BY <1>2, <1>6, <1>7 DEF PhaseInv
<1>9. \A x \in Workers : (Busy(x)' <=> Busy(x)) /\ job'[x].url = job[x].url
  <2>1. j.at \in {"fetch", "sleep"}
    BY DEF Fetches, Sleeps
  <2>2. QED
    BY <1>1, <1>2, <2>1, OthersKept DEF Busy
<1>10. \A u : Taken(u)' <=> Taken(u)
  BY <1>2 DEF Taken
<1>11. HandInv'
  BY <1>2, <1>9, <1>10 DEF HandInv
<1>12. VerdictInv'
  BY <1>2 DEF VerdictInv
<1>13. QED
  BY <1>3, <1>4, <1>8, <1>11, <1>12

\* A gap that is over leaves its worker free.
LEMMA GapOverKeeps ==
  ASSUME TypeOK, QueueInv, PhaseInv, HandInv, VerdictInv, NEW w \in Workers, GapOver(w)
  PROVE  TypeOK' /\ QueueInv' /\ PhaseInv' /\ HandInv' /\ VerdictInv'
<1>1. job' = [job EXCEPT ![w] = Free] /\ job[w].at = "gap"
  BY DEF GapOver
<1>2. run' = run /\ UNCHANGED <<phase, delays, queue, next, exit, results>> /\ Kept
  BY DEF GapOver, Kept
<1>3. TypeOK'
  BY <1>1, <1>2, TypesKept DEF TypeOK
<1>4. QueueInv'
  BY <1>2, QueueKept
<1>5. problems' = problems /\ Asked' = Asked
  BY <1>2, SameRun
<1>6. \A x \in Workers : /\ Busy(x)' <=> Busy(x)
                         /\ Busy(x) => job'[x].url = job[x].url
                         /\ job[x] = Free => job'[x] = Free
  <2>1. Free.at = "free"
    BY DEF Free
  <2>2. QED
    BY <1>1, <2>1, OthersKept DEF Busy
<1>7. PhaseInv'
  BY <1>2, <1>5, <1>6 DEF PhaseInv
<1>8. \A u : Taken(u)' <=> Taken(u)
  BY <1>2 DEF Taken
<1>9. HandInv'
  BY <1>2, <1>6, <1>8 DEF HandInv
<1>10. VerdictInv'
  BY <1>2 DEF VerdictInv
<1>11. QED
  BY <1>3, <1>4, <1>7, <1>9, <1>10

\* A worker that is done puts its url among the verdicts.
LEMMA IsDoneKeeps ==
  ASSUME TypeOK, QueueInv, PhaseInv, HandInv, VerdictInv, NEW w \in Workers, IsDone(w)
  PROVE  TypeOK' /\ QueueInv' /\ PhaseInv' /\ HandInv' /\ VerdictInv'
<1>1. PICK v \in Verdicts : Sound(job[w].url, v) /\ Settle(w, v)
  BY DEF IsDone
<1> DEFINE h == w[1]
           u == job[w].url
           j == IF delays[h] > 0 /\ next[h] < Len(queue[h]) THEN [at |-> "gap", left |-> delays[h]] ELSE Free
<1>2. run' = run /\ UNCHANGED <<phase, delays, queue, next, exit>> /\ Busy(w) /\ Kept
  BY DEF IsDone, Kept
<1>3. /\ results' = [x \in DOMAIN results \cup {u} |-> IF x = u THEN v ELSE results[x]]
      /\ job' = [job EXCEPT ![w] = j]
  BY <1>1 DEF Settle
<1>4. j \in {Free} \cup Gaps
  <2>1. h \in Hosts /\ delays[h] \in Nat \cup {Unheard}
    BY DEF Workers, TypeOK
  <2>2. delays[h] > 0 => delays[h] \in Nat
    BY <2>1 DEF Unheard
  <2>3. QED
    BY <2>2 DEF Gaps
<1>5. j.at \notin {"fetch", "sleep"}
  BY <1>4 DEF Gaps, Free
<1> HIDE DEF j
<1>6. u \in urls
  BY <1>2, JobIs
<1>7. DOMAIN results' = DOMAIN results \cup {u} /\ results'[u] = v /\ \A x \in DOMAIN results \ {u} : results'[x] = results[x]
  BY <1>3
<1>8. TypeOK'
  <2>1. DOMAIN results' \subseteq urls /\ \A x \in DOMAIN results' : results'[x] \in Verdicts
    BY <1>6, <1>7 DEF TypeOK
  <2>2. QED
    BY <1>2, <1>3, <1>4, <2>1, TypesKept
<1>9. QueueInv'
  BY <1>2, QueueKept
<1>10. problems' = problems /\ Asked' = Asked
  BY <1>2, SameRun
<1>11. job[w] # Free
  BY <1>2 DEF Busy, Free
<1>12. phase \notin {"start", "robots", "exited"}
  BY <1>2, <1>11 DEF PhaseInv
<1>13. PhaseInv'
  BY <1>2, <1>10, <1>12 DEF PhaseInv
<1>14. \A x \in Workers : Busy(x)' => x # w /\ Busy(x) /\ job'[x] = job[x]
  BY <1>3, <1>5, OthersKept DEF Busy
<1>15. \A x : Taken(x)' <=> Taken(x)
  BY <1>2 DEF Taken
<1>16. HandInv'
  <2>1. Taken(u) /\ \A x \in Workers : x # w /\ Busy(x) => job[x].url # u
    BY <1>2 DEF HandInv
  <2>2. \A x \in Workers : Busy(x)' => /\ Taken(job[x].url)' /\ job'[x].url \notin DOMAIN results'
                                       /\ (delays'[x[1]] = 0 \/ x[2] = 1)
    <3> SUFFICES ASSUME NEW x \in Workers, Busy(x)'
                 PROVE  /\ Taken(job[x].url)' /\ job'[x].url \notin DOMAIN results'
                        /\ (delays'[x[1]] = 0 \/ x[2] = 1)
      OBVIOUS
    <3>1. x # w /\ Busy(x) /\ job'[x] = job[x]
      BY <1>14
    <3>2. Taken(job[x].url) /\ job[x].url \notin DOMAIN results /\ (delays[x[1]] = 0 \/ x[2] = 1)
      BY <3>1 DEF HandInv
    <3>3. Taken(job[x].url)'
      BY <1>2, <3>1, <3>2 DEF Taken
    <3>4. job[x].url # u
      BY <2>1, <3>1
    <3>5. QED
      BY <1>2, <1>7, <3>1, <3>2, <3>3, <3>4
  <2>3. \A x, y \in Workers : x # y /\ Busy(x)' /\ Busy(y)' => job'[x].url # job'[y].url
    BY <1>14 DEF HandInv
  <2>4. \A x \in DOMAIN results' : Taken(x)'
    BY <1>7, <1>15, <2>1 DEF HandInv
  <2>5. QED
    BY <2>2, <2>3, <2>4 DEF HandInv
<1>17. VerdictInv'
  BY <1>1, <1>2, <1>7 DEF VerdictInv, Sound
<1>18. QED
  BY <1>8, <1>9, <1>13, <1>16, <1>17

\* What is taken next was never taken: "`next++` never yields".
LEMMA NextIsNew ==
  ASSUME TypeOK, QueueInv, NEW h \in Hosts, next[h] < Len(queue[h])
  PROVE  /\ queue[h][next[h] + 1] \in urls
         /\ ~Taken(queue[h][next[h] + 1])
<1> DEFINE n == next[h] + 1
<1>1. queue \in [Hosts -> Seq(urls)] /\ \A g \in Hosts : next[g] \in Nat /\ next[g] <= Len(queue[g])
  BY DEF TypeOK
<1>2. \A g \in Hosts : queue[g] \in Seq(urls) /\ DOMAIN queue[g] = 1..Len(queue[g]) /\ Len(queue[g]) \in Nat
  BY <1>1
<1>3. n \in DOMAIN queue[h] /\ queue[h][n] \in urls
  <2>1. n \in 1..Len(queue[h])
    BY <1>1, <1>2
  <2>2. QED
    BY <1>2, <2>1
<1>4. \A g \in Hosts : \A k \in 1..next[g] : k \in DOMAIN queue[g]
  <2> SUFFICES ASSUME NEW g \in Hosts, NEW k \in 1..next[g] PROVE k \in DOMAIN queue[g]
    OBVIOUS
  <2>1. k \in 1..Len(queue[g])
    BY <1>1, <1>2
  <2>2. QED
    BY <1>2, <2>1
<1>5. ASSUME NEW g \in Hosts, NEW k \in 1..next[g], queue[g][k] = queue[h][n] PROVE FALSE
  <2>1. hostOf(queue[g][k]) = g /\ hostOf(queue[h][n]) = h
    BY <1>3, <1>4 DEF QueueInv
  <2>2. g = h
    BY <1>5, <2>1
  <2>3. k = n
    BY <1>3, <1>4, <1>5, <2>2 DEF QueueInv
  <2>4. QED
    BY <1>1, <2>2, <2>3
<1>6. QED
  BY <1>3, <1>5 DEF Taken

\* So no other hand has it, and it has no verdict.
LEMMA TakeKeeps ==
  ASSUME TypeOK, QueueInv, PhaseInv, HandInv, VerdictInv, NEW w \in Workers, Take(w)
  PROVE  TypeOK' /\ QueueInv' /\ PhaseInv' /\ HandInv' /\ VerdictInv'
<1> DEFINE h == w[1]
           u == queue[h][next[h] + 1]
           j == Asking(u, FirstAsk(u))
<1>1. /\ Works(w) /\ job[w] = Free /\ next[h] < Len(queue[h])
      /\ next' = [next EXCEPT ![h] = @ + 1] /\ job' = [job EXCEPT ![w] = j]
      /\ UNCHANGED <<run, phase, delays, queue, results, exit>>
  BY DEF Take
<1>2. h \in Hosts
  BY DEF Workers
<1>3. u \in urls /\ ~Taken(u)
  BY <1>1, <1>2, NextIsNew
<1>4. phase = "pool" /\ (delays[h] = 0 \/ w[2] = 1)
  BY <1>1 DEF Works
<1> HIDE DEF u
<1>5. j \in Fetches
  <2>1. FirstAsk(u) \in Asks
    BY DEF FirstAsk, Asks
  <2>2. 1 \in 1..Attempts /\ 0 \in 0..Deadline
    BY FetchPoolAssumption
  <2>3. QED
    BY <1>3, <2>1, <2>2 DEF Asking, Fetches
<1>6. j.url = u /\ j.at = "fetch"
  BY DEF Asking
<1> HIDE DEF j
<1>7. next \in [Hosts -> Nat] /\ \A g \in Hosts : queue[g] \in Seq(urls) /\ Len(queue[g]) \in Nat /\ next[g] <= Len(queue[g])
  BY DEF TypeOK
<1>8. next' \in [Hosts -> Nat] /\ next'[h] = next[h] + 1 /\ \A g \in Hosts \ {h} : next'[g] = next[g]
  BY <1>1, <1>2, <1>7
<1>9. TypeOK'
  <2>1. urls' = urls /\ Gaps' = Gaps /\ Fetches' = Fetches /\ Sleeps' = Sleeps
    BY <1>1, SameRun
  <2>2. \A g \in Hosts : next'[g] <= Len(queue[g])
    BY <1>1, <1>2, <1>7, <1>8
  <2>3. job' \in [Workers -> {Free} \cup Gaps \cup Fetches \cup Sleeps]
    BY <1>1, <1>5 DEF TypeOK
  <2>4. QED
    BY <1>1, <1>8, <2>1, <2>2, <2>3 DEF TypeOK
<1>10. QueueInv'
  BY <1>1, QueueKept
<1>11. problems' = problems /\ Asked' = Asked
  BY <1>1, SameRun
<1>12. PhaseInv'
  BY <1>1, <1>4, <1>11 DEF PhaseInv
<1>13. \A x : Taken(x) => Taken(x)'
  <2> SUFFICES ASSUME NEW x, NEW g \in Hosts, NEW k \in 1..next[g], queue[g][k] = x PROVE Taken(x)'
    BY DEF Taken
  <2>1. k \in 1..next'[g]
    BY <1>2, <1>7, <1>8
  <2>2. QED
    BY <1>1, <2>1 DEF Taken
<1>14. \E g \in Hosts : \E k \in 1..next'[g] : queue'[g][k] = u
  <2>1. next[h] + 1 \in 1..next'[h]
    BY <1>2, <1>7, <1>8
  <2>2. queue'[h][next[h] + 1] = u
    BY <1>1 DEF u
  <2>3. QED
    BY <1>2, <2>1, <2>2
<1>15. u \notin DOMAIN results /\ \A x \in Workers : Busy(x) => job[x].url # u
  BY <1>3 DEF HandInv
<1>16. \A x \in Workers : \/ x = w /\ job'[x] = j
                          \/ x # w /\ job'[x] = job[x] /\ (Busy(x)' <=> Busy(x))
  BY <1>1, OthersKept DEF Busy
<1>17. HandInv'
  <2>1. \A x \in Workers : Busy(x)' => /\ Taken(job[x].url)' /\ job'[x].url \notin DOMAIN results'
                                       /\ (delays'[x[1]] = 0 \/ x[2] = 1)
    <3> SUFFICES ASSUME NEW x \in Workers, Busy(x)'
                 PROVE  /\ Taken(job[x].url)' /\ job'[x].url \notin DOMAIN results'
                        /\ (delays'[x[1]] = 0 \/ x[2] = 1)
      OBVIOUS
    <3>1. CASE x = w
      <4>1. job'[x].url = u
        BY <1>6, <1>16, <3>1
      <4>2. Taken(job[x].url)'
        BY <1>1, <1>14, <4>1 DEF Taken
      <4>3. QED
        BY <1>1, <1>4, <1>15, <3>1, <4>1, <4>2
    <3>2. CASE x # w
      <4>1. job'[x] = job[x] /\ Busy(x)
        BY <1>16, <3>2
      <4>2. Taken(job[x].url) /\ job[x].url \notin DOMAIN results /\ (delays[x[1]] = 0 \/ x[2] = 1)
        BY <4>1 DEF HandInv
      <4>3. Taken(job[x].url)'
        BY <1>13, <4>1, <4>2 DEF Taken
      <4>4. QED
        BY <1>1, <4>1, <4>2, <4>3
    <3>3. QED
      BY <3>1, <3>2
  <2>2. \A x, y \in Workers : x # y /\ Busy(x)' /\ Busy(y)' => job'[x].url # job'[y].url
    BY <1>6, <1>15, <1>16 DEF HandInv
  <2>3. \A x \in DOMAIN results' : Taken(x)'
    BY <1>1, <1>13 DEF HandInv
  <2>4. QED
    BY <2>1, <2>2, <2>3 DEF HandInv
<1>18. VerdictInv'
  BY <1>1 DEF VerdictInv
<1>19. QED
  BY <1>9, <1>10, <1>12, <1>17, <1>18

\* Time changes no url.
LEMMA TickKeepsHands ==
  ASSUME TypeOK, Tick, NEW w \in Workers
  PROVE  /\ job'[w] \in {Free} \cup Gaps \cup Fetches \cup Sleeps
         /\ Busy(w)' <=> Busy(w)
         /\ Busy(w) => job'[w].url = job[w].url
         /\ job[w] = Free => job'[w] = Free
<1>1. job' = [x \in Workers |-> Older(job[x])]
  BY DEF Tick
<1>2. /\ job[w].at \in {"gap", "sleep"} => job[w].left > 0
      /\ job[w].at = "fetch" => job[w].age < Deadline
  BY DEF Tick
<1>3. job'[w] = Older(job[w])
  BY <1>1
<1>4. CASE job[w] = Free
  <2>1. Older(job[w]) = Free
    BY <1>4 DEF Older, Free
  <2>2. QED
    BY <1>3, <1>4, <2>1 DEF Busy, Free
<1>5. CASE job[w] \in Gaps
  <2>1. job[w].at = "gap" /\ job[w].left \in Nat /\ job[w].left > 0
    BY <1>2, <1>5 DEF Gaps
  <2>2. Older(job[w]) = [job[w] EXCEPT !.left = @ - 1]
    BY <2>1 DEF Older
  <2>3. job[w].left - 1 \in Nat
    BY <2>1
  <2>4. Older(job[w]) \in Gaps /\ Older(job[w]).at = "gap"
    BY <1>5, <2>2, <2>3 DEF Gaps
  <2>5. QED
    BY <1>3, <2>1, <2>4 DEF Busy, Free
<1>6. CASE job[w] \in Fetches
  <2>1. job[w].at = "fetch" /\ job[w].age \in 0..Deadline /\ job[w].age < Deadline
    BY <1>2, <1>6 DEF Fetches
  <2>2. Older(job[w]) = [job[w] EXCEPT !.age = @ + 1]
    BY <2>1 DEF Older
  <2>3. job[w].age + 1 \in 0..Deadline
    BY <2>1, FetchPoolAssumption
  <2>4. Older(job[w]) \in Fetches /\ Older(job[w]).at = "fetch" /\ Older(job[w]).url = job[w].url
    BY <1>6, <2>2, <2>3 DEF Fetches
  <2>5. QED
    BY <1>3, <2>1, <2>4 DEF Busy, Free
<1>7. CASE job[w] \in Sleeps
  <2>1. job[w].at = "sleep" /\ job[w].age \in 0..Deadline /\ job[w].left \in 0..Cap /\ job[w].left > 0
    BY <1>2, <1>7 DEF Sleeps
  <2>2. Older(job[w]) = [job[w] EXCEPT !.left = @ - 1, !.age = Lesser(@ + 1, Deadline)]
    BY <2>1 DEF Older
  <2>3. job[w].left - 1 \in 0..Cap /\ Lesser(job[w].age + 1, Deadline) \in 0..Deadline
    BY <2>1, FetchPoolAssumption DEF Lesser
  <2>4. Older(job[w]) \in Sleeps /\ Older(job[w]).at = "sleep" /\ Older(job[w]).url = job[w].url
    BY <1>7, <2>2, <2>3 DEF Sleeps
  <2>5. QED
    BY <1>3, <2>1, <2>4 DEF Busy, Free
<1>8. QED
  BY <1>4, <1>5, <1>6, <1>7, JobIs

\* So it keeps the invariant.
LEMMA TickKeeps ==
  ASSUME TypeOK, QueueInv, PhaseInv, HandInv, VerdictInv, Tick
  PROVE  TypeOK' /\ QueueInv' /\ PhaseInv' /\ HandInv' /\ VerdictInv'
<1>1. /\ job' = [w \in Workers |-> Older(job[w])]
      /\ UNCHANGED <<run, phase, delays, queue, next, results, exit>>
      /\ \E w \in Workers : job[w] # Free
  BY DEF Tick
<1>2. \A w \in Workers : /\ job'[w] \in {Free} \cup Gaps \cup Fetches \cup Sleeps
                         /\ Busy(w)' <=> Busy(w)
                         /\ Busy(w) => job'[w].url = job[w].url
                         /\ job[w] = Free => job'[w] = Free
  BY TickKeepsHands
<1>3. TypeOK'
  <2>1. urls' = urls /\ Gaps' = Gaps /\ Fetches' = Fetches /\ Sleeps' = Sleeps
    BY <1>1, SameRun
  <2>2. job' \in [Workers -> {Free} \cup Gaps \cup Fetches \cup Sleeps]
    BY <1>1, <1>2
  <2>3. QED
    BY <1>1, <2>1, <2>2 DEF TypeOK
<1>4. QueueInv'
  BY <1>1, QueueKept
<1>5. problems' = problems /\ Asked' = Asked
  BY <1>1, SameRun
<1>6. PhaseInv'
  BY <1>1, <1>2, <1>5 DEF PhaseInv
<1>7. \A u : Taken(u)' <=> Taken(u)
  BY <1>1 DEF Taken
<1>8. HandInv'
  BY <1>1, <1>2, <1>7 DEF HandInv
<1>9. VerdictInv'
  BY <1>1 DEF VerdictInv
<1>10. QED
  BY <1>3, <1>4, <1>6, <1>8, <1>9

-----------------------------------------------------------------------------
\* The main program keeps the invariant.

\* With no url in a worker's hands nobody is busy, and free is not busy.
LEMMA FreeIsIdle ==
  ASSUME NEW w \in Workers, job[w] = Free
  PROVE  ~Busy(w)
BY DEF Busy, Free

\* The structural checks, before any host is asked.
LEMMA StartKeeps ==
  ASSUME TypeOK, QueueInv, PhaseInv, HandInv, VerdictInv, Start
  PROVE  TypeOK' /\ QueueInv' /\ PhaseInv' /\ HandInv' /\ VerdictInv'
<1>1. phase = "start" /\ UNCHANGED <<run, delays, queue, next, job, results>>
  BY DEF Start
<1>2. \/ phase' = "exited" /\ exit' \in {0, 1}
      \/ /\ phase' = "robots" /\ exit' = exit
         /\ run.mode # "offline" /\ (run.checker = "explainers" => problems = {})
  <2>1. CASE run.checker = "explainers" /\ problems # {}
    <3>1. Exit(1)
      BY <2>1 DEF Start
    <3>2. QED
      BY <3>1 DEF Exit
  <2>2. CASE run.checker = "explainers" /\ problems = {} /\ (run.corpus = <<>> \/ run.mode = "offline")
    <3>1. Exit(0)
      BY <2>2 DEF Start
    <3>2. QED
      BY <3>1 DEF Exit
  <2>3. CASE run.checker = "citations" /\ run.mode = "offline"
    <3>1. Exit(IF problems # {} THEN 1 ELSE 0)
      BY <2>3 DEF Start
    <3>2. QED
      BY <3>1 DEF Exit
  <2>4. CASE /\ ~(run.checker = "explainers" /\ problems # {})
             /\ ~(run.checker = "explainers" /\ problems = {} /\ (run.corpus = <<>> \/ run.mode = "offline"))
             /\ ~(run.checker = "citations" /\ run.mode = "offline")
    <3>1. phase' = "robots" /\ UNCHANGED exit
      BY <2>4 DEF Start
    <3>2. QED
      BY <2>4, <3>1, RunIs
  <2>5. QED
    BY <2>1, <2>2, <2>3, <2>4
<1>3. urls' = urls /\ Asked' = Asked /\ problems' = problems /\ Gaps' = Gaps /\ Fetches' = Fetches /\ Sleeps' = Sleeps
  BY <1>1, SameRun
<1>4. TypeOK'
  BY <1>1, <1>2, <1>3 DEF TypeOK
<1>5. QueueInv'
  BY <1>1, <1>2 DEF QueueInv
<1>6. \A w \in Workers : job[w] = Free /\ ~Busy(w) /\ ~Busy(w)'
  BY <1>1, FreeIsIdle DEF PhaseInv, Busy
<1>7. PhaseInv'
  BY <1>1, <1>2, <1>3, <1>6 DEF PhaseInv
<1>8. HandInv' /\ VerdictInv'
  BY <1>1, <1>6 DEF HandInv, VerdictInv, PhaseInv
<1>9. QED
  BY <1>4, <1>5, <1>7, <1>8

\* A host is heard, or is not there to be heard.
LEMMA CrawlDelaysKeeps ==
  ASSUME TypeOK, QueueInv, PhaseInv, HandInv, VerdictInv, NEW h \in Hosts, crawlDelays(h)
  PROVE  TypeOK' /\ QueueInv' /\ PhaseInv' /\ HandInv' /\ VerdictInv'
<1>1. phase = "robots" /\ UNCHANGED <<run, phase, queue, next, job, results, exit>>
  BY DEF crawlDelays
<1>2. PICK d \in {0, starGroupDelay(Robots[h])} : delays' = [delays EXCEPT ![h] = d]
  BY DEF crawlDelays
<1>3. d \in Nat
  BY <1>2, DelayIsNumber
<1>4. delays \in [Hosts -> Nat \cup {Unheard}]
  BY DEF TypeOK
<1>5. delays' \in [Hosts -> Nat \cup {Unheard}]
  BY <1>2, <1>3, <1>4
<1>6. \A g \in Hosts : delays'[g] \in {Unheard, 0, starGroupDelay(Robots[g])}
  BY <1>2, <1>4 DEF PhaseInv
<1>7. urls' = urls /\ Asked' = Asked /\ problems' = problems /\ Gaps' = Gaps /\ Fetches' = Fetches /\ Sleeps' = Sleeps
  BY <1>1, SameRun
<1>8. TypeOK'
  BY <1>1, <1>5, <1>7 DEF TypeOK
<1>9. QueueInv'
  BY <1>1 DEF QueueInv
<1>10. \A w \in Workers : job[w] = Free /\ ~Busy(w) /\ ~Busy(w)'
  BY <1>1, FreeIsIdle DEF PhaseInv, Busy
<1>11. PhaseInv'
  BY <1>1, <1>6, <1>7 DEF PhaseInv
<1>12. HandInv' /\ VerdictInv'
  BY <1>1, <1>10 DEF HandInv, VerdictInv, PhaseInv
<1>13. QED
  BY <1>8, <1>9, <1>11, <1>12

\* Every url that is to be checked goes into the queue of its host.
LEMMA BeginKeeps ==
  ASSUME TypeOK, QueueInv, PhaseInv, HandInv, VerdictInv, Begin
  PROVE  TypeOK' /\ QueueInv' /\ PhaseInv' /\ HandInv' /\ VerdictInv'
<1> DEFINE of(h) == {u \in checking : hostOf(u) = h}
<1>1. /\ phase = "robots" /\ \A h \in Asked : delays[h] # Unheard
      /\ queue' = [h \in Hosts |-> inOrder(run.corpus, of(h))]
      /\ UNCHANGED <<run, delays, next, job, results>>
  BY DEF Begin
<1>2. \/ phase' = "exited" /\ exit' = 0
      \/ phase' = "pool" /\ exit' = exit
  BY DEF Begin, Exit
<1>3. urls' = urls /\ Asked' = Asked /\ problems' = problems /\ Gaps' = Gaps /\ Fetches' = Fetches /\ Sleeps' = Sleeps
  BY <1>1, SameRun
<1>4. checking' = checking
  BY <1>1, <1>3 DEF checking
<1>5. checking \subseteq urls
  BY DEF checking, checkingOf
<1>6. \A h \in Hosts : of(h) \in SUBSET urlsOf(run.corpus)
  BY <1>5 DEF urls
<1>7. run.corpus \in Seq(ToSet(run.corpus))
  BY RunIs
<1> HIDE DEF of
<1>8. ASSUME NEW h \in Hosts
      PROVE  /\ queue'[h] \in Seq(of(h))
             /\ \A u \in of(h) : \E k \in DOMAIN queue'[h] : queue'[h][k] = u
             /\ \A j, k \in DOMAIN queue'[h] : queue'[h][j] = queue'[h][k] => j = k
  <2>1. queue'[h] = inOrder(run.corpus, of(h))
    BY <1>1
  <2>2. QED
    BY <1>6, <1>7, <2>1, Ordered
<1>9. TypeOK'
  <2>1. queue' \in [Hosts -> Seq(urls)]
    <3>1. \A h \in Hosts : queue'[h] \in Seq(urls)
      BY <1>6, <1>8 DEF urls
    <3>2. QED
      BY <1>1, <3>1
  <2>2. \A h \in Hosts : next'[h] = 0 /\ Len(queue'[h]) \in Nat
    BY <1>1, <1>8 DEF PhaseInv
  <2>3. QED
    BY <1>1, <1>2, <1>3, <2>1, <2>2 DEF TypeOK
<1>10. QueueInv'
  <2>1. \A h \in Hosts : \A k \in DOMAIN queue'[h] : hostOf(queue'[h][k]) = h
    <3> SUFFICES ASSUME NEW h \in Hosts, NEW k \in DOMAIN queue'[h] PROVE hostOf(queue'[h][k]) = h
      OBVIOUS
    <3>1. queue'[h][k] \in of(h)
      BY <1>8
    <3>2. QED
      BY <3>1 DEF of
  <2>2. \A u \in checking : \E h \in Hosts : \E k \in DOMAIN queue'[h] : queue'[h][k] = u
    <3> SUFFICES ASSUME NEW u \in checking PROVE \E h \in Hosts : \E k \in DOMAIN queue'[h] : queue'[h][k] = u
      OBVIOUS
    <3>1. hostOf(u) \in Hosts
      BY <1>1, <1>5, SoundHasHost DEF PhaseInv
    <3>2. u \in of(hostOf(u))
      BY DEF of
    <3>3. QED
      BY <1>8, <3>1, <3>2
  <2>3. QED
    BY <1>4, <1>8, <2>1, <2>2 DEF QueueInv
<1>11. \A w \in Workers : job[w] = Free /\ ~Busy(w) /\ ~Busy(w)'
  BY <1>1, FreeIsIdle DEF PhaseInv, Busy
<1>12. PhaseInv'
  BY <1>1, <1>2, <1>3, <1>11 DEF PhaseInv
<1>13. HandInv' /\ VerdictInv'
  BY <1>1, <1>11 DEF HandInv, VerdictInv, PhaseInv
<1>14. QED
  BY <1>9, <1>10, <1>12, <1>13

\* The report is made when every url that was taken has its verdict.
LEMMA NobodyLeft ==
  ASSUME TypeOK, HandInv, \A h \in Hosts : ToSet(queue[h]) \subseteq DOMAIN results
  PROVE  \A w \in Workers : ~Busy(w)
<1> SUFFICES ASSUME NEW w \in Workers, Busy(w) PROVE FALSE
  OBVIOUS
<1>1. Taken(job[w].url) /\ job[w].url \notin DOMAIN results
  BY DEF HandInv
<1>2. PICK h \in Hosts : \E k \in 1..next[h] : queue[h][k] = job[w].url
  BY <1>1 DEF Taken
<1>3. PICK k \in 1..next[h] : queue[h][k] = job[w].url
  BY <1>2
<1>4. queue[h] \in Seq(urls) /\ next[h] \in Nat /\ next[h] <= Len(queue[h])
  BY DEF TypeOK
<1>5. k \in 1..Len(queue[h]) /\ DOMAIN queue[h] = 1..Len(queue[h])
  BY <1>4
<1>6. job[w].url \in ToSet(queue[h])
  BY <1>3, <1>5 DEF ToSet
<1>7. QED
  BY <1>1, <1>6

\* The report writes nothing but the exit.
LEMMA ReportKeeps ==
  ASSUME TypeOK, QueueInv, PhaseInv, HandInv, VerdictInv, Report
  PROVE  TypeOK' /\ QueueInv' /\ PhaseInv' /\ HandInv' /\ VerdictInv'
<1>1. /\ phase = "pool" /\ \A h \in Hosts : ToSet(queue[h]) \subseteq DOMAIN results
      /\ phase' = "exited"
      /\ exit' = IF run.checker = "explainers" THEN explainersExit(results) ELSE citationsExit(results, problems)
      /\ UNCHANGED <<run, delays, queue, next, job, results>>
  BY DEF Report, Exit
<1>2. explainersExit(results) \in 0..2 /\ citationsExit(results, problems) \in 0..2
  BY DEF explainersExit, citationsExit
<1>3. urls' = urls /\ Asked' = Asked /\ problems' = problems /\ Gaps' = Gaps /\ Fetches' = Fetches /\ Sleeps' = Sleeps
  BY <1>1, SameRun
<1>4. TypeOK'
  BY <1>1, <1>2, <1>3 DEF TypeOK
<1>5. QueueInv'
  BY <1>1 DEF QueueInv
<1>6. \A w \in Workers : ~Busy(w) /\ ~Busy(w)'
  BY <1>1, NobodyLeft DEF Busy
<1>7. PhaseInv'
  BY <1>1, <1>3, <1>6 DEF PhaseInv
<1>8. \A u : Taken(u)' <=> Taken(u)
  BY <1>1 DEF Taken
<1>9. HandInv' /\ VerdictInv'
  BY <1>1, <1>6, <1>8 DEF HandInv, VerdictInv
<1>10. QED
  BY <1>4, <1>5, <1>7, <1>9

-----------------------------------------------------------------------------
\* The exit.

\* A run of explainers passes only if every verdict is "ok".
LEMMA ExplainersPass ==
  ASSUME NEW rs, \A u \in DOMAIN rs : rs[u] \in Verdicts, explainersExit(rs) = 0
  PROVE  \A u \in DOMAIN rs : rs[u] = "ok"
<1>1. /\ ~(unreachableHosts(rs) # {} /\ everyFailureWasSilent(rs))
      /\ sortFailures(rs).real = {} /\ sortFailures(rs).throttled = {} /\ sortFailures(rs).unverifiable = {}
  BY DEF explainersExit
<1>2. Of(rs, "real") = {} /\ Of(rs, "torn") = {} /\ Of(rs, "throttled") = {} /\ Of(rs, "unverifiable") = {}
  BY <1>1 DEF sortFailures
<1>3. Failed(rs) = Of(rs, "silent")
  BY <1>2 DEF Failed, Of, Verdicts
<1>4. Failed(rs) # {} => everyFailureWasSilent(rs) /\ unreachableHosts(rs) # {}
  BY <1>3 DEF everyFailureWasSilent, unreachableHosts
<1>5. Failed(rs) = {}
  BY <1>1, <1>4
<1>6. QED
  BY <1>5 DEF Failed

\* It fails only over a page that is not what was recorded or was cut off.
LEMMA ExplainersFail ==
  ASSUME NEW rs, explainersExit(rs) = 1
  PROVE  \E u \in DOMAIN rs : rs[u] \in {"real", "torn"}
<1>1. sortFailures(rs).real # {}
  BY DEF explainersExit
<1>2. Of(rs, "real") \cup Of(rs, "torn") # {}
  BY <1>1 DEF sortFailures
<1>3. QED
  BY <1>2 DEF Of

\* A run of citations passes only if every verdict is "ok" and nothing is wrong
\* on paper.
LEMMA CitationsPass ==
  ASSUME NEW rs, NEW wrong, citationsExit(rs, wrong) = 0
  PROVE  wrong = {} /\ \A u \in DOMAIN rs : rs[u] = "ok"
<1>1. wrong = {} /\ Failed(rs) \ Of(rs, "throttled") = {} /\ Of(rs, "throttled") = {}
  BY DEF citationsExit
<1>2. QED
  BY <1>1 DEF Failed

\* What --fast leaves out has stated a delay.
LEMMA LeftOut ==
  ASSUME TypeOK, PhaseInv, phase \in {"robots", "pool"}, \A h \in Asked : delays[h] # Unheard,
         NEW u \in urls, u \notin checking
  PROVE  run.mode = "fast" /\ starGroupDelay(Robots[hostOf(u)]) > 0
<1>1. run.mode = "fast" /\ delays[hostOf(u)] # 0
  BY DEF checking, checkingOf
<1>2. hostOf(u) \in Hosts /\ hostOf(u) \in Asked
  BY SoundHasHost DEF PhaseInv
<1>3. delays[hostOf(u)] = starGroupDelay(Robots[hostOf(u)])
  BY <1>1, <1>2 DEF PhaseInv
<1>4. QED
  BY <1>1, <1>2, <1>3, DelayIsNumber

\* A step that leaves a finished run as it was keeps what the exit meant.
LEMMA FinishedStays ==
  ASSUME phase = "exited", UNCHANGED <<run, phase, results, exit>>, GreenMeansVerified, OnlyTheGoneAreCondemned
  PROVE  GreenMeansVerified' /\ OnlyTheGoneAreCondemned'
<1>1. urls' = urls /\ problems' = problems
  BY SameRun
<1>2. QED
  BY <1>1 DEF GreenMeansVerified, OnlyTheGoneAreCondemned, Exited

\* While a run goes on, its verdicts speak for themselves.
LEMMA Unfinished ==
  ASSUME VerdictInv', phase' # "exited"
  PROVE  GreenMeansVerified' /\ OnlyTheGoneAreCondemned'
BY DEF VerdictInv, GreenMeansVerified, OnlyTheGoneAreCondemned, Exited, Of

\* Nothing but the main program ends a run, and a run that ended stays as it is.
LEMMA OthersEndNothing ==
  ASSUME IInv, Tick \/ (\E w \in Workers : Step(w)), VerdictInv'
  PROVE  GreenMeansVerified' /\ OnlyTheGoneAreCondemned'
<1>1. TypeOK /\ PhaseInv /\ GreenMeansVerified /\ OnlyTheGoneAreCondemned
  BY DEF IInv
<1>2. UNCHANGED <<run, phase, exit>>
  <2>1. CASE Tick
    BY <2>1 DEF Tick
  <2>2. ASSUME NEW w \in Workers, Step(w) PROVE UNCHANGED <<run, phase, exit>>
    <3>1. Take(w) \/ GapOver(w) \/ GoesOn(w) \/ IsDone(w)
      BY <1>1, <2>2, StepIs
    <3>2. QED
      BY <3>1 DEF Take, GapOver, GoesOn, IsDone, Kept
  <2>3. QED
    BY <2>1, <2>2
<1>3. CASE phase = "exited"
  <2>1. UNCHANGED results
    <3>1. CASE Tick
      BY <3>1 DEF Tick
    <3>2. ASSUME NEW w \in Workers, Step(w) PROVE UNCHANGED results
      <4>1. Take(w) \/ GapOver(w) \/ GoesOn(w) \/ IsDone(w)
        BY <1>1, <3>2, StepIs
      <4>2. ~Busy(w)
        BY <1>1, <1>3 DEF PhaseInv
      <4>3. QED
        BY <4>1, <4>2 DEF Take, GapOver, GoesOn, IsDone
    <3>3. QED
      BY <3>1, <3>2
  <2>2. QED
    BY <1>1, <1>2, <1>3, <2>1, FinishedStays
<1>4. CASE phase # "exited"
  <2>1. phase' # "exited"
    BY <1>2, <1>4
  <2>2. QED
    BY <2>1, Unfinished
<1>5. QED
  BY <1>3, <1>4

\* What a run says when it ends on paper.
LEMMA StartIsRight ==
  ASSUME IInv, Start, VerdictInv'
  PROVE  GreenMeansVerified' /\ OnlyTheGoneAreCondemned'
<1>1. TypeOK /\ PhaseInv /\ phase = "start" /\ UNCHANGED <<run, delays, queue, next, job, results>>
  BY DEF IInv, Start
<1>2. urls' = urls /\ problems' = problems
  BY <1>1, SameRun
<1>3. DOMAIN results' = {}
  BY <1>1 DEF PhaseInv
<1>4. CASE run.checker = "explainers" /\ problems # {}
  <2>1. Exit(1)
    BY <1>4 DEF Start
  <2>2. QED
    BY <1>2, <1>3, <1>4, <2>1 DEF Exit, GreenMeansVerified, OnlyTheGoneAreCondemned, Exited, Of
<1>5. CASE run.checker = "explainers" /\ problems = {} /\ (run.corpus = <<>> \/ run.mode = "offline")
  <2>1. Exit(0)
    BY <1>5 DEF Start
  <2>2. urls = {} \/ run.mode = "offline"
    BY <1>5 DEF urls, urlsOf
  <2>3. QED
    BY <1>1, <1>2, <1>3, <1>5, <2>1, <2>2 DEF Exit, GreenMeansVerified, OnlyTheGoneAreCondemned, Exited, Of
<1>6. CASE run.checker = "citations" /\ run.mode = "offline"
  <2>1. Exit(IF problems # {} THEN 1 ELSE 0)
    BY <1>6 DEF Start
  <2>2. QED
    BY <1>1, <1>2, <1>3, <1>6, <2>1 DEF Exit, GreenMeansVerified, OnlyTheGoneAreCondemned, Exited, Of
<1>7. CASE /\ ~(run.checker = "explainers" /\ problems # {})
           /\ ~(run.checker = "explainers" /\ problems = {} /\ (run.corpus = <<>> \/ run.mode = "offline"))
           /\ ~(run.checker = "citations" /\ run.mode = "offline")
  <2>1. phase' = "robots"
    BY <1>7 DEF Start
  <2>2. QED
    BY <2>1, Unfinished
<1>8. QED
  BY <1>4, <1>5, <1>6, <1>7

\* With nothing to ask about, nothing was left out but what --fast leaves out.
LEMMA BeginIsRight ==
  ASSUME IInv, Begin, VerdictInv'
  PROVE  GreenMeansVerified' /\ OnlyTheGoneAreCondemned'
<1>1. /\ TypeOK /\ PhaseInv /\ phase = "robots" /\ UNCHANGED <<run, delays, next, job, results>>
      /\ \A h \in Asked : delays[h] # Unheard
  BY DEF IInv, Begin
<1>2. urls' = urls /\ problems' = problems
  BY <1>1, SameRun
<1>3. DOMAIN results' = {}
  BY <1>1 DEF PhaseInv
<1>4. CASE checking # {}
  <2>1. phase' = "pool"
    BY <1>4 DEF Begin
  <2>2. QED
    BY <2>1, Unfinished
<1>5. CASE checking = {}
  <2>1. Exit(0)
    BY <1>5 DEF Begin
  <2>2. \A u \in urls : run.mode = "fast" /\ starGroupDelay(Robots[hostOf(u)]) > 0
    BY <1>1, <1>5, LeftOut
  <2>3. run.mode = "full" => problems = {}
    <3>1. CASE run.checker = "explainers"
      BY <1>1, <3>1 DEF PhaseInv
    <3>2. CASE run.checker = "citations" /\ run.mode = "full"
      BY <1>1, <2>2, <3>2, NothingNoProblem
    <3>3. QED
      BY <1>1, <3>1, <3>2, RunIs
  <2>4. QED
    BY <1>1, <1>2, <1>3, <2>1, <2>2, <2>3
       DEF Exit, GreenMeansVerified, OnlyTheGoneAreCondemned, Exited, Of
<1>6. QED
  BY <1>4, <1>5

\* Every url that was to be checked has a verdict when the report is made.
LEMMA ReportIsRight ==
  ASSUME IInv, Report, VerdictInv'
  PROVE  GreenMeansVerified' /\ OnlyTheGoneAreCondemned'
<1>1. /\ TypeOK /\ QueueInv /\ PhaseInv /\ VerdictInv
      /\ phase = "pool" /\ \A h \in Hosts : ToSet(queue[h]) \subseteq DOMAIN results
      /\ phase' = "exited"
      /\ exit' = IF run.checker = "explainers" THEN explainersExit(results) ELSE citationsExit(results, problems)
      /\ UNCHANGED <<run, delays, queue, next, job, results>>
  BY DEF IInv, Report, Exit
<1>2. urls' = urls /\ problems' = problems
  BY <1>1, SameRun
<1>3. run.checker \in {"citations", "explainers"} /\ \A u \in DOMAIN results : results[u] \in Verdicts
  BY <1>1, RunIs DEF TypeOK
<1>4. \A h \in Asked : delays[h] # Unheard
  BY <1>1 DEF PhaseInv
<1>5. \A u \in checking : u \in DOMAIN results
  <2> SUFFICES ASSUME NEW u \in checking PROVE u \in DOMAIN results
    OBVIOUS
  <2>1. PICK h \in Hosts : \E k \in DOMAIN queue[h] : queue[h][k] = u
    BY <1>1 DEF QueueInv
  <2>2. u \in ToSet(queue[h])
    BY <2>1 DEF ToSet
  <2>3. QED
    BY <1>1, <2>2
<1>6. \A u \in urls : \/ u \in DOMAIN results
                      \/ run.mode = "fast" /\ starGroupDelay(Robots[hostOf(u)]) > 0
  BY <1>1, <1>4, <1>5, LeftOut
<1>7. ASSUME exit' = 0
      PROVE  (run.mode = "full" => problems = {}) /\ \A u \in DOMAIN results : results[u] = "ok"
  <2>1. CASE run.checker = "explainers"
    <3>1. problems = {}
      BY <1>1, <2>1 DEF PhaseInv
    <3>2. explainersExit(results) = 0
      BY <1>1, <1>7, <2>1
    <3>3. QED
      BY <1>3, <3>1, <3>2, ExplainersPass
  <2>2. CASE run.checker = "citations"
    <3>1. citationsExit(results, problems) = 0
      BY <1>1, <1>7, <2>2
    <3>2. QED
      BY <3>1, CitationsPass
  <2>3. QED
    BY <1>3, <2>1, <2>2
<1>8. GreenMeansVerified'
  <2> SUFFICES ASSUME exit' = 0
               PROVE  /\ run.mode = "full" => problems = {}
                      /\ \A u \in urls :
                           \/ u \in DOMAIN results /\ results[u] = "ok"
                              /\ Page[u] \in {"right"} \cup (IF run.checker = "citations" THEN {"wrong"} ELSE {})
                           \/ run.mode = "offline"
                           \/ run.mode = "fast" /\ starGroupDelay(Robots[hostOf(u)]) > 0
    BY <1>1, <1>2 DEF GreenMeansVerified, Exited
  <2>1. QED
    BY <1>1, <1>6, <1>7 DEF VerdictInv
<1>9. OnlyTheGoneAreCondemned'
  <2> SUFFICES ASSUME run.checker = "explainers"
               PROVE  /\ \A u \in Of(results, "real") : Page[u] # "right"
                      /\ exit' = 1 => problems # {} \/ \E u \in DOMAIN results : Page[u] # "right" \/ results[u] = "torn"
    BY <1>1, <1>2 DEF OnlyTheGoneAreCondemned, Exited
  <2>1. \A u \in DOMAIN results : results[u] = "real" => Page[u] # "right"
    BY <1>1 DEF VerdictInv
  <2>2. exit' = 1 => \E u \in DOMAIN results : results[u] \in {"real", "torn"}
    BY <1>1, ExplainersFail
  <2>3. QED
    BY <2>1, <2>2 DEF Of
<1>10. QED
  BY <1>8, <1>9

\* A host that is heard ends nothing.
LEMMA HeardEndsNothing ==
  ASSUME NEW h \in Hosts, crawlDelays(h), VerdictInv'
  PROVE  GreenMeansVerified' /\ OnlyTheGoneAreCondemned'
<1>1. phase' # "exited"
  BY DEF crawlDelays
<1>2. QED
  BY <1>1, Unfinished

-----------------------------------------------------------------------------
\* The theorems.

\* The invariant holds at the start and is kept by every step of the program.
THEOREM Invariance == Spec => []IInv
<1>1. Init => IInv
  <2> SUFFICES ASSUME Init PROVE IInv
    OBVIOUS
  <2>1. /\ run \in Runs /\ phase = "start" /\ exit = 0
        /\ delays = [h \in Hosts |-> Unheard]
        /\ queue = [h \in Hosts |-> <<>>] /\ next = [h \in Hosts |-> 0]
        /\ job = [w \in Workers |-> Free] /\ DOMAIN results = {}
    BY DEF Init
  <2>2. TypeOK
    BY <2>1 DEF TypeOK, Unheard
  <2>3. QueueInv
    BY <2>1 DEF QueueInv
  <2>4. PhaseInv
    BY <2>1, FreeIsIdle DEF PhaseInv
  <2>5. HandInv /\ VerdictInv
    BY <2>1, FreeIsIdle DEF HandInv, VerdictInv
  <2>6. GreenMeansVerified /\ OnlyTheGoneAreCondemned
    BY <2>1 DEF GreenMeansVerified, OnlyTheGoneAreCondemned, Exited, Of
  <2>7. QED
    BY <2>2, <2>3, <2>4, <2>5, <2>6 DEF IInv
<1>2. IInv /\ [Next]_vars => IInv'
  <2> SUFFICES ASSUME IInv, [Next]_vars PROVE IInv'
    OBVIOUS
  <2>1. TypeOK /\ QueueInv /\ PhaseInv /\ HandInv /\ VerdictInv
    BY DEF IInv
  <2>2. CASE Start
    BY <2>1, <2>2, StartKeeps, StartIsRight DEF IInv
  <2>3. CASE Begin
    BY <2>1, <2>3, BeginKeeps, BeginIsRight DEF IInv
  <2>4. CASE Report
    BY <2>1, <2>4, ReportKeeps, ReportIsRight DEF IInv
  <2>5. ASSUME NEW h \in Hosts, crawlDelays(h) PROVE IInv'
    BY <2>1, <2>5, CrawlDelaysKeeps, HeardEndsNothing DEF IInv
  <2>6. CASE Tick
    BY <2>1, <2>6, TickKeeps, OthersEndNothing DEF IInv
  <2>7. ASSUME NEW w \in Workers, Step(w) PROVE IInv'
    <3>1. Take(w) \/ GapOver(w) \/ GoesOn(w) \/ IsDone(w)
      BY <2>1, <2>7, StepIs
    <3>2. TypeOK' /\ QueueInv' /\ PhaseInv' /\ HandInv' /\ VerdictInv'
      BY <2>1, <3>1, TakeKeeps, GapOverKeeps, GoesOnKeeps, IsDoneKeeps
    <3>3. QED
      BY <2>7, <3>2, OthersEndNothing DEF IInv
  <2>8. CASE UNCHANGED vars
    <3>1. UNCHANGED <<run, phase, delays, queue, next, job, results, exit>>
      BY <2>8 DEF vars
    <3>2. /\ urls' = urls /\ Asked' = Asked /\ problems' = problems
          /\ Gaps' = Gaps /\ Fetches' = Fetches /\ Sleeps' = Sleeps
      BY <3>1, SameRun
    <3>3. TypeOK'
      BY <2>1, <3>1, <3>2 DEF TypeOK
    <3>4. QueueInv'
      BY <2>1, <3>1, QueueKept
    <3>5. \A w \in Workers : Busy(w)' <=> Busy(w)
      BY <3>1 DEF Busy
    <3>6. \A u : Taken(u)' <=> Taken(u)
      BY <3>1 DEF Taken
    <3>7. PhaseInv'
      BY <2>1, <3>1, <3>2, <3>5 DEF PhaseInv
    <3>8. HandInv' /\ VerdictInv'
      BY <2>1, <3>1, <3>5, <3>6 DEF HandInv, VerdictInv
    <3>9. GreenMeansVerified' /\ OnlyTheGoneAreCondemned'
      BY <3>1, <3>2 DEF IInv, GreenMeansVerified, OnlyTheGoneAreCondemned, Exited
    <3>10. QED
      BY <3>3, <3>4, <3>7, <3>8, <3>9 DEF IInv
  <2>9. QED
    BY <2>2, <2>3, <2>4, <2>5, <2>6, <2>7, <2>8 DEF Next, Main
<1>3. QED
  BY <1>1, <1>2, PTL DEF Spec

\* Every state of a run is of its type.
THEOREM TypeCorrect == Spec => []TypeOK
<1>1. IInv => TypeOK
  BY DEF IInv
<1>2. QED
  BY <1>1, Invariance, PTL

\* One request at a time of a host that asks for a delay, and no url in two
\* hands or fetched again: fetch-pool.mjs, for any number of hosts and workers.
THEOREM PoolIsPolite == Spec => []Polite
<1>1. IInv => Polite
  <2> SUFFICES ASSUME IInv, NEW w \in Workers, Busy(w)
               PROVE  /\ job[w].url \notin DOMAIN results
                      /\ \A x \in Workers \ {w} :
                           Busy(x) => job[x].url # job[w].url /\ (x[1] = w[1] => delays[w[1]] = 0)
    BY DEF Polite
  <2>1. HandInv
    BY DEF IInv
  <2>2. job[w].url \notin DOMAIN results
    BY <2>1 DEF HandInv
  <2>3. ASSUME NEW x \in Workers \ {w}, Busy(x)
        PROVE  job[x].url # job[w].url /\ (x[1] = w[1] => delays[w[1]] = 0)
    <3>1. job[x].url # job[w].url
      BY <2>1, <2>3 DEF HandInv
    <3>2. (delays[w[1]] = 0 \/ w[2] = 1) /\ (delays[x[1]] = 0 \/ x[2] = 1)
      BY <2>1, <2>3 DEF HandInv
    <3>3. w[1] = x[1] /\ w[2] = x[2] => w = x
      BY DEF Workers
    <3>4. QED
      BY <2>3, <3>1, <3>2, <3>3
  <2>4. QED
    BY <2>2, <2>3
<1>2. QED
  BY <1>1, Invariance, PTL

\* Exit 0 is never given because a checker could not look.
THEOREM GreenIsEarned == Spec => []GreenMeansVerified
<1>1. IInv => GreenMeansVerified
  BY DEF IInv
<1>2. QED
  BY <1>1, Invariance, PTL

\* Exit 1 is never given over a silent or a slow host, nor an entry condemned.
THEOREM NobodyIsCondemned == Spec => []OnlyTheGoneAreCondemned
<1>1. IInv => OnlyTheGoneAreCondemned
  BY DEF IInv
<1>2. QED
  BY <1>1, Invariance, PTL

-----------------------------------------------------------------------------
\* The pool implements its contract.

\* What is unclaimed is in a queue, past what its host's workers have taken.
LEMMA UnclaimedIs ==
  ASSUME TypeOK, NEW u
  PROVE  u \in Unclaimed <=> \E h \in Hosts : \E k \in next[h] + 1..Len(queue[h]) : queue[h][k] = u
BY DEF Unclaimed

\* What is unclaimed was not taken: a queue holds a url once, and no two queues
\* hold the same.
LEMMA UnclaimedNotTaken ==
  ASSUME TypeOK, QueueInv, NEW u \in Unclaimed
  PROVE  ~Taken(u) /\ u \in urls
<1> PICK h \in Hosts : \E k \in next[h] + 1..Len(queue[h]) : queue[h][k] = u
  BY UnclaimedIs
<1>1. PICK k \in next[h] + 1..Len(queue[h]) : queue[h][k] = u
  OBVIOUS
<1>2. \A g \in Hosts : queue[g] \in Seq(urls) /\ next[g] \in Nat /\ next[g] <= Len(queue[g])
  BY DEF TypeOK
<1>3. \A g \in Hosts : DOMAIN queue[g] = 1..Len(queue[g]) /\ Len(queue[g]) \in Nat
  BY <1>2
<1>4. k \in DOMAIN queue[h] /\ \A g \in Hosts : \A j \in 1..next[g] : j \in DOMAIN queue[g]
  BY <1>2, <1>3
<1>5. u \in urls
  BY <1>1, <1>2, <1>3, <1>4
<1>6. ASSUME NEW g \in Hosts, NEW j \in 1..next[g], queue[g][j] = u PROVE FALSE
  <2>1. j \in DOMAIN queue[g]
    BY <1>4
  <2>2. hostOf(u) = g /\ hostOf(u) = h
    BY <1>1, <1>4, <1>6, <2>1 DEF QueueInv
  <2>3. j = k
    BY <1>1, <1>4, <1>6, <2>1, <2>2 DEF QueueInv
  <2>4. QED
    BY <1>2, <2>2, <2>3
<1>7. QED
  BY <1>5, <1>6 DEF Taken

\* A step that leaves phase, delays, queues, hands and verdicts is not seen.
LEMMA NotSeen ==
  ASSUME TypeOK, UNCHANGED <<phase, delays, queue, next, results>>,
         \A w \in Workers : (Busy(w)' <=> Busy(w)) /\ (Busy(w) => job'[w].url = job[w].url)
  PROVE  UNCHANGED Pool!poolVars
<1>1. Unclaimed' = Unclaimed
  BY DEF Unclaimed
<1>2. poolStage' = poolStage /\ poolAlone' = poolAlone /\ poolLeft' = poolLeft
  BY <1>1 DEF poolStage, poolAlone, poolLeft
<1>3. poolHeld' = poolHeld
  BY DEF poolHeld
<1>4. QED
  BY <1>2, <1>3 DEF Pool!poolVars

\* Who takes a url claims it: nobody else has taken it, and if the host wants to
\* be asked alone then this worker is the only one of the host that works.
LEMMA TakeClaims ==
  ASSUME TypeOK, QueueInv, PhaseInv, HandInv, VerdictInv, NEW w \in Workers, Take(w)
  PROVE  \E u \in DOMAIN Url : Pool!Claim(w, u)
<1> DEFINE h == w[1]
           u == queue[h][next[h] + 1]
           j == Asking(u, FirstAsk(u))
<1>1. /\ Works(w) /\ job[w] = Free /\ next[h] < Len(queue[h])
      /\ next' = [next EXCEPT ![h] = @ + 1] /\ job' = [job EXCEPT ![w] = j]
      /\ UNCHANGED <<run, phase, delays, queue, results, exit>>
  BY DEF Take
<1>2. h \in Hosts
  BY DEF Workers
<1>3. phase = "pool" /\ (delays[h] = 0 \/ w[2] = 1)
  BY <1>1 DEF Works
<1>4. TypeOK' /\ QueueInv'
  BY TakeKeeps
<1>5. \A g \in Hosts : queue[g] \in Seq(urls) /\ next[g] \in Nat /\ next[g] <= Len(queue[g]) /\ Len(queue[g]) \in Nat
  BY DEF TypeOK
<1>6. next'[h] = next[h] + 1 /\ \A g \in Hosts \ {h} : next'[g] = next[g]
  BY <1>1, <1>2 DEF TypeOK
<1>7. u \in Unclaimed
  <2>1. next[h] + 1 \in next[h] + 1..Len(queue[h])
    BY <1>1, <1>2, <1>5
  <2>2. QED
    BY <1>2, <2>1, UnclaimedIs
<1>8. u \in urls /\ u \in DOMAIN Url
  BY <1>7, UnclaimedNotTaken, RunIs
<1>9. hostOf(u) = h
  <2>1. next[h] + 1 \in DOMAIN queue[h]
    <3>1. next[h] + 1 \in 1..Len(queue[h])
      BY <1>1, <1>2, <1>5
    <3>2. QED
      BY <1>2, <1>5, <3>1
  <2>2. QED
    BY <1>2, <2>1 DEF QueueInv
<1>10. Unclaimed' = Unclaimed \ {u}
  <2>1. \A x : x \in Unclaimed' <=> \E g \in Hosts : \E k \in next'[g] + 1..Len(queue[g]) : queue[g][k] = x
    BY <1>1 DEF Unclaimed
  <2>2. ASSUME NEW x \in Unclaimed \ {u} PROVE x \in Unclaimed'
    <3> PICK g \in Hosts : \E k \in next[g] + 1..Len(queue[g]) : queue[g][k] = x
      BY UnclaimedIs
    <3>1. PICK k \in next[g] + 1..Len(queue[g]) : queue[g][k] = x
      OBVIOUS
    <3>2. k \in next'[g] + 1..Len(queue[g])
      <4>1. CASE g = h
        <5>1. k # next[h] + 1
          BY <2>2, <3>1, <4>1
        <5>2. QED
          BY <1>2, <1>5, <1>6, <4>1, <5>1
      <4>2. CASE g # h
        BY <1>6, <4>2
      <4>3. QED
        BY <4>1, <4>2
    <3>3. QED
      BY <2>1, <3>1, <3>2
  <2>3. ASSUME NEW x \in Unclaimed' PROVE x \in Unclaimed \ {u}
    <3> PICK g \in Hosts : \E k \in next'[g] + 1..Len(queue[g]) : queue[g][k] = x
      BY <2>1
    <3>1. PICK k \in next'[g] + 1..Len(queue[g]) : queue[g][k] = x
      OBVIOUS
    <3>2. k \in next[g] + 1..Len(queue[g]) /\ (g = h => k # next[h] + 1)
      BY <1>2, <1>5, <1>6
    <3>3. x \in Unclaimed
      BY <3>1, <3>2, UnclaimedIs
    <3>4. x # u
      <4>1. k \in DOMAIN queue[g] /\ next[h] + 1 \in DOMAIN queue[h]
        <5>1. k \in 1..Len(queue[g]) /\ next[h] + 1 \in 1..Len(queue[h])
          BY <1>1, <1>2, <1>5, <3>2
        <5>2. QED
          BY <1>2, <1>5, <5>1
      <4>2. ASSUME x = u PROVE FALSE
        <5>1. g = h
          BY <1>9, <3>1, <4>1, <4>2 DEF QueueInv
        <5>2. k = next[h] + 1
          BY <3>1, <4>1, <4>2, <5>1 DEF QueueInv
        <5>3. QED
          BY <3>2, <5>1, <5>2
      <4>3. QED
        BY <4>2
    <3>5. QED
      BY <3>3, <3>4
  <2>4. QED
    BY <2>2, <2>3
<1> HIDE DEF u
<1>11. /\ poolStage = "open" /\ UNCHANGED <<poolStage, poolAlone>>
       /\ poolLeft = Unclaimed /\ poolLeft' = poolLeft \ {u}
  BY <1>1, <1>3, <1>10 DEF poolStage, poolAlone, poolLeft
<1>12. ASSUME NEW x \in Workers, x = w \/ (x[1] = h /\ h \in poolAlone) PROVE poolHeld[x] = {}
  <2>1. ~Busy(w)
    BY <1>1, FreeIsIdle
  <2>2. ASSUME x # w, Busy(x) PROVE FALSE
    <3>1. delays[h] > 0 /\ x[1] = h
      BY <1>2, <1>3, <1>12, <2>2 DEF poolAlone
    <3>2. delays[h] # 0
      BY <1>2, <3>1 DEF TypeOK, Unheard
    <3>3. x[2] = 1 /\ w[2] = 1
      BY <1>3, <2>2, <3>1, <3>2 DEF HandInv
    <3>4. QED
      BY <2>2, <3>1, <3>3 DEF Workers
  <2>3. QED
    BY <2>1, <2>2 DEF poolHeld
<1>13. poolHeld' = [poolHeld EXCEPT ![w] = {u}]
  <2>1. j.at = "fetch" /\ j.url = u
    BY DEF Asking
  <2> HIDE DEF j
  <2>2. Busy(w)' /\ job'[w].url = u /\ \A x \in Workers \ {w} : (Busy(x)' <=> Busy(x)) /\ job'[x] = job[x]
    BY <1>1, <2>1, OthersKept DEF Busy
  <2>3. QED
    BY <2>2 DEF poolHeld
<1>14. QED
  BY <1>1, <1>7, <1>8, <1>9, <1>11, <1>12, <1>13 DEF Pool!Claim

\* Who is done with a url answers for it.
LEMMA DoneAnswers ==
  ASSUME TypeOK, PhaseInv, HandInv, NEW w \in Workers, IsDone(w)
  PROVE  \E u \in DOMAIN Url : Pool!Answer(w, u)
<1> DEFINE u == job[w].url
           j == IF delays[w[1]] > 0 /\ next[w[1]] < Len(queue[w[1]]) THEN [at |-> "gap", left |-> delays[w[1]]] ELSE Free
<1>1. PICK v \in Verdicts : Settle(w, v)
  BY DEF IsDone
<1>2. UNCHANGED <<run, phase, delays, queue, next, exit>> /\ Busy(w)
  BY DEF IsDone, Kept
<1>3. /\ results' = [x \in DOMAIN results \cup {u} |-> IF x = u THEN v ELSE results[x]]
      /\ job' = [job EXCEPT ![w] = j]
  BY <1>1 DEF Settle
<1>4. phase = "pool"
  <2>1. job[w] # Free
    BY <1>2 DEF Busy, Free
  <2>2. QED
    BY <1>2, <2>1 DEF PhaseInv, TypeOK
<1>5. u \in DOMAIN Url /\ u \notin DOMAIN results
  <2>1. u \in urls
    BY <1>2, JobIs
  <2>2. QED
    BY <1>2, <2>1, RunIs DEF HandInv
<1>6. Unclaimed' = Unclaimed
  BY <1>2 DEF Unclaimed
<1>7. poolStage = "open" /\ UNCHANGED <<poolStage, poolAlone, poolLeft>>
  BY <1>2, <1>4, <1>6 DEF poolStage, poolAlone, poolLeft
<1>8. poolHeld[w] = {u} /\ poolHeld' = [poolHeld EXCEPT ![w] = {}]
  <2>1. j.at \notin {"fetch", "sleep"}
    BY DEF Free
  <2> HIDE DEF j
  <2>2. ~Busy(w)' /\ \A x \in Workers \ {w} : (Busy(x)' <=> Busy(x)) /\ job'[x] = job[x]
    BY <1>3, <2>1, OthersKept DEF Busy
  <2>3. QED
    BY <1>2, <2>2 DEF poolHeld
<1> HIDE DEF u
<1>9. QED
  BY <1>3, <1>5, <1>7, <1>8 DEF Pool!Answer

\* What is to be checked is handed over when every robots.txt was heard.
LEMMA BeginOpens ==
  ASSUME TypeOK, QueueInv, PhaseInv, HandInv, VerdictInv, Begin
  PROVE  Pool!Open
<1>1. phase = "robots" /\ UNCHANGED <<run, delays, next, job, results>>
  BY DEF Begin
<1>2. TypeOK' /\ QueueInv'
  BY BeginKeeps
<1>3. (checking = {} /\ phase' = "exited") \/ (checking # {} /\ phase' = "pool")
  BY DEF Begin, Exit
<1>4. checking' = checking
  BY <1>1, SameRun DEF checking
<1>5. poolStage = "closed" /\ poolAlone' \subseteq Hosts
  BY <1>1 DEF poolStage, poolAlone
<1>6. poolHeld' = poolHeld
  BY <1>1 DEF poolHeld, Busy
<1>7. CASE checking = {}
  BY <1>1, <1>3, <1>5, <1>6, <1>7 DEF Pool!Open, poolStage, poolLeft
<1>8. CASE checking # {}
  <2>1. \A h \in Hosts : next'[h] = 0 /\ queue'[h] \in Seq(urls')
    BY <1>1, <1>2 DEF PhaseInv, TypeOK
  <2>2. urls' = urls
    BY <1>1, SameRun
  <2>3. Unclaimed' # {}
    <3>1. PICK u \in checking : \E h \in Hosts : \E k \in DOMAIN queue'[h] : queue'[h][k] = u
      BY <1>2, <1>3, <1>4, <1>8 DEF QueueInv
    <3> PICK h \in Hosts : \E k \in DOMAIN queue'[h] : queue'[h][k] = u
      BY <3>1
    <3>2. PICK k \in DOMAIN queue'[h] : queue'[h][k] = u
      OBVIOUS
    <3>3. k \in next'[h] + 1..Len(queue'[h])
      BY <2>1
    <3>4. u \in Unclaimed'
      BY <3>2, <3>3 DEF Unclaimed
    <3>5. QED
      BY <3>4
  <2>4. Unclaimed' \subseteq urls
    <3> SUFFICES ASSUME NEW h \in Hosts, NEW k \in next'[h] + 1..Len(queue'[h]) PROVE queue'[h][k] \in urls
      BY DEF Unclaimed
    <3>1. k \in 1..Len(queue'[h]) /\ queue'[h] \in Seq(urls)
      BY <2>1, <2>2
    <3>2. QED
      BY <3>1
  <2>5. urls \subseteq DOMAIN Url
    BY RunIs
  <2>6. poolStage' = "open" /\ poolLeft' = Unclaimed'
    BY <1>3, <1>8 DEF poolStage, poolLeft
  <2>7. QED
    BY <1>1, <1>5, <1>6, <2>3, <2>4, <2>5, <2>6 DEF Pool!Open
<1>9. QED
  BY <1>7, <1>8

\* The report is made when nothing is unclaimed and nobody has anything in hand.
LEMMA ReportCloses ==
  ASSUME TypeOK, QueueInv, HandInv, Report
  PROVE  Pool!Close
<1>1. /\ phase = "pool" /\ phase' = "exited" /\ \A h \in Hosts : ToSet(queue[h]) \subseteq DOMAIN results
      /\ UNCHANGED <<run, delays, queue, next, job, results>>
  BY DEF Report, Exit
<1>2. \A w \in Workers : ~Busy(w)
  BY <1>1, NobodyLeft
<1>3. Unclaimed = {}
  <2> SUFFICES ASSUME NEW u \in Unclaimed PROVE FALSE
    OBVIOUS
  <2>1. ~Taken(u)
    BY UnclaimedNotTaken
  <2>2. u \notin DOMAIN results
    BY <2>1 DEF HandInv
  <2> PICK h \in Hosts : \E k \in next[h] + 1..Len(queue[h]) : queue[h][k] = u
    BY UnclaimedIs
  <2>3. PICK k \in next[h] + 1..Len(queue[h]) : queue[h][k] = u
    OBVIOUS
  <2>4. k \in DOMAIN queue[h]
    <3>1. queue[h] \in Seq(urls) /\ next[h] \in Nat
      BY DEF TypeOK
    <3>2. k \in 1..Len(queue[h]) /\ DOMAIN queue[h] = 1..Len(queue[h])
      BY <3>1
    <3>3. QED
      BY <3>2
  <2>5. u \in ToSet(queue[h])
    BY <2>3, <2>4 DEF ToSet
  <2>6. QED
    BY <1>1, <2>2, <2>5
<1>4. poolStage = "open" /\ poolStage' = "done" /\ poolLeft = {} /\ poolLeft' = {} /\ poolAlone' = poolAlone
  BY <1>1, <1>3 DEF poolStage, poolLeft, poolAlone
<1>5. poolHeld' = poolHeld /\ \A w \in Workers : poolHeld[w] = {}
  BY <1>1, <1>2 DEF poolHeld, Busy
<1>6. QED
  BY <1>1, <1>4, <1>5 DEF Pool!Close

\* A run that is over before it asks anybody opens an empty pool; otherwise its
\* start, like a host that is heard, is not seen.
LEMMA StartOpensOrNot ==
  ASSUME TypeOK, PhaseInv, Start
  PROVE  Pool!Open \/ UNCHANGED Pool!poolVars
<1>1. phase = "start" /\ phase' \in {"exited", "robots"} /\ UNCHANGED <<run, delays, queue, next, job, results>>
  BY DEF Start, Exit
<1>2. poolHeld' = poolHeld
  BY <1>1 DEF poolHeld, Busy
<1>3. CASE phase' = "exited"
  BY <1>1, <1>2, <1>3 DEF Pool!Open, poolStage, poolAlone, poolLeft
<1>4. CASE phase' = "robots"
  BY <1>1, <1>2, <1>4 DEF Pool!poolVars, poolStage, poolAlone, poolLeft
<1>5. QED
  BY <1>1, <1>3, <1>4

\* A host's Crawl-delay is heard before the pools open and is not seen.
LEMMA HeardNotSeen ==
  ASSUME NEW h \in Hosts, crawlDelays(h)
  PROVE  UNCHANGED Pool!poolVars
<1>1. phase = "robots" /\ UNCHANGED <<run, phase, queue, next, job, results>>
  BY DEF crawlDelays
<1>2. poolHeld' = poolHeld
  BY <1>1 DEF poolHeld, Busy
<1>3. QED
  BY <1>1, <1>2 DEF Pool!poolVars, poolStage, poolAlone, poolLeft

\* Whoever hands urls to the pool sees each claimed once, answered once by who
\* claimed it, delayed hosts asked one at a time, and a report when all are
\* answered: fetch-pool.mjs, for any number of hosts and workers.
THEOREM PoolImplements == Spec => PoolSpec
<1>1. Init => Pool!PoolInit
  <2> SUFFICES ASSUME Init PROVE Pool!PoolInit
    OBVIOUS
  <2>1. phase = "start" /\ job = [w \in Workers |-> Free] /\ results = <<>>
    BY DEF Init
  <2>2. poolHeld = [w \in Workers |-> {}]
    BY <2>1, FreeIsIdle DEF poolHeld
  <2>3. QED
    BY <2>1, <2>2 DEF Pool!PoolInit, poolStage, poolAlone, poolLeft
<1>2. IInv /\ [Next]_vars => [Pool!PoolNext]_(Pool!poolVars)
  <2> SUFFICES ASSUME IInv, [Next]_vars PROVE Pool!PoolNext \/ UNCHANGED Pool!poolVars
    OBVIOUS
  <2>1. TypeOK /\ QueueInv /\ PhaseInv /\ HandInv /\ VerdictInv
    BY DEF IInv
  <2>2. CASE Start
    BY <2>1, <2>2, StartOpensOrNot DEF Pool!PoolNext
  <2>3. CASE Begin
    BY <2>1, <2>3, BeginOpens DEF Pool!PoolNext
  <2>4. CASE Report
    BY <2>1, <2>4, ReportCloses DEF Pool!PoolNext
  <2>5. ASSUME NEW h \in Hosts, crawlDelays(h) PROVE UNCHANGED Pool!poolVars
    BY <2>5, HeardNotSeen
  <2>6. CASE Tick
    <3>1. UNCHANGED <<phase, delays, queue, next, results>>
      BY <2>6 DEF Tick
    <3>2. QED
      BY <2>1, <2>6, <3>1, TickKeepsHands, NotSeen
  <2>7. ASSUME NEW w \in Workers, Step(w) PROVE Pool!PoolNext \/ UNCHANGED Pool!poolVars
    <3>1. CASE Take(w)
      BY <2>1, <3>1, TakeClaims DEF Pool!PoolNext
    <3>2. CASE IsDone(w)
      BY <2>1, <3>2, DoneAnswers DEF Pool!PoolNext
    <3>3. CASE GapOver(w)
      <4>1. job[w].at = "gap" /\ job' = [job EXCEPT ![w] = Free] /\ UNCHANGED <<phase, delays, queue, next, results>>
        BY <3>3 DEF GapOver, Kept
      <4>2. \A x \in Workers : (Busy(x)' <=> Busy(x)) /\ (Busy(x) => job'[x].url = job[x].url)
        <5>1. Free.at = "free"
          BY DEF Free
        <5>2. QED
          BY <2>1, <4>1, <5>1, OthersKept DEF Busy
      <4>3. QED
        BY <2>1, <4>1, <4>2, NotSeen
    <3>4. CASE GoesOn(w)
      <4>1. PICK j \in Fetches \cup Sleeps : j.url = job[w].url /\ job' = [job EXCEPT ![w] = j]
        BY <3>4 DEF GoesOn
      <4>2. j.at \in {"fetch", "sleep"}
        BY DEF Fetches, Sleeps
      <4>3. Busy(w) /\ UNCHANGED <<phase, delays, queue, next, results>>
        BY <3>4 DEF GoesOn, Kept
      <4>4. \A x \in Workers : (Busy(x)' <=> Busy(x)) /\ (Busy(x) => job'[x].url = job[x].url)
        BY <2>1, <4>1, <4>2, <4>3, OthersKept DEF Busy
      <4>5. QED
        BY <2>1, <4>3, <4>4, NotSeen
    <3>5. QED
      BY <2>1, <2>7, <3>1, <3>2, <3>3, <3>4, StepIs
  <2>8. CASE UNCHANGED vars
    BY <2>8 DEF vars, Pool!poolVars, poolStage, poolAlone, poolLeft, poolHeld, Unclaimed, Busy
  <2>9. QED
    BY <2>2, <2>3, <2>4, <2>5, <2>6, <2>7, <2>8 DEF Next, Main
<1>3. QED
  BY <1>1, <1>2, Invariance, PTL DEF Spec, PoolSpec, Pool!PoolSpec
=============================================================================
