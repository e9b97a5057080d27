------------------------------ MODULE FetchPool ------------------------------
(***************************************************************************)
(* A run of a link checker: what is wrong on paper, what each host's       *)
(* robots.txt asks for, a pool of workers per host or one with a gap for a *)
(* host that states a Crawl-delay, politeFetch's retries under the         *)
(* deadline its caller made, the verifiers of a citation, a page and a     *)
(* video, and the exit.                                                    *)
(***************************************************************************)
EXTENDS LinkReports, Integers

CONSTANTS
  Runs,      \* the runs: [checker, mode, key, corpus]
  Page,      \* Page[u]: "right", or "wrong" or "gone"
  NoEmbed,   \* the videos whose owner forbids embedding
  NoHead,    \* the urls that refuse HEAD
  PerHost,
  Attempts,
  Backoff,   \* Backoff[i]: the wait after attempt i when the host states none
  Cap,       \* the longest wait for a retry
  Deadline,  \* AbortSignal.timeout, made once for all the attempts
  Headers    \* the Retry-After headers a throttling host may send

ASSUME FetchPoolAssumption ==
  /\ PerHost \in Nat \ {0} /\ Attempts \in Nat \ {0} /\ Cap \in Nat /\ Deadline \in Nat
  /\ Backoff \in [1..Attempts - 1 -> Nat]
  /\ Page \in [DOMAIN Url -> {"right", "wrong", "gone"}]
  /\ \A h \in Headers : /\ h.form \in {"none", "seconds", "date"} /\ h.n \in Int
                        /\ h.form = "seconds" => h.n \in Nat
  /\ \A run \in Runs : /\ run.checker \in {"citations", "explainers"}
                       /\ run.mode \in {"full", "fast", "offline"}
                       /\ run.corpus \in Seq(ToSet(run.corpus)) /\ urlsOf(run.corpus) \subseteq DOMAIN Url
                       /\ run.checker = "citations" => \A u \in urlsOf(run.corpus) : hostOf(u) # None
                       /\ run.checker = "explainers" => \A e \in ToSet(run.corpus) : e.kind \in DOMAIN EXPLAINER_HOSTS

VARIABLES
  run,      \* which one this is
  phase,    \* "start", "robots", "pool", "exited"
  delays,   \* delays[h]: the delay h was heard to state, Unheard before it answered
  queue,    \* queue[h]: the urls of host h, in order
  next,     \* next[h]: how many of them have been taken
  job,      \* job[w]: what worker w is doing
  results,  \* url -> the verdict on it
  exit

vars == <<run, phase, delays, queue, next, job, results, exit>>

Lesser(a, b) == IF a < b THEN a ELSE b

Unheard == -1
Workers == Hosts \X (1..PerHost)

urls == urlsOf(run.corpus)
Asked == {hostOf(u) : u \in urls}
problems == structuralProblems(run)
checking == checkingOf(urls, delays, run.mode = "fast")
EntryOf(u) == run.corpus[firstOf(run.corpus, u)]

\* One worker for a host with a delay, PerHost for any other.
Works(w) == phase = "pool" /\ (delays[w[1]] = 0 \/ w[2] = 1)

Free == [at |-> "free"]
Busy(w) == job[w].at \in {"fetch", "sleep"}

Asks == {"HEAD", "GET", "oembed", "api"}
Gaps == [at : {"gap"}, left : Nat]
Fetches == [at : {"fetch"}, url : urls, what : Asks, try : 1..Attempts, age : 0..Deadline]
Sleeps == [at : {"sleep"}, url : urls, what : Asks, try : 1..Attempts - 1, age : 0..Deadline, left : 0..Cap]

TypeOK ==
  /\ run \in Runs /\ phase \in {"start", "robots", "pool", "exited"} /\ exit \in 0..2
  /\ delays \in [Hosts -> Nat \cup {Unheard}]
  /\ queue \in [Hosts -> Seq(urls)] /\ next \in [Hosts -> Nat] /\ \A h \in Hosts : next[h] <= Len(queue[h])
  /\ job \in [Workers -> {Free} \cup Gaps \cup Fetches \cup Sleeps]
  /\ DOMAIN results \subseteq urls /\ \A u \in DOMAIN results : results[u] \in Verdicts

Init ==
  /\ run \in Runs /\ phase = "start" /\ exit = 0
  /\ delays = [h \in Hosts |-> Unheard]
  /\ queue = [h \in Hosts |-> <<>>] /\ next = [h \in Hosts |-> 0]
  /\ job = [w \in Workers |-> Free] /\ results = <<>>

-----------------------------------------------------------------------------

Exit(code) == phase' = "exited" /\ exit' = code

\* Explainers with a problem are not asked about; citations are, unless offline.
Start ==
  /\ phase = "start"
  /\ CASE run.checker = "explainers" /\ problems # {} -> Exit(1)
       [] run.checker = "explainers" /\ problems = {} /\ (run.corpus = <<>> \/ run.mode = "offline") -> Exit(0)
       [] run.checker = "citations" /\ run.mode = "offline" -> Exit(IF problems # {} THEN 1 ELSE 0)
       [] OTHER -> phase' = "robots" /\ UNCHANGED exit
  /\ UNCHANGED <<run, delays, queue, next, job, results>>

\* Every host at once; one without a robots.txt, or that does not answer, has
\* stated nothing.
crawlDelays(h) ==
  /\ phase = "robots" /\ h \in Asked /\ delays[h] = Unheard
  /\ delays' = [delays EXCEPT ![h] = 0] \/ delays' = [delays EXCEPT ![h] = starGroupDelay(Robots[h])]
  /\ UNCHANGED <<run, phase, queue, next, job, results, exit>>

\* With nothing left to ask about, that is all.
Begin ==
  /\ phase = "robots" /\ \A h \in Asked : delays[h] # Unheard
  /\ IF checking = {} THEN Exit(0) ELSE phase' = "pool" /\ UNCHANGED exit
  /\ queue' = [h \in Hosts |-> inOrder(run.corpus, {u \in checking : hostOf(u) = h})]
  /\ UNCHANGED <<run, delays, next, job, results>>

-----------------------------------------------------------------------------
\* pool and politeFetch.

\* The first request an entry takes: a citation's is a HEAD.
FirstAsk(u) == CASE run.checker = "citations" -> "HEAD"
                 [] run.checker = "explainers" /\ EntryOf(u).kind = "video" -> "oembed"
                 [] OTHER -> "GET"

Asking(u, what) == [at |-> "fetch", url |-> u, what |-> what, try |-> 1, age |-> 0]

\* (Mutation: the index moves on only once the url has been verified.)
TakeLate(w) ==
  LET h == w[1] IN
  /\ Works(w) /\ job[w] = Free /\ next[h] < Len(queue[h])
  /\ next' = IF \E x \in Workers \ {w} : x[1] = h /\ Busy(x) THEN [next EXCEPT ![h] = @ + 1] ELSE next
  /\ job' = [job EXCEPT ![w] = Asking(queue[h][next[h] + 1], FirstAsk(queue[h][next[h] + 1]))]
  /\ UNCHANGED <<run, phase, delays, queue, results, exit>>

\* A worker takes the next url of its host; the signal starts with the first try.
Take(w) ==
  LET h == w[1] IN
  /\ Works(w) /\ job[w] = Free /\ next[h] < Len(queue[h])
  /\ next' = [next EXCEPT ![h] = @ + 1]
  /\ job' = [job EXCEPT ![w] = Asking(queue[h][next[h] + 1], FirstAsk(queue[h][next[h] + 1]))]
  /\ UNCHANGED <<run, phase, delays, queue, results, exit>>

\* The gap of a delayed host comes between its urls, not after the last one.
Settle(w, verdict) ==
  LET h == w[1] IN
  /\ results' = [u \in DOMAIN results \cup {job[w].url} |-> IF u = job[w].url THEN verdict ELSE results[u]]
  /\ job' = [job EXCEPT ![w] = IF delays[h] > 0 /\ next[h] < Len(queue[h])
                               THEN [at |-> "gap", left |-> delays[h]] ELSE Free]

\* A further request for the same url, under a signal of its own.
AskFurther(w, what) == job' = [job EXCEPT ![w] = Asking(@.url, what)] /\ UNCHANGED results

SleepFor(w, d) ==
  /\ job' = [job EXCEPT ![w] = [at |-> "sleep", url |-> @.url, what |-> @.what, try |-> @.try,
                                age |-> @.age, left |-> Lesser(d, Cap)]]
  /\ UNCHANGED results

Waiting(w) == job[w].at = "fetch" /\ job[w].age < Deadline
Kept == UNCHANGED <<run, phase, delays, queue, next, exit>>

\* (Mutation: a 429 that survives the retries counts as the page's own answer.)
ThrottledCondemns(w) ==
  /\ Waiting(w) /\ Kept
  /\ IF job[w].try >= Attempts \/ job[w].what = "api"
     THEN Settle(w, "real")
     ELSE \E h \in Headers : \E d \in (IF retryAfterSeconds(h) = {} THEN {Backoff[job[w].try]} ELSE retryAfterSeconds(h)) :
            SleepFor(w, d)

\* 429 or 503: the stated wait or the backoff, up to the cap; the last one
\* stands, and the Data API is asked once.
Throttled(w) ==
  /\ Waiting(w) /\ Kept
  /\ IF job[w].try >= Attempts \/ job[w].what = "api"
     THEN Settle(w, "throttled")
     ELSE \E h \in Headers : \E d \in (IF retryAfterSeconds(h) = {} THEN {Backoff[job[w].try]} ELSE retryAfterSeconds(h)) :
            SleepFor(w, d)

\* (Mutation: the attempts are not counted.)
WakeUncounted(w) ==
  /\ job[w].at = "sleep" /\ job[w].left = 0 /\ Kept
  /\ job' = [job EXCEPT ![w] = Asking(@.url, @.what)] /\ UNCHANGED results

\* The retry, with the signal of the first try: past its deadline fetch rejects
\* without sending anything.
Wake(w) ==
  /\ job[w].at = "sleep" /\ job[w].left = 0 /\ Kept
  /\ IF job[w].age >= Deadline
     THEN Settle(w, "silent")
     ELSE /\ job' = [job EXCEPT ![w] = [at |-> "fetch", url |-> @.url, what |-> @.what,
                                        try |-> @.try + 1, age |-> @.age]]
          /\ UNCHANGED results

GapOver(w) ==
  /\ job[w].at = "gap" /\ job[w].left = 0 /\ Kept
  /\ job' = [job EXCEPT ![w] = Free] /\ UNCHANGED results

-----------------------------------------------------------------------------
\* The verifiers, on what a host answers.

\* No response: refused, unresolved, or the deadline passed while it was awaited.
Silent(w) == job[w].at = "fetch" /\ Kept /\ Settle(w, "silent")

\* A citation need only be there.  A host may refuse HEAD, and then GET too.
resolves(w) ==
  /\ Waiting(w) /\ job[w].what \in {"HEAD", "GET"} /\ run.checker = "citations" /\ Kept
  /\ IF job[w].what = "HEAD" /\ job[w].url \in NoHead THEN AskFurther(w, "GET")
     ELSE \/ Settle(w, IF Page[job[w].url] = "gone" THEN "real" ELSE "ok")
          \/ job[w].what = "GET" /\ Settle(w, "silent")

\* A page has to carry the recorded title, so its body has to arrive as well.
verifyRead(w) ==
  /\ Waiting(w) /\ job[w].what = "GET" /\ run.checker = "explainers" /\ Kept
  /\ \/ Settle(w, IF Page[job[w].url] = "right" THEN "ok" ELSE "real")
     \/ Page[job[w].url] # "gone" /\ Settle(w, "torn")

\* A video has to carry the title and the channel.  401 is the owner refusing
\* embedding: then the Data API is asked, if there is a key.
verifyVideo(w) ==
  LET u == job[w].url IN
  /\ Waiting(w) /\ job[w].what = "oembed" /\ Kept
  /\ IF u \in NoEmbed /\ Page[u] # "gone"
     THEN IF run.key THEN AskFurther(w, "api") ELSE Settle(w, "unverifiable")
     ELSE \/ Settle(w, IF Page[u] = "right" THEN "ok" ELSE "real")
          \/ Page[u] # "gone" /\ Settle(w, "torn")

\* An empty list is the deletion; a refused call says nothing.
verifyVideoByApi(w) ==
  /\ Waiting(w) /\ job[w].what = "api" /\ Kept
  /\ \E v \in {IF Page[job[w].url] = "right" THEN "ok" ELSE "real", "unverifiable"} : Settle(w, v)

-----------------------------------------------------------------------------

Older(j) ==
  CASE j.at = "free"  -> j
    [] j.at = "gap"   -> [j EXCEPT !.left = @ - 1]
    [] j.at = "fetch" -> [j EXCEPT !.age = @ + 1]
    [] j.at = "sleep" -> [j EXCEPT !.left = @ - 1, !.age = Lesser(@ + 1, Deadline)]

\* Time passes for everyone; a timer that is due fires first.
Tick ==
  /\ \E w \in Workers : job[w] # Free
  /\ \A w \in Workers :
       CASE job[w].at \in {"gap", "sleep"} -> job[w].left > 0
         [] job[w].at = "fetch" -> job[w].age < Deadline
         [] job[w].at = "free"  -> Works(w) => next[w[1]] = Len(queue[w[1]])
  /\ job' = [w \in Workers |-> Older(job[w])]
  /\ UNCHANGED <<run, phase, delays, queue, next, results, exit>>

Report ==
  /\ phase = "pool" /\ \A h \in Hosts : ToSet(queue[h]) \subseteq DOMAIN results
  /\ Exit(IF run.checker = "explainers" THEN explainersExit(results) ELSE citationsExit(results, problems))
  /\ UNCHANGED <<run, delays, queue, next, job, results>>

Step(w) == \/ Take(w) \/ Throttled(w) \/ Wake(w) \/ GapOver(w) \/ Silent(w)
           \/ resolves(w) \/ verifyRead(w) \/ verifyVideo(w) \/ verifyVideoByApi(w)

Main == Start \/ Begin \/ Report \/ \E h \in Hosts : crawlDelays(h)

Next == Main \/ Tick \/ \E w \in Workers : Step(w)

Spec == Init /\ [][Next]_vars

\* Timers fire, and every request ends in an answer or at its deadline: some
\* step is taken while there is one.
FairSpec == Spec /\ WF_vars(Next)

-----------------------------------------------------------------------------
Exited(code) == phase = "exited" /\ exit = code

\* "One request at a time, waiting the stated interval", and otherwise no more
\* than the cap; "`next++` never yields, so two workers cannot read the same
\* index": no url is in two hands, nor fetched again once it has a verdict.
Polite ==
  \A w \in Workers : Busy(w) =>
    /\ job[w].url \notin DOMAIN results
    /\ \A x \in Workers \ {w} :
         Busy(x) => job[x].url # job[w].url /\ (x[1] = w[1] => delays[w[1]] = 0)

\* "A check that goes green because it could not look" is ruled out: green means
\* that every page answered and is what the corpus says, as far as this checker
\* can tell, but for what --fast and --offline were asked to leave out.
GreenMeansVerified ==
  Exited(0) =>
    /\ run.mode = "full" => problems = {}
    /\ \A u \in urls :
         \/ u \in DOMAIN results /\ results[u] = "ok"
            /\ Page[u] \in {"right"} \cup (IF run.checker = "citations" THEN {"wrong"} ELSE {})
         \/ run.mode = "offline"
         \/ run.mode = "fast" /\ starGroupDelay(Robots[hostOf(u)]) > 0

\* "NOT a broken link - so do not remove the entries": an explainers run fails
\* (exit 1) only over an entry at fault, or a body that was cut off, never over
\* a host that was silent or said "slow down", nor over a video nobody may check.
OnlyTheGoneAreCondemned ==
  run.checker = "explainers" =>
    /\ \A u \in Of(results, "real") : Page[u] # "right"
    /\ Exited(1) => problems # {} \/ \E u \in DOMAIN results : Page[u] # "right" \/ results[u] = "torn"

\* Every run ends, whatever the hosts do.
Ends == <>(phase = "exited")

\* check-citations.mjs, on what it prints with exit 0: "citation(s) structurally
\* consistent".  (Not with --fast when every host asked for a delay.)
ConsistentWhenItSaysSo == Exited(0) => problems = {}

-----------------------------------------------------------------------------
\* The pool as whoever hands it urls sees it.

Unclaimed == UNION {{queue[h][k] : k \in next[h] + 1..Len(queue[h])} : h \in Hosts}

poolStage ==
  CASE phase = "pool" -> "open"
    [] phase = "exited" -> "done"
    [] OTHER -> "closed"
poolAlone == IF phase \in {"pool", "exited"} THEN {h \in Hosts : delays[h] > 0} ELSE {}
poolLeft == IF phase = "pool" THEN Unclaimed ELSE {}
poolHeld == [w \in Workers |-> IF Busy(w) THEN {job[w].url} ELSE {}]

Pool == INSTANCE PoolContract WITH
  Urls <- DOMAIN Url, Host <- [u \in DOMAIN Url |-> hostOf(u)], stage <- poolStage,
  alone <- poolAlone, left <- poolLeft, held <- poolHeld, verdicts <- results

\* "`next++` never yields, so two workers cannot read the same index": each url
\* is taken once and gets one verdict, from the worker that took it, a host with
\* a delay is asked by one worker at a time, and the report is made when every
\* url has its verdict and not before.
PoolSpec == Pool!PoolSpec
=============================================================================
