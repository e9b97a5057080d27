----------------------------- MODULE LinkReports -----------------------------
(***************************************************************************)
(* What the two link checkers compute without waiting for anybody: the     *)
(* policy they share (web/scripts/fetch-pool.mjs), the structural checks,  *)
(* and the exit codes made of the verdicts (check-citations.mjs,           *)
(* check-explainers.mjs).  Urls, refs and robots.txt are what the code     *)
(* asks of them; a verdict is what kind of answer its url got.             *)
(***************************************************************************)
EXTENDS Naturals, Sequences, FiniteSets, SequencesExt

CONSTANTS
  Url,    \* Url[u]: [host, https, video, names], host and video None if it has none;
          \* names: what it contains of arXiv ids, and of "arxiv.org"
  Ref,    \* Ref[r]: [form, id, dated] of a citation's ref
  Robots, \* Robots[h]: the lines of its robots.txt, [field, agent, seconds]
  EXPLAINER_HOSTS, \* EXPLAINER_HOSTS[kind]: the hosts allowed for it
  None

hostOf(u) == Url[u].host
Hosts == DOMAIN Robots

\* A host without a robots.txt is one with no lines in it.
ASSUME LinkReportsAssumption ==
  /\ \A u \in DOMAIN Url : hostOf(u) \in Hosts \cup {None}
  /\ \A h \in Hosts : Robots[h] \in Seq(ToSet(Robots[h])) /\ \A i \in DOMAIN Robots[h] : Robots[h][i].seconds \in Nat
  /\ \A kind \in DOMAIN EXPLAINER_HOSTS : EXPLAINER_HOSTS[kind] \subseteq Hosts \ {None}

\* The urls of a corpus, each once; and some of them in the order they come.
urlsOf(es) == {es[i].url : i \in DOMAIN es}
firstOf(es, u) == CHOOSE i \in DOMAIN es : es[i].url = u /\ \A j \in 1..i - 1 : es[j].url # u
Place(es, us, u) == Cardinality({v \in us : firstOf(es, v) <= firstOf(es, u)})
inOrder(es, us) == [k \in 1..Cardinality(us) |-> CHOOSE u \in us : Place(es, us, u) = k]

-----------------------------------------------------------------------------
\* fetch-pool.mjs.

\* The agents whose group line i is in: those that no directive closed and a
\* further agent opened again in between.
Agents(robots, i) ==
  {robots[j].agent : j \in {j \in 1..i - 1 :
     /\ robots[j].field = "user-agent"
     /\ \A k \in j + 1..i - 1 : robots[k].field = "user-agent" => robots[k - 1].field = "user-agent"}}

\* The Crawl-delay of the `*` group, 0 for none: the first delay that reads.
starGroupDelay(robots) ==
  LET stated == {i \in DOMAIN robots : /\ robots[i].field = "crawl-delay" /\ robots[i].seconds > 0
                                       /\ "*" \in Agents(robots, i)}
  IN  IF stated = {} THEN 0 ELSE robots[Min(stated)].seconds

\* Retry-After in either of its forms, {} for none or one that does not read; a
\* date is how far off it is, which may be behind us.
retryAfterSeconds(header) ==
  CASE header.form = "seconds" -> {header.n}
    [] header.form = "date" -> {IF header.n < 0 THEN 0 ELSE header.n}
    [] OTHER -> {}

\* --fast leaves out the hosts that stated a delay.
checkingOf(urls, delays, fast) == {u \in urls : ~fast \/ delays[hostOf(u)] = 0}

-----------------------------------------------------------------------------
\* The structural checks: the entries there is something to say about.

explainerProblems(es) ==
  LET Unusable(e) == \/ ~Url[e.url].https
                     \/ hostOf(e.url) \notin EXPLAINER_HOSTS[e.kind]
                     \/ e.scope \notin {"concept", "domain"}
      seen(e) == SelectSeq(es, LAMBDA x : x.url = e.url /\ ~Unusable(x))[1]
  IN  {e \in ToSet(es) :
         \/ Unusable(e)
         \/ e.kind = "video" /\ Url[e.url].video = None
         \/ e.title # seen(e).title \/ e.author # seen(e).author}

citationProblems(cs) ==
  {i \in DOMAIN cs :
     LET c == cs[i]  r == Ref[c.ref] IN
     \/ ~Url[c.url].https
     \/ r.form = "arXiv" /\ (~r.dated \/ r.id \notin Url[c.url].names)
     \/ r.form = "other" /\ "arxiv.org" \in Url[c.url].names
     \/ \E j \in 1..(i - 1) : /\ cs[j].ref = c.ref /\ cs[j].url # c.url
                              /\ \A k \in j + 1..i - 1 : cs[k].ref # c.ref}

structuralProblems(run) ==
  IF run.checker = "explainers" THEN explainerProblems(run.corpus) ELSE citationProblems(run.corpus)

-----------------------------------------------------------------------------
\* Verdicts: "ok"; "real", the page answered and is not what was recorded;
\* "torn", it answered and its body did not arrive; and those that say nothing
\* of the page, "throttled", "unverifiable" and "silent" (status 0).

Verdicts == {"ok", "real", "torn", "throttled", "unverifiable", "silent"}

Of(results, v) == {u \in DOMAIN results : results[u] = v}
Failed(results) == {u \in DOMAIN results : results[u] # "ok"}

everyFailureWasSilent(results) == Failed(results) # {} /\ Failed(results) = Of(results, "silent")

\* Every url of the host that failed got no response.
unreachableHosts(results) ==
  LET failed == Failed(results) IN
  {hostOf(u) : u \in failed} \ {hostOf(u) : u \in failed \ Of(results, "silent")}

sortFailures(results) ==
  [blocked |-> Of(results, "silent"), throttled |-> Of(results, "throttled"),
   unverifiable |-> Of(results, "unverifiable"), real |-> Of(results, "real") \cup Of(results, "torn")]

\* (Mutation: what nothing could check does not keep the run from passing.)
explainersExitLenient(results) ==
  LET f == sortFailures(results) IN
  IF unreachableHosts(results) # {} /\ everyFailureWasSilent(results) THEN 2
  ELSE IF f.real # {} THEN 1
  ELSE IF f.throttled # {} THEN 2
  ELSE 0

\* A dead page outranks an incomplete run, unless nothing answered at all.
explainersExit(results) ==
  LET f == sortFailures(results) IN
  IF unreachableHosts(results) # {} /\ everyFailureWasSilent(results) THEN 2
  ELSE IF f.real # {} THEN 1
  ELSE IF f.throttled # {} \/ f.unverifiable # {} THEN 2
  ELSE 0

\* check-citations has no group for the silent: what is not throttled is gone.
citationsExit(results, problems) ==
  IF everyFailureWasSilent(results) THEN 2
  ELSE IF problems # {} \/ Failed(results) \ Of(results, "throttled") # {} THEN 1
  ELSE IF Of(results, "throttled") # {} THEN 2
  ELSE 0
=============================================================================
