------------------------------- MODULE Deploy -------------------------------
(***************************************************************************)
(* A merge to main, as the deploy workflow carries it out: publish the     *)
(* graph to Firestore (cmd/publish, Sync), ship the API, ship the site,    *)
(* check the search index.  One run at a time; a newer merge replaces the  *)
(* one that waits.  Every step may fail, Sync's writes land in any order,  *)
(* and nothing is rolled back: a later run has to put it right.            *)
(***************************************************************************)
EXTENDS Naturals, FiniteSets

CONSTANTS
  Ids,         \* concept ids
  Commits,     \* bound: the merges are 1..Commits
  GraphOf,     \* GraphOf[v]: the ids commit v derives; {} if publish refuses it
  MaxFailures  \* bound: failures of steps and writes in all

ASSUME DeployAssumption ==
  /\ Commits \in Nat /\ MaxFailures \in Nat
  /\ GraphOf \in [1..Commits -> SUBSET Ids]

VARIABLES
  head,      \* the newest merge
  queued,    \* the commit of the run that waits, 0 if none
  commit,    \* the commit of the run in progress, 0 if none
  step,      \* the step it is at
  pending,   \* the writes of its Sync that have not been attempted
  broken,    \* one of them failed
  doc,       \* doc[c]: the commit whose concept document is stored, 0 if none
  hood,      \* hood[c]: the same for its neighborhood document
  stats,     \* the same for the counters document
  api,       \* the commit Cloud Run serves
  site,      \* the commit whose pages Hosting serves
  index,     \* the commit whose search index Hosting serves
  failures,  \* bound
  published, \* history: the last commit whose Sync reported success
  red        \* history: the last run failed

store == <<doc, hood, stats>>
served == <<api, site, index>>
vars == <<head, queued, commit, step, pending, broken, store, served, failures, published, red>>

Versions == 0..Commits
Steps == {"idle", "list", "write", "api", "site", "check"}

Writes == [at : {"doc", "hood"}, id : Ids, to : Versions]
            \cup [at : {"stats"}, to : Versions]

TypeOK ==
  /\ head \in Versions /\ queued \in Versions /\ commit \in Versions
  /\ step \in Steps /\ (step = "idle" <=> commit = 0)
  /\ pending \subseteq Writes /\ (pending # {} => step = "write")
  /\ broken \in BOOLEAN
  /\ doc \in [Ids -> Versions] /\ hood \in [Ids -> Versions] /\ stats \in Versions
  /\ api \in Versions /\ site \in Versions /\ index \in Versions
  /\ failures \in 0..MaxFailures
  /\ published \in Versions /\ red \in BOOLEAN

Init ==
  /\ head = 0 /\ queued = 0 /\ commit = 0 /\ step = "idle"
  /\ pending = {} /\ broken = FALSE
  /\ doc = [c \in Ids |-> 0] /\ hood = [c \in Ids |-> 0] /\ stats = 0
  /\ api = 0 /\ site = 0 /\ index = 0
  /\ failures = 0 /\ published = 0 /\ red = FALSE

-----------------------------------------------------------------------------
\* The concurrency group: one run in progress, one waiting.

\* A push to main.
Merge ==
  /\ head < Commits
  /\ head' = head + 1
  /\ queued' = head + 1
  /\ UNCHANGED <<commit, step, pending, broken, store, served, failures, published, red>>

\* workflow_dispatch, the documented answer to a failed run.
Rerun ==
  /\ red /\ step = "idle" /\ queued = 0
  /\ queued' = head
  /\ UNCHANGED <<head, commit, step, pending, broken, store, served, failures, published, red>>

Start ==
  /\ step = "idle" /\ queued # 0
  /\ commit' = queued /\ queued' = 0
  /\ step' = "list"
  /\ UNCHANGED <<head, pending, broken, store, served, failures, published, red>>

\* The run ends, its leftover writes with it.
End(failed) ==
  /\ commit' = 0 /\ step' = "idle"
  /\ pending' = {} /\ broken' = FALSE
  /\ red' = failed

\* Any step fails, or the runner dies under it.
Fails ==
  /\ step # "idle"
  /\ failures < MaxFailures
  /\ failures' = failures + 1
  /\ End(TRUE)
  /\ UNCHANGED <<head, queued, store, served, published>>

-----------------------------------------------------------------------------
\* cmd/publish.

\* (Mutation: a query over the documents that exist.)
existingDocumentsOnly == {c \in Ids : doc[c] # 0}

\* A document, or the parent of a leftover neighborhood.
existingConceptIDs == {c \in Ids : doc[c] # 0 \/ hood[c] # 0}

\* Set both documents of every concept and the counters; delete both of every
\* concept that is there and not in git.
WritesOf(v) ==
  {[at |-> a, id |-> c, to |-> v] : a \in {"doc", "hood"}, c \in GraphOf[v]}
    \cup {[at |-> a, id |-> c, to |-> 0] : a \in {"doc", "hood"},
                                           c \in existingConceptIDs \ GraphOf[v]}
    \cup {[at |-> "stats", to |-> v]}

\* Load, Derive and the listing come before any write; content that does not
\* derive, or no content at all, ends the run here.
List ==
  /\ step = "list"
  /\ IF GraphOf[commit] = {}
     THEN End(TRUE)
     ELSE /\ pending' = WritesOf(commit)
          /\ step' = "write"
          /\ UNCHANGED <<commit, broken, red>>
  /\ UNCHANGED <<head, queued, store, served, failures, published>>

Applied(w) ==
  CASE w.at = "doc"   -> doc' = [doc EXCEPT ![w.id] = w.to] /\ UNCHANGED <<hood, stats>>
    [] w.at = "hood"  -> hood' = [hood EXCEPT ![w.id] = w.to] /\ UNCHANGED <<doc, stats>>
    [] w.at = "stats" -> stats' = w.to /\ UNCHANGED <<doc, hood>>

\* The BulkWriter sends its writes in no particular order.
Write(w) ==
  /\ w \in pending
  /\ Applied(w)
  /\ pending' = pending \ {w}
  /\ UNCHANGED <<head, queued, commit, step, broken, served, failures, published, red>>

\* One of them fails, for good or only for all the client can tell.
WriteFails(w) ==
  /\ w \in pending
  /\ failures < MaxFailures
  /\ failures' = failures + 1
  /\ Applied(w) \/ UNCHANGED store
  /\ pending' = pending \ {w}
  /\ broken' = TRUE
  /\ UNCHANGED <<head, queued, commit, step, served, published, red>>

\* (Mutation: End flushes, and nobody asks the jobs for their results.)
FlushUnchecked ==
  /\ step = "write" /\ pending = {}
  /\ step' = "api" /\ published' = commit /\ broken' = FALSE
  /\ UNCHANGED <<head, queued, commit, pending, store, served, failures, red>>

\* Every job is asked for its result; one failure fails the publish.
Flush ==
  /\ step = "write" /\ pending = {}
  /\ IF broken
     THEN End(TRUE) /\ UNCHANGED published
     ELSE step' = "api" /\ published' = commit /\ UNCHANGED <<commit, pending, broken, red>>
  /\ UNCHANGED <<head, queued, store, served, failures>>

-----------------------------------------------------------------------------
\* The rest of the workflow.

\* (Mutation: a failing deploy of the API does not stop the job.)
ShipApiSoft ==
  /\ step = "api"
  /\ api' \in {api, commit}
  /\ step' = "site"
  /\ UNCHANGED <<head, queued, commit, pending, broken, store, site, index, failures, published, red>>

ShipApi ==
  /\ step = "api"
  /\ api' = commit
  /\ step' = "site"
  /\ UNCHANGED <<head, queued, commit, pending, broken, store, site, index, failures, published, red>>

\* The build derives the graph again and renders pages and index together; a
\* deploy that goes half wrong leaves the old index in front of the new pages.
ShipSite ==
  /\ step = "site"
  /\ site' = commit
  /\ \/ index' = commit /\ UNCHANGED failures
     \/ failures < MaxFailures /\ failures' = failures + 1 /\ UNCHANGED index
  /\ step' = "check"
  /\ UNCHANGED <<head, queued, commit, pending, broken, store, api, published, red>>

Entries(v) == IF v = 0 THEN 0 ELSE Cardinality(GraphOf[v])

\* (Mutation: the check only warns.)
CheckWarns ==
  /\ step = "check"
  /\ End(FALSE)
  /\ UNCHANGED <<head, queued, store, served, failures, published>>

\* The check counts: node files in the commit against entries in the index.
Check ==
  /\ step = "check"
  /\ End(Entries(index) # Entries(commit))
  /\ UNCHANGED <<head, queued, store, served, failures, published>>

Run == List \/ (\E w \in pending : Write(w)) \/ Flush \/ ShipApi \/ ShipSite \/ Check

Next == Merge \/ Rerun \/ Start \/ Fails \/ Run \/ \E w \in pending : WriteFails(w)

Spec == Init /\ [][Next]_vars

\* Runners run what is queued to its end, and a failed run is run again, as the
\* workflow's own comment asks.
FairSpec == Spec /\ WF_vars(Start) /\ WF_vars(Run) /\ WF_vars(Rerun)

-----------------------------------------------------------------------------
\* The store holds exactly the graph of v: nothing missing, nothing older, and
\* no orphan left over.
StoreIs(v) ==
  /\ \A c \in Ids : doc[c] = (IF c \in GraphOf[v] THEN v ELSE 0) /\ hood[c] = doc[c]
  /\ stats = v

\* When the publish step of a run is over, the store is exactly its commit's
\* graph, whatever earlier runs left half done.
PublishedExactly == step \in {"api", "site", "check"} => StoreIs(commit)

\* Pages are never ahead of the graph: what the site shows was published first,
\* and the API that answers its pages is at least as new.
SiteNeverAhead == site <= api /\ api <= published

\* A green run leaves no skew between what is stored, what answers and what is
\* shown, and no index of another size.
GreenMeansConverged ==
  step = "idle" /\ ~red /\ site # 0 =>
    site = api /\ StoreIs(site) /\ Entries(index) = Entries(site)

\* Every step is idempotent, so re-running is the fix: once merges and failures
\* stop, the newest commit is what is served, if it derives at all.
Converges ==
  <>[](head # 0 /\ GraphOf[head] # {} => StoreIs(head) /\ site = head /\ api = head)

Release == INSTANCE ReleaseOrder

\* Whatever fails and is run again, nothing goes back: the store moves to newer
\* commits, the API to the commit that is stored, the site to the one the API
\* serves, in that order.
ReleaseSpec == Release!ReleaseSpec
=============================================================================
