# A verification of The Infinity

TLA+ models of the concept atlas in this repository: the Go API, the islands of
the Astro site, the build of the site, the publish and deploy pipeline, and the
scripts that check links and look for videos; the abstract specifications five
of them implement; the TLC runs that check them; and TLAPS proofs of every safety
property the passing runs check.  Every definition was translated from the
source and `PROJECT.json` ("map") names the lines.  Names follow the source: an
action is called after the function it stands for.

Operators commented `(Mutation: ...)` are plausible bugs.  Each is used in place
of the definition it follows to see that a property notices; no specification
uses them.

## 1. Inventory

| component | source | state | operations | hard behaviours | module |
|---|---|---|---|---|---|
| Public write path | `trails`, `queues`, `apihttp/middleware.go`, `store/firestore.go` | Firestore: daily counters, trails, two queues, concepts | POST /trails, /requests, /reviews | instances racing on one counter, transaction retries, a deadline or a lost instance between reservation and write, midnight, a publish under a request | `WritePath`, `WriteLedger` |
| Per-caller limiting | `ratelimit/limiter.go`, `middleware.go` | LRU list, map, token buckets | `ClientIP`, `Allow`, `RetryAfter` | counting hops from the right, eviction at the limit, rounding | `ClientIP`, `PerIP` |
| Read path and caches | `apihttp/cache.go`, `concepts`, `trails`, `firestore.go` | store, edge, browser | GET, `markMissing` | ages that add up, an answer overtaken by a publish, a failed batch | `EdgeCache` |
| The reader's trail | `lib/trail.ts`, `TrailRibbon`, `SharedTrail` | localStorage shared by tabs, sessionStorage per tab, the island of a shared trail | `visit`, `recordDepth`, `dropStops`, `replace`, share, load, retry, walk | tabs interleaving, hydration order, back-forward cache, a deploy during a share or under a shared page, one retry | `TrailClient`, `TrailContract` |
| Reading depth | `lib/depth.ts`, `DepthToggle` | address, localStorage, component state | `resolve`, effects, choices | effect order, precedence, tabs | `ReadingDepth` |
| Queue and review forms | `lib/submit.ts`, `ReviewActions`, `RequestForm`, `RequestConcept` | component state, requests out, focus | press, cancel, retry, send, answer | late and lost answers, double sends, a control that goes while it has focus | `QueueForms` |
| Search | `SearchPanel.tsx`, `lib/search.ts` | component state, index, address, focus | open, type, highlight, Enter, trap, clear | late index, stale highlight, effects in the wrong order, an opener that goes | `SearchPanel` |
| Graph derivation and content check | `publish/derive.go`, `load.go`, `lib/graph.ts`, `validate-content.mjs` | none (pure) | validate, derive, check | two implementations of one function and a third program that judges their input, order of files | `Derivation`, `GraphContract` |
| Static site | `pages`, `layout.ts`, `directory.ts`, `siteindex.ts`, `content.ts` | what was committed, whether the build went through | build | addresses that collide, indexes that disagree with pages, a stale layout | `SiteBuild` |
| Mini-map | `derive.go`, `graph.ts`, `MiniMap.tsx` | none (pure) | layout, `hitRadius` | rounding and coincidence | `MiniMap` |
| Publish and deploy | `publish/sync.go`, `cmd/publish`, `deploy.yml` | Firestore, Cloud Run, Hosting | Sync, deploy steps, re-run | unordered writes, a death between any two steps, three systems that cannot change together | `Deploy`, `ReleaseOrder` |
| Link checkers | `fetch-pool.mjs`, `check-citations.mjs`, `check-explainers.mjs` | queues, workers, delays, verdicts | robots.txt, `pool`, `politeFetch`, verifiers, exit codes | shared index across awaits, retries under one deadline, mixed failures | `LinkReports`, `FetchPool`, `PoolContract` |
| Video finder | `find-video-explainers.mjs` | quota, checkpoint file, dismissals | search, dismiss, verify | refusals that cost, a crash inside a write, targets done, barren, dismissed or named | `VideoFinder` |
| Server | `cmd/server`, `router.go`, `middleware.go` | process | start, drain, recover | shutdown order, a panic after the answer began | not modelled |
| Analytics export | `internal/analytics`, `cmd/analytics` | files written, pages read | drain logs, reconstruct walks | quota waits, paging | not modelled |
| Suggestions, queue reader | `internal/suggest`, `internal/inbox`, `cmd/queues` | none | score, read, print | none | not modelled |
| Visualisations | `components/viz` | slider state | pure arithmetic | none that a test does not reach | not modelled |
| Content, schema, prose | `content`, `docs` | none | data | none | not modelled |
| Smoke and performance probes, infrastructure scripts, in-memory store | `scripts`, `infra`, `store/fake.go` | none | drive or test the system | outside it | not modelled |

How they interact: CI runs the content check on what is to be merged; a merge runs
*Publish and deploy*, which runs *Graph derivation* twice, once in Go for
Firestore and once in TypeScript for the *static site*.  The *read path* serves what was
published through two caches; the *mini-map* draws it.  The *reader's trail*
lives in the browser, records depths that *Reading depth* resolved, and is posted
to the *write path*, which checks its stops against the published concepts and
may name the missing ones, upon which the trail is repaired.  The *forms* post to
the same path; *search* reads the index that the site build wrote, and shares the
browser's focus with the forms.  *Per-caller limiting* stands in front of both
API paths.  The *link checkers* run in CI; the *video finder* is run by a person,
who puts what it finds into the content.

What makes each correct is stated as properties in its module (section 3);
`PROJECT.json` lists under "hazards" what can go wrong, at its line, with the
properties that would catch it.

## 2. Which module composes which

* Five modules implement an abstract specification of what they promise, a
  refinement that is checked on the run's instance and proved for all:
  `WritePath` implements `WriteLedger`, `TrailClient` implements `TrailContract`,
  `Derivation` implements `GraphContract`, `Deploy` implements `ReleaseOrder` and
  `FetchPool` implements `PoolContract`.  The mapping stands at the end of each.
* `PerIP` takes its key from `ClientIP`.
* `SiteBuild` extends `Derivation`: a behaviour derives the graph and then builds.
* `FetchPool` extends `LinkReports`, the pure half of the two checkers.
* `Page` instantiates `QueueForms`, `SearchPanel` and `ReadingDepth`.  Forms and
  panel share `focus` and every interleaving of the two is explored; the toggle
  has nothing in common with either, so `lens` chooses what a behaviour is about
  and no product of independent state is built.
* `TrailClient` keeps all that tabs share, and `EdgeCache`, `Deploy`, `MiniMap`,
  `VideoFinder` stand alone: what they exchange with others is a small input
  (concepts that vanish, versions, commits).

The modules `MC...` hold the instances TLC checks, the modules `...Proofs` extend
a component with its inductive invariant, lemmas and theorems.  No module declares
a RECURSIVE operator, so each of them can be proved about.

## 3. Modules, runs and what they show

| run | root module | states (about) | asks |
|---|---|---|---|
| `WritePath` | `MCWritePath` | 300 thousand | is the budget held, the trail settled, the ledger implemented, every request answered |
| `RateLimit` | `PerIP` | 1.3 million | is the key the caller, and the law kept under eviction |
| `Trail` | `MCTrailClient` | 920 thousand | is the walk one list, which survives tabs, deploys and shared walks |
| `Page` | `MCPage` | 104 thousand | are answers true, is focus kept, is the search consistent, the depth as adopted |
| `Derivation` | `MCSiteBuild` | 36 thousand | do three programs judge a graph alike, do two derive the one the contract says, is a built site whole |
| `Deploy` | `MCDeploy` | 31 thousand | do three systems converge on the newest commit |
| `EdgeCache` | `MCEdgeCache` | 2 million | how stale can an answer be |
| `FetchPool` | `MCFetchPool` | 157 thousand | is each url claimed and answered once, are hosts asked politely and verdicts honest |
| `VideoFinder` | `MCVideoFinder` | 218 thousand | is the quota spent once and every target reached |
| `MiniMapCrowded`, `ReadingDepthLanding`, `FastCitations` | | | findings, expected to be violated |

Bounds are named in each module's CONSTANTS.  Deadlock checking is off where the
system may come to rest: requests answered, caches idle, the clock or the merges
at their bound, a check or a build that has ended, forms that may send no more.

### WritePath, MCWritePath (run `WritePath`)

A process is one POST on some instance; instances keep nothing between requests,
so Firestore and the request's own locals are all the state there is.  The
actions are the calls a handler makes between which others may come: `Arrive`
(decode and validate, pure), `ReadDay` (the clock of `Reserve`), `TxGet`,
`TxCommit` and `TxRetry` (Firestore's optimistic transaction; the commit fails if
the counter changed), `Denied`, then `GetTrail`, `GetStops`, `SetTrail` for a
trail, `GetConcept` and `Add` for a review, `Add` for a request.  A call may fail
with or without having taken effect, an instance may go, a publish may change a
concept and midnight may pass.  `slots` and `wrote` are history.

Three posts, two days, one slot a day, one publish, any failure.  A day is never
overspent whoever races (`BudgetHeld`), a calendar day holds at most two budgets
of documents (a request may reserve before midnight and be dated after it), a
trail nobody is creating any more never changes (`SettledTrailStable`), the path
implements `WriteLedger` (`LedgerSpec`), every request ends (`EveryRequestEnds`),
and `IInv`, the inductive invariant of the proofs, holds: a document has a slot
of its own, a 429 is only given when the day is spent, a slug handed out resolves.
Three posts are the least for a third to come between two; one slot makes every
second reservation a refusal.  Fairness is weak fairness of a request's own steps:
Cloud Run keeps giving an accepted request CPU, and every call has a deadline.  A
transaction can only be retried because another one committed, and there are
finitely many, so no more is needed.

Two things a reader should know.  Two posts of the same walk may both find no
trail, and the second `Set` then rewrites the first one's `created_at`: the model
allows it, and what holds is `SettledTrailStable`, weaker than "written once"
in `cache.go`.  And a post refused by the store for a missing stop or concept
has already spent its slot.

### ClientIP, PerIP (run `RateLimit`)

`ClientIP` is the choice of a key from a header: `Arrivals(c)` are all the chains
a request of caller `c` can bring through Hosting, whatever it wrote there itself,
and `Pick` is the function.  Each proxy appends the peer it heard from, the last of
them perhaps after a stray comma (`Proxied`).  `PerIP` is `Allow` under that key, one action because
it holds the mutex: `Hit` and `Miss`, with `Kept` the eviction loop.  A tick is a
third of a token, two ticks a second; three callers share a table of two, so
evictions occur all the time, and eight instants are enough to spend a burst,
earn two tokens back and be evicted in between.  A caller gets at most its burst
and what time earned while it stays in the table, whatever it writes in its
header (`CallerLaw`); nobody spends another's token (`NobodyElsePays`); recency
decides eviction (`RecencyHolds`); and waiting `RetryAfter` is enough.  An evicted
caller comes back with a full bucket: the law is per stay.  Requests sent straight
to the service URL with a header of their own are left out, the source calls that
key weak; so is an empty entry after the last proxy.

### EdgeCache, MCEdgeCache (run `EdgeCache`)

One concept, one trail that stops at it, two readers, the edge and a browser
each.  `Fresh` has the lifetimes of `cache.go`, in the unit of the model (edge
longer than browser, trail longer than concept); a publish, a deletion or a failed
`markMissing` may come between any two steps.  No time passes during a request:
requests end within ten seconds and the shortest lifetime is a minute.  A reader
is never shown a version older than one lifetime of the edge, an answer that was
overtaken on its way included; and a trail's marks are at most a lifetime old or
due to a batch that failed within it.  Time and versions up to three allow an
entry to be made, to expire and to be replaced twice.  Marks are computed per
read and cached with the trail, so a cached trail may disagree with an uncached
read for an hour; `MarksAtMostOneLifetime` is what holds.

### TrailClient, MCTrailClient (run `Trail`)

Tabs of one browser share one stored walk.  A read-modify-write of `trail.ts` is
two steps, its read (`Visit`, `RecordDepth`, `Repair`) and `Finish`, its write.
Browsers differ on whether two tabs of one origin may run between them: a session
says whether they are `locking`.  A page is kept for the Back button or loaded
anew; the ribbon and the depth toggle hydrate in either order; `Share` posts the
walk, `Repair` drops the stops the API named and sends the rest once.  The page of
a shared walk is an island of its own: it loads (`TrailArrives`, with marks that
may be older than the last deploy, since the answer may be a cached one), is
missing, or unreachable and retried, and once ready may be walked, also by a
reader whose page has been open since before a concept went.  What a repair leaves
(`Without`) is stated by rank, the k-th stop kept; `WithoutAssumption` has TLC compare
it with the filter of the code on every small trail.  A walk is cut to its last
`MaxStops` stops when it is adopted, as `replace` does.

A page left for the Back button keeps what its ribbon said: back on it the reader
finds the error, or "Sharing…" on a button that takes no press when the walk was
shipped and the browser then left for it.

Four sessions bound the run, with room for two stops.  One opens three concepts,
shares and adopts what it shared, while a deploy takes one of them out; one does so
with the only concept it opens, in a browser that keeps pages for the Back button
(with more, kept pages and shares multiply past what TLC can explore); one opens
three concepts in a browser that does not lock, and may adopt the walk of somebody
else; one changes depths.
Landing on an adopted walk writes nothing (`LandingKeepsOrder`); the last stop is on
record at the depth on screen whatever the order of hydration (`DepthOnRecord`).  A
stop leaves the trail only because its concept is gone, because a walk is adopted,
or as the oldest of a full trail, for a stop that was not in it
(`NothingForgotten`).  Without the lock the property is about the trail as the tab
that writes had read it: the later of two writes also loses what the earlier one
added since, and nothing that stood in both.

`TrailContract` is the walk as the reader sees it (`TrailSpec`): one list that
changes as if in one step, by the stop a tab shows when it writes (`Record`, which
gives the stop being read its depth where it stands and brings any other to the
end), by a `Repair` that takes out dead stops and leaves the rest in order, or by
the shared trail on a tab's screen (`Adopt`).  A `Record` or a `Repair` starts from
the trail its tab has read, which under the lock is the trail as it stands, so that
each is one change of one list; without it a stop may be lost that came in between,
and no other.  The contract has no jobs or markers: `Finish` is the step.  That a page
left behind cannot relabel another stop (`StaleIslandHarmless`) follows.

### QueueForms, SearchPanel, ReadingDepth, composed in Page (run `Page`)

`QueueForms`: three forms over one machine of presses (`Press`), posts and answers.
A press renders and runs its effects before anything else, `Serve` is the API
taking or refusing an entry, `Answers` and `Lost` are what comes back, to whatever
is on screen then.  "Queued" is said only of an entry of that kind that is in the
queue, and an entry is in it twice only if the reader was told of a failure or
cancelled (`AnswersTellTheQueue`); every send comes to a word about it
(`EverySendEnds`, under the fairness that a fetch settles).  Two sends are enough
for one to be out while another is answered.

`SearchPanel`: matching as `search.ts` does it (where each term lands, the sum,
the order, in which an entry's place is the number of those before it), and the
panel in its two modes.  What is highlighted exists
(`MarkedIsThere`).  On /search the address asks what the box asks, and the box what
the page was reached with (`AddressIsTheQuestion`): arriving is two steps, the
effects of the first render (`Arrive`: the question is read, then the address is
written from a box that is still empty) and the render that reading asked for
(`Asked`); a reload between the two finds the address empty.  A question nothing answers whole is offered what
answers most of it first (`NearestAnswerMost`).  The index has three concepts, one
for each place a term can land in; questions have one and three terms, or blanks.

Together: whatever answers come under an open search, and whatever is opened over
a send, focus falls to the body only when the reader cancels a form, or closes a
search whose opener is no longer there (`FocusNeverDropped`).

`ReadingDepth`: `Mount` is the whole arrival of a concept page: render at the
default, resolve before paint, the effect that remembers, its skipped first run.
The effects are one step with their cause because React runs them in the same
task for an update made in a layout effect or a click.  An address reopens what
it showed (`AddressReopens`) and a plain link opens at the depth adopted last, in
whichever tab (`PreferenceFollows`): chosen there, or named by a link and not the
default, which as a parameter holds for one page only.  The state space is finite without bounds.

### Derivation, SiteBuild, MCSiteBuild (run `Derivation`)

The authored edges are a set, with those a file lists twice in one group
(`repeated`), and each side resolves them one at a time: by file, a file's
`requires` before its `adjacent`, and the targets of one kind in whatever order the
file lists them (`Earliest`); a repeated one is met twice (`again`).  `resolve` pushes the row and its inverse,
`Finish` sorts every group (`Sorted`, the k-th target by its rank) and looks for a
pair related twice.  Go runs first; the two share nothing.

Every authored graph of three concepts with up to three edges, dangling, self and
repeated edges included, is derived by both.  The content check (`claims` finds
pairs related twice) passes exactly what the Go publish accepts, but for repeated
edges, which it refuses and both derivations drop unseen; and on what it passes
both derive alike (`ValidatedDerivesAlike`).  Each side implements `GraphContract`
(`ContractSpec`): it decides once, by the edges alone and not by the order it met
them in, and holds each edge from both of its ends.  That what is served is one
graph seen from every side, its mini-maps included (`ServedGraphIsOne`), follows.
Three edges suffice for every pair of relations between two concepts plus a third;
rows only interact within a pair.

`SiteBuild` goes on from there: the pages of concepts and of domains, the
committed lemniscate (checked before, read again in the build), the sitemap and
the indexes, over every naming of the domains of three concepts from five names
chosen for how they fold (a plural, separators, no letter at all), and every small
layout, of which a lobe or the chips may be missing.  A built site has each page once, lists every page but the tools, shows
each concept under one domain and dates no page before what it shows; and what
passed the content check builds, but for three things only the build looks at:
names without an address of their own, a part of the lemniscate that is not there,
and the label of a bead (`SiteIsWhole`).

### MiniMap (run `MiniMapCrowded`)

The layout as arithmetic over the number of neighbours of each kind, up to five.

### Deploy, MCDeploy (run `Deploy`)

`List`, `Write` and `Flush` are `Sync` (listing, unordered BulkWriter writes, the
results); `ShipApi`, `ShipSite` and `Check` the rest of `deploy.yml`; `Merge`,
`Rerun`, `Start` and `End` the concurrency group.  Any step may fail and any write
may fail with or without effect.  Four merges: a concept, another in its place,
content that does not derive, both.  After a publish the store is exactly its
commit's graph; a green run leaves no skew; and
once merges and failures stop, the newest commit is what is served (`Converges`).
Two failures let a second one hit the recovery of the first.  Fairness: runners
run what is queued, and a failed run is run again, as the workflow's comment asks
of whoever sees it red.  `ReleaseOrder` is what is left of all this seen from outside
(`ReleaseSpec`): store, API and site each only move forward, the store to a merged
commit, the API to what is stored, the site to what the API serves, so that the site
is never ahead (`SiteNeverAhead`).  The closing check compares numbers of entries: an index
of the right size for the wrong corpus passes it, and the property says no more.

### LinkReports, FetchPool, MCFetchPool (runs `FetchPool`, `FastCitations`)

`LinkReports` is what the checkers compute without waiting: the Crawl-delay of a
robots.txt (a line is for the agents named in one run before it), the
structural checks, the urls in the order they first come, and the exit made of the
verdicts.  `FetchPool`
is a run from its first line to its exit: robots of each host, pools with their
gaps, HEAD then GET, the Data API and the page behind it for a video, titles, the
retries of `politeFetch` under its caller's deadline.  A tick is five seconds:
waits of 5 and 15 seconds, a deadline of 20, a Crawl-delay of 15.  Twelve runs of
either checker in the three modes, over a host fetched in parallel by two workers
whose robots.txt names a delay for somebody else, a host with a delay for all,
and a video host; every request may be answered, throttled, lost or cut off.  The
pools implement `PoolContract` (`PoolSpec`): a url is claimed once, by a worker of
its host, and gets one verdict, from the worker that claimed it; a host that wants
one request at a time has one; and it is over when every url has its verdict.
Requests, retries, gaps and timers are stutters of it.  `Polite`, that a host is
asked as it wishes and no url is in two hands or fetched again, is proved;
green means every page was seen (`GreenMeansVerified`); the explainers check fails
only over what answered (`OnlyTheGoneAreCondemned`); every run ends (`Ends`).
Fairness: timers fire, and a request ends at its deadline at the latest.

### VideoFinder, MCVideoFinder (run `VideoFinder`)

The three commands of the script.  A run is a loop over the targets that are left,
by `Place` (concepts by file, domains by size): the narrow query and, if it finds
nothing, the wide one (`SearchAnswers`; `Retry` within the attempts, `SearchFails`
after them), the details, the score, and the checkpoint, whose write a crash may
tear (`Save`, `Written`, `Crash`).  Between runs a person dismisses, verifies a
pick, discards a torn checkpoint, or names a target to be searched again.  Three
concepts in two domains, a day that pays for a few searches, one crash, one
judgment.  No run spends more than its budget, and refusals stop it
(`SpendingBounded`); the checkpoint holds one search of each target
(`OneSearchPerTarget`); relevance outweighs reputation, below ten billion views, and
what only the floor removed is written down (`ScoreKeepsItsWord`); a crash costs the target in hand
and no other (`CrashCostsOne`); in the end every target is searched or dismissed
(`EveryTargetSearched`).  Fairness: it is run again every day, a torn checkpoint is
noticed, and a query that is asked for ever is answered in the end (strong
fairness of an answer: refusals come in between).

## 4. Findings

* `MiniMapCrowded`: with five prerequisites and five adjacent concepts the first dot
  of the left column and the first of the row both stand at (40, 22), and since
  `hitRadius` halves the closest gap of all, every target on that map gets a radius
  of zero.  With five unlocked concepts the same happens at (200, 22), to the first
  of the right column and the last of the row: so on the map of `dense-retrieval`,
  which five files of the committed content require and five others call adjacent.
* `ReadingDepthLanding`: the landing page's Intuition link carries no parameter,
  so it opens at the stored preference of a reader who has one.
* `FastCitations`: with `--fast`, when every host is left out, the citations check
  exits 0 over structural problems it has just printed.

Divergences met while modelling, which no run is spent on; the models follow the
code in each:

* `submit.ts:101` tells a lost answer as "Nothing was sent", also when the API has
  taken the entry.
* `find-video-explainers.mjs:602` says no untrusted video under 500 views can pass.
  A video whose view count is not known (0, as when no quota is left for the
  details) passes the floor.
* `find-video-explainers.mjs:458` says relevance must outweigh reputation, and :574
  that the prior cannot outweigh relevance.  A trusted half match of ten billion
  views ties with a whole match whose views are unknown (0.2 + 0.3 + 0.1 = 0.6).
* `find-video-explainers.mjs:919` says "returned nothing" keeps meaning both
  queries.  A search that ends with its budget after an empty narrow query records
  an empty outcome that was not widened.
* `check-citations` counts pages without response among the gone when any other
  failure answered; `check-explainers` condemns a page whose body was cut off.
* A retry after a throttle, and the GET after a refused HEAD, do not keep the
  host's Crawl-delay; a robots.txt that does not load drops it.  `PoolSpec` and
  `Polite` are about requests at one time and gaps between urls.
* `search.ts:162` calls the weight of a matched term larger than any reachable
  total of the others.  A question of 250 terms reaches it; `SearchPanelAssumption`
  keeps questions shorter.
* `directory.ts:123` says "Multi-modal" and "Multimodal" share an address; their
  slugs differ.  Names such as "A&B" and "A-B" pass the content check and are
  refused by the build, as is a bead without a label, or a lemniscate without one of
  its lobes or its chips (`validate-content.mjs:329` and `:350` take it for empty,
  `layout.ts:59-66` throws).
* `validate-content.mjs:141` says of a target named twice that "the two derivations
  also reject it".  Listed twice in one group they do not: `derive.go:106-118` and
  `graph.ts:185-189` drop the second, and only the content check refuses it.
* `depth.ts:89-91` says a linked depth is adopted, "so the next concept follows it
  too".  A link with `?depth=intuition` is not: with `engineer` stored it shows
  intuition, the effect that remembers does not run (the render before was at the
  default), and the next plain link opens at engineer.
* Only the Go side refuses a concept adjacent to itself; the content check keeps
  it from the TypeScript side.
* `SearchPanel.tsx:133` counts the results among the stops of its trap though Tab
  does not reach them; a failed index is not fetched again; an answer that comes
  under an open search replaces its opener, and closing then leaves focus on the
  body.

## 5. What is proved

Eight modules prove 55 listed theorems, all of them for every value of the
constants their component's assumption admits: of the 40 properties that the
passing runs check, all but the five that are liveness properties.  Each module has
the same layout: an inductive invariant (`IInv`, `SiteIInv`), a conjunction of
named parts; lemmas about the operators of the model; a lemma per part or per action
that a step keeps it; `Invariance`, `Spec => []IInv`; and a theorem for each
property.  A refinement has a lemma for each action that the abstract specification
sees, one for the steps it does not see, and a theorem `...Implements`.  TLC checked
each invariant on the run's instance before it was proved, and the write path's run
still does.

Assumptions are those the modules name: counts and times are naturals, bounds are
not zero where the code needs one, sets that are folded over or counted are finite,
absent values (`None`) are none of the values.  TLC evaluates all of them.

### WritePathProofs

For every finite set of posts, all concepts, walks, caps, days and deploys
(`WritePathAssumption`), and for `None` not being a document (`NoneIsNoDoc`):
`TypeCorrect`, `Funded`, `Budget`, `TwoBudgets`, `HonestAnswers`; the action
property `TrailSettles`; and `Refinement`, `Spec => LedgerSpec`, with slots for
grants and documents for stores.

None of the properties is inductive.  `BudgetHeld`, for one, needs to know that
the counter is the number of requests holding a slot, which needs to know that a
committing transaction still sees the count it read and that a request which has
not committed holds no slot: where a request stands tells what it holds.  That is
`IInv`: `TypeOK`; `SlotInv` (counter and slots, by program counter); `WroteInv` (a
document is written by the last step of a request that holds a slot of its
day); `AnswerInv` (an answer is true when given and stays true); `KindInv` (a body
only reaches the calls of its kind); `DateInv` (a date is the reservation's day
or the next).

### PerIPProofs

For any number of callers, table size, hops, burst and rate, and whatever is forged
in front of the header.  `CallersGetTheirRate` (`CallerLaw`) rests on `LawInv`:
what a caller was served, in ticks, plus the level of its bucket is at most a full
bucket plus the time since it came, and every term of that moves together in a
refill, a spend and a new entry.  `RecencyIsKept` is proved from `ListInv` (list
and map hold the same callers, each once); the eviction loop, which drops from the
back until the table fits, drops at most the oldest.  `WaitingIsEnough` needs `WaitInv`: a
denied bucket has filled ever since, or is full.  No bucket is spent from by
somebody else (`NobodyPays`), for which the key of a request must be its caller:
`KeyIsCaller`, a lemma about `ClientIP` for chains of any length.  No bucket ever
holds more than its burst (`TypeCorrect`).

### PublishProofs

First the derivation and the site (`SiteInvariance`), for any number of concepts,
any set of authored edges, any naming of the domains and any lemniscate.  `SideInv`
says that what a side has pushed is what the edges it has resolved say: during the
loop the rows hold their targets each once, afterwards those targets sorted.  No
property is inductive without it, since a row says nothing of which edges are still
to come.  Then a verdict is a matter of the edges: `ResolvedRows` (an edge puts on
the rows what it says of its two ends, and no more), `SortedTargets` (sorted, the
targets are the same, each at its rank) and `CheckedRows` (no entry is found twice
exactly when no two of a concept's rows share one) reduce what the Go loop finds to
a statement about edges, and `CheckedMeansSound` shows that the content check, which
keeps a first claim per pair of concepts, finds the same: `DerivedAlike`.
`AcceptedMeansSound` and `RowsAreRelations` do it for the contract:
`DerivationImplements`, and `OneGraph` for what is served.  `BuildInv` says that a
build ended as it had to, built only if it could be and failed only if it could not;
with an address each, a domain's page shows the concepts of that domain
(`Headings`, `ShownPages`): `WholeSite`.

Then the workflow, for any number of merges, any graphs and failures:
`PublishIsExact`, `SiteFollows`, `GreenConverges`, `TypeCorrect` and
`DeployImplements`.  `IInv` adds `OrderInv` (what is served, published, queued and
merged stand in that order), `WritingInv` (each pending write is one the commit wants
and, none having failed, whatever is not yet as wanted is still pending) and
`StageInv` (what a finished step leaves true).  `PublishedExactly` alone is not
inductive: during the writes the store is neither the old commit nor the new
one, and only `WritingInv` says that the last write completes it.  `ReleaseSpec`
needs `OrderInv`, for a publish never to go back, and `StageInv`, for what a run
ships to be what is stored, though other runs were started and failed meanwhile.

### EdgeCacheProofs

For any lifetimes with the edge's no shorter than the browser's, any readers,
versions and time: `ConceptsInTime`, `MarksInTime`, `TypeCorrect`.  `IInv` follows an answer on
its way: what the store says now (`CacheInv`), what each cache holds was true when
it was made, what is on its way is made just now (`WayInv`), what is shown is that
(`ShownInv`).  The history of versions only grows (`HistoryGrows`), so what was
true within a lifetime remains so.

### TrailClientProofs

For any tabs, concepts, depths, sessions and bounds (`TrailClientAssumption`):
`TypeCorrect`, `DepthIsOnRecord`, the action properties `LandingWritesNothing`,
`NothingIsForgotten`, `StaleIslandsAreHarmless`, and `TrailImplements`.  `JobInv` is the heart: in a
browser that locks storage one write is out at a time and the store it read is still
the store, so what it writes is the store with the page at its end, or without dead
stops.  `AuthorInv` adds that the page last put on record ends the trail at
the depth it shows, unless a depth is on its way; `LandInv` that a tab landing on an
adopted walk carries the marker of the very page it loads.  Lemmas say what
`append` and `Without` keep of a trail.  Without the lock `JobInv` still says that
what a tab writes is made from the trail it had read, of which the contract keeps
track.  For the contract they say it entirely:
`WithoutThins` (what a filter leaves is at increasing places, and every other place
is one it was to take out; from `Ranks`, on the ranks of a set of numbers),
`AppendRecords` (in its place, at the end, or at the end of a full trail without its
oldest stop) and `CapsEnd`.  A write is then one step of the contract because of
`JobInv`.

### PageProofs

About the three instances in `Page`, and their shared focus, for any pages, texts,
index, tabs and bounds.  `PreferenceIsFollowed` and `AddressKeepsDepth` from
`ToggleInv`: storage is what the reader adopted last.  `WordsAreTrue` from
`FormInv`: each send is one fetch and at most one entry, a fetch without reply has
left nothing, and sends are at most failures shown, cancels and the one under way.
`HighlightIsThere`, `AddressIsKept` from `PanelInv`, in which `SentInv` says that what
the page was reached with is asked, or about to be; `NearestIsOffered` from what
`search.ts` computes, where the matched terms dominate the total for questions of
fewer than 250 terms; `FocusIsKept` from `FormInv` and `PanelInv` together, the
property that belongs to neither.

### FetchPoolProofs

For any corpus, hosts, robots.txt files, workers, waits and answers: `TypeCorrect`,
`PoolIsPolite`, `GreenIsEarned`, `NobodyIsCondemned`, `PoolImplements`.  `QueueInv` (a queue holds the
urls of its host, each once, and together they hold all that is to be checked),
`HandInv` (a url in hand or with a verdict has been taken, and no two hands hold
one), `PhaseInv` (delays stand before anything is taken) give politeness;
`VerdictInv` (a good verdict is what the page is) gives the exit codes.  That green
means all were checked needs the three together: nothing is left in a queue, nobody
holds a job, so everything that was put into a queue has its verdict.
`PoolImplements` rests on the same three: what no worker has taken is what stands
past the index of its host's queue, and taking the next of a queue takes nothing else
out of what is left, because a url stands in one queue and once (`UnclaimedNotTaken`).
Requests, throttles, retries and time are not seen (`NotSeen`).

### VideoFinderProofs

For any corpus of titles of one to 500 words, answers, handles, quota and
bounds (`VideoFinderAssumption`, `CorpusAssumption`): `SpendingIsBounded`,
`OneSearch`, `RelevanceOutweighs` and the action property `CrashIsCheap`.
`SpendInv` counts at most two searches for each refusal in a row, by program
counter, since the wide query follows the narrow one.  `FileInv` says when the
checkpoint in memory is the one on disk, and that they differ in the target in hand
while it is being saved; without it neither the disk after a crash nor what
rescoring reads can be told.  `Told`, of a checkpoint, is
`OneSearchPerTarget` whether or not it is torn.  `RelevanceOutweighs` is
arithmetic: a whole match is worth 600 thousandths, a half at most 300, reputation at
most 200, views at most 100, and a share of so few words is two thousandths at
least if it is anything, so that rounding hides no match; clamping keeps what the
threshold tells apart.

### What is only model-checked

* Liveness: `EveryRequestEnds`, `Converges`, `Ends`, `EverySendEnds`,
  `EveryTargetSearched`.  Liveness under fairness, and ENABLED, are outside what the
  proof system does.
* What the constants of an instance compute: `WithoutAssumption`, that the filter by
  ranks is the filter of the code, is about a recursion over lists, and TLC compares
  the two on every small list.
* The findings of section 4 are counterexamples, for which one instance is enough.

## 6. What is not modelled, and why

Bodies, titles, formatting, headers other than those a property is about,
logging and tracing; the stemmer and the ranking of suggestions (scores of
strings); rendering, notation and curves; visualisations (arithmetic with unit
tests); scripts that drive a browser or a cloud console; the in-memory store (a
test double: the models follow Firestore).  The server's drain, the analytics
export and the mini-map's fetch are within reach and not modelled yet.

## 7. Plan

In reach of the proof system and not done: an abstract cache that `EdgeCache`
implements, and an abstract search that `VideoFinder` does.  Then to model: the
server's drain on SIGTERM against requests in flight, with `Recoverer`, and the
drain of the analytics log with its waits.
