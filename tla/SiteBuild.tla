------------------------------ MODULE SiteBuild ------------------------------
(***************************************************************************)
(* The static site, built from the graph the TypeScript side derived: a    *)
(* page for each concept and for each domain, the landing page with its    *)
(* committed lemniscate, and the indexes that machines read (sitemap,      *)
(* llms.txt, the search index).  A page that throws fails the whole build. *)
(* A name is what two functions make of it: the key under which the        *)
(* content check takes spellings for one, and its segment of an address.   *)
(***************************************************************************)
EXTENDS Derivation, FiniteSetsExt

CONSTANTS
  Inputs, \* what is committed beside the edges: [domain, tier, updated, layout], see below
  Key,    \* Key[name]: lower case, without separators and one plural
  slugFor \* slugFor[name]: lower case, a dash for every run of anything else

\* domain[c]: <<top, sub>>.  layout: of the parts left, right and chips those that
\* are there, a lobe a sequence of [id, t, label].  edges: a bound on the edges tried with this input.
ASSUME SiteBuildAssumption ==
  \A i \in Inputs : /\ i.domain \in [Concepts -> (DOMAIN Key) \X (DOMAIN Key)]
                    /\ i.tier \in [Concepts -> {"verified", "frontier"}]
                    /\ i.updated \in [Concepts -> Nat] /\ i.edges \in Nat

VARIABLES
  input,
  built \* "open", "built" or "failed"

building == <<input, built>>

domain == input.domain
layout == input.layout
lobes == {<<"left", "verified">>, <<"right", "frontier">>}
parts == {"left", "right", "chips"}

\* layout[part] ?? []
part(name) == IF name \in DOMAIN layout THEN layout[name] ELSE <<>>

-----------------------------------------------------------------------------
\* What the content check says of all that.

\* The concepts whose segment is spelt in another way elsewhere on its level.
spellings(level) ==
  {c \in Concepts : \E d \in Concepts : /\ Key[domain[c][level]] = Key[domain[d][level]]
                                        /\ domain[c][level] # domain[d][level]}

Fraction(t) == t = "fraction"
Labelled(bead) == bead.label \in {"yes", "no"}

\* validateLayout: beads on the lobe of their tier, and chips.
staleLobes ==
  {b \in lobes :
     LET lobe == part(b[1]) IN
     \/ ~IsInjective([i \in DOMAIN lobe |-> lobe[i].id])
     \/ \E i \in DOMAIN lobe : \/ lobe[i].id \notin Concepts \/ ~Fraction(lobe[i].t)
                               \/ input.tier[lobe[i].id] # b[2]}

validateLayout == staleLobes = {} /\ IsInjective(part("chips")) /\ ToSet(part("chips")) \subseteq Concepts

Passed == Validated /\ spellings(1) = {} /\ spellings(2) = {} /\ validateLayout

-----------------------------------------------------------------------------
\* The pages.

\* By the first level, then by the second.
Section(c) == [name |-> domain[c][2], entries |-> {d \in Concepts : domain[d] = domain[c]}]

Heading(top) ==
  LET sections == {Section(c) : c \in {d \in Concepts : domain[d][1] = top}} IN
  [name |-> top, sections |-> sections, count |-> Cardinality(UNION {s.entries : s \in sections})]

directory == {Heading(domain[c][1]) : c \in Concepts}

\* (Mutation: two domains may claim one address.)
refusesAddressLoose(g) == slugFor[g.name] = ""

\* domainRoutes throws: no address, or one that is taken.
refusesAddress(g) ==
  slugFor[g.name] = "" \/ \E h \in directory \ {g} : slugFor[h.name] = slugFor[g.name]

DomainPath(g) == [route |-> "concepts", of |-> slugFor[g.name]]
ConceptPath(c) == [route |-> "c", of |-> c]
FixedPath(name) == [route |-> name]

\* readLayout and placeLayout: all parts, of a shape, and ids that exist; the tier
\* and a name given twice are not their business.
placesLayout ==
  /\ parts \subseteq DOMAIN layout
  /\ \A b \in lobes : \A i \in DOMAIN part(b[1]) :
       LET bead == part(b[1])[i] IN bead.id \in Concepts /\ Fraction(bead.t) /\ Labelled(bead)
  /\ ToSet(part("chips")) \subseteq Concepts

\* The concepts a page shows.
Shown(page) ==
  {c \in Concepts : \/ page = ConceptPath(c) \/ page.route \in {"/", "/concepts"}
                    \/ \E g \in directory : DomainPath(g) = page /\ domain[c][1] = g.name}

Pages == {FixedPath(r) : r \in {"/", "/concepts", "/search", "/request", "/t", "/404"}}
           \cup {DomainPath(g) : g \in directory} \cup {ConceptPath(c) : c \in Concepts}

-----------------------------------------------------------------------------
\* The indexes: siteindex.ts, from the same nodes.

newestOf == Max({input.updated[c] : c \in Concepts})

indexedConcepts == {[path |-> ConceptPath(c), lastmod |-> input.updated[c], listed |-> {c}] : c \in Concepts}
indexedRoutes == {[path |-> FixedPath(r), lastmod |-> newestOf, listed |-> {}] : r \in {"/", "/concepts"}}
indexedDomains ==
  {[path |-> DomainPath(g), lastmod |-> newestOf, listed |-> UNION {s.entries : s \in g.sections}] : g \in directory}

sitemapPages == indexedRoutes \cup indexedDomains \cup indexedConcepts

-----------------------------------------------------------------------------
SiteInit ==
  /\ input \in Inputs /\ DeriveInit(input.edges) /\ built = "open"

\* astro build, once the graph is derived.
Build ==
  /\ verdict["ts"] # "open" /\ built = "open"
  /\ built' = IF verdict["ts"] = "ok" /\ placesLayout /\ \A g \in directory : ~refusesAddress(g)
              THEN "built" ELSE "failed"
  /\ UNCHANGED <<derivation, input>>

SiteNext == Build \/ (Derive /\ UNCHANGED building)

SiteSpec == SiteInit /\ [][SiteNext]_<<derivation, building>>

-----------------------------------------------------------------------------
\* "It cannot list a concept that does not exist nor miss one that does", and
\* "one of the two domains would quietly vanish from the site": in a site that
\* was built every index entry is a page of its own that shows what the entry
\* lists, every page but the tools is listed, each concept is under one domain,
\* whose page shows as many as the directory counts, and no page is dated before
\* something it shows.  What passed the content check is built, but for what only
\* the build looks at: names without an address of their own, a part of the
\* lemniscate that is not there at all, and a bead's label.
SiteIsWhole ==
  /\ built = "built" =>
       /\ \A p, q \in sitemapPages : p.path = q.path => p = q
       /\ {p.path : p \in sitemapPages} = Pages \ {FixedPath(r) : r \in {"/search", "/request", "/t", "/404"}}
       /\ \A p \in sitemapPages : /\ p.listed \subseteq Shown(p.path) /\ Shown(p.path) # {}
                                  /\ \A c \in Shown(p.path) : input.updated[c] <= p.lastmod
       /\ \A c \in Concepts : Cardinality({g \in directory : c \in Shown(DomainPath(g))}) = 1
       /\ \A g \in directory : g.count = Cardinality(Shown(DomainPath(g)))
  /\ built = "failed" /\ Passed =>
       \/ \E g \in directory : refusesAddress(g)
       \/ ~(parts \subseteq DOMAIN layout)
       \/ \E b \in lobes : \E i \in DOMAIN part(b[1]) : ~Labelled(part(b[1])[i])
=============================================================================
