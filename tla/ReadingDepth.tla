---------------------------- MODULE ReadingDepth ----------------------------
(***************************************************************************)
(* The depth a concept page is read at: the `?depth=` of its address, the  *)
(* preference in localStorage, and the toggle that keeps the two           *)
(* (web/src/lib/depth.ts, DepthToggle.tsx), in several tabs of one reader. *)
(* The effects of a mount and of a click run before the browser does       *)
(* anything else, so each is one step.                                     *)
(***************************************************************************)

CONSTANTS Tabs, None, Mangled

Depths == {"intuition", "engineer", "math"}
DEFAULT == "intuition"

\* What `?depth=` can hold: a depth, nothing, or what parseDepth turns down.
Params == Depths \cup {None, Mangled}

ReadingDepthAssumption == None \notin Depths /\ Mangled \notin Depths /\ None # Mangled

VARIABLES
  stored,    \* localStorage
  url,       \* url[t]: the parameter in the address bar
  depth,     \* depth[t]: the body on screen, None while no concept is open
  asked,     \* history: the depth the link that opened t's page offered
  adopted    \* history: the last depth the reader chose, or that was named by a link
             \* and is not the default

vars == <<stored, url, depth, asked, adopted>>

TypeOK ==
  /\ stored \in Depths \cup {None}
  /\ url \in [Tabs -> Params] /\ depth \in [Tabs -> Depths \cup {None}]
  /\ asked \in [Tabs -> Depths \cup {None}] /\ adopted \in Depths \cup {None}

Init ==
  /\ stored = None /\ adopted = None
  /\ url = [t \in Tabs |-> None]
  /\ depth = [t \in Tabs |-> None] /\ asked = [t \in Tabs |-> None]

-----------------------------------------------------------------------------

parseDepth(v) == IF v \in Depths THEN v ELSE None

\* The URL, then storage, then the default.
resolve(p, s) ==
  CASE parseDepth(p) # None -> parseDepth(p)
    [] parseDepth(p) = None /\ s # None -> s
    [] OTHER -> DEFAULT

\* searchFor, and hrefFor which is built from it: the default goes unmarked.
searchFor(d) == IF d = DEFAULT THEN None ELSE d

\* (Mutation: what resolution decided is never put in the address bar.)
MountSilent(t, p) ==
  LET d == resolve(p, stored) IN
  /\ depth' = [depth EXCEPT ![t] = d]
  /\ url' = [url EXCEPT ![t] = p]
  /\ stored' = IF d = DEFAULT THEN stored ELSE d

\* (Mutation: a depth that came from a link is not remembered.)
MountForgetful(t, p) ==
  LET d == resolve(p, stored) IN
  /\ depth' = [depth EXCEPT ![t] = d]
  /\ url' = [url EXCEPT ![t] = IF d = DEFAULT THEN p ELSE d]
  /\ UNCHANGED stored

\* A concept page arrives with p.  It renders the default, resolves before
\* paint, and if that changed the depth the effect remembers it and marks the
\* address; the effect's own first run is skipped.
Mount(t, p) ==
  LET d == resolve(p, stored) IN
  /\ depth' = [depth EXCEPT ![t] = d]
  /\ IF d = DEFAULT
     THEN UNCHANGED stored /\ url' = [url EXCEPT ![t] = p]
     ELSE stored' = d /\ url' = [url EXCEPT ![t] = searchFor(d)]

\* A link out of this site's pages, a bookmark, somebody's message.
Open(t, p) ==
  /\ Mount(t, p)
  /\ asked' = [asked EXCEPT ![t] = None]
  /\ adopted' = IF parseDepth(p) \in {None, DEFAULT} THEN adopted ELSE p

\* One of the landing page's three links, each naming the depth it reads at.
OpenAt(t, d) ==
  /\ Mount(t, searchFor(d))
  /\ asked' = [asked EXCEPT ![t] = d]
  /\ adopted' = IF d = DEFAULT THEN adopted ELSE d

Reload(t) ==
  /\ depth[t] # None
  /\ Mount(t, url[t])
  /\ adopted' = IF parseDepth(url[t]) \in {None, DEFAULT} THEN adopted ELSE url[t]
  /\ UNCHANGED asked

\* A click or an arrow key; pressing the selected one changes nothing.
Choose(t, d) ==
  /\ depth[t] \notin {None, d}
  /\ depth' = [depth EXCEPT ![t] = d]
  /\ stored' = d
  /\ url' = [url EXCEPT ![t] = searchFor(d)]
  /\ asked' = [asked EXCEPT ![t] = None]
  /\ adopted' = d

Next ==
  \E t \in Tabs :
    \/ \E p \in Params : Open(t, p)
    \/ \E d \in Depths : OpenAt(t, d) \/ Choose(t, d)
    \/ Reload(t)

Spec == Init /\ [][Next]_vars

-----------------------------------------------------------------------------
\* "replaceState keeps the URL shareable": the address of an open page, sent to
\* a reader with no preference, opens at the depth the sender is looking at.
AddressReopens ==
  \A t \in Tabs : depth[t] # None => resolve(url[t], None) = depth[t]

\* "A reader who wants Engineer wants it on the next page too": a plain link
\* opens at the depth adopted last, in whichever tab that was.  A link that names
\* the default is a one-page override: nothing is remembered of it.
PreferenceFollows ==
  [][\A t \in Tabs : Open(t, None) =>
       depth'[t] = (IF adopted = None THEN DEFAULT ELSE adopted)]_vars

\* The landing page's "read <concept> at Intuition, Engineer, Math": each link
\* opens the depth it names.
LandingLinkHolds ==
  \A t \in Tabs : asked[t] # None => depth[t] = asked[t]
=============================================================================
