-------------------------------- MODULE Page --------------------------------
(***************************************************************************)
(* The islands of one page.  A form and the search panel are drawn apart   *)
(* and share what the browser has one of: the focus.  Beyond it they have  *)
(* nothing in common, nor has the depth toggle with either, so `lens` says *)
(* what a behaviour is about: a form, under a search that opens and closes *)
(* over it; the search, over a form that nobody sends; or the toggle.      *)
(***************************************************************************)
EXTENDS Naturals, FiniteSets, TLC

CONSTANTS Pages, Replies, Texts, MaxSends,
          Nodes, Folded, Queries, Limit, NearLimit, Modes,
          Tabs, Lenses

VARIABLES
  lens,
  page, state, kind, message, text, near, flights, queue, sends, failures, cancels, \* QueueForms
  mode, open, query, index, cursor, opener, address, pending, sent, went,           \* SearchPanel
  focus,                                                                           \* both
  preference, url, depth, asked, adopted                                         \* ReadingDepth

F == INSTANCE QueueForms
S == INSTANCE SearchPanel
R == INSTANCE ReadingDepth WITH stored <- preference, None <- "none", Mangled <- "mangled"

ASSUME PageAssumption == F!QueueFormsAssumption /\ S!SearchPanelAssumption /\ R!ReadingDepthAssumption

\* Where focus can be outside the panel: the form's, the header's, some link's.
Outside == {"body", "trigger", "elsewhere"} \cup F!Focusable(state) \cup F!Suggested

ofForm == <<page, state, kind, message, text, near, flights, queue, sends, failures, cancels>>
ofPanel == <<mode, open, query, index, cursor, opener, address, pending, sent, went>>
ofToggle == <<preference, url, depth, asked, adopted>>
all == <<lens, ofForm, ofPanel, focus, ofToggle>>

Init ==
  /\ lens \in Lenses /\ F!Init /\ S!Init /\ R!Init
  /\ lens = "form" => mode = "overlay"
  /\ lens = "search" => page.form = "review"
  /\ lens = "depth" => page.form = "review" /\ mode = "overlay"

-----------------------------------------------------------------------------

\* The reader goes somewhere: not through the backdrop, but by Tab once outside.
Reachable == ~open \/ focus \notin S!InPanel
Wander ==
  /\ Reachable /\ focus' \in {"trigger", "elsewhere"}
  /\ UNCHANGED <<ofForm, ofPanel>>

Form ==
  /\ went = "none" /\ mode = "overlay"
  /\ \/ F!Mount
     \/ Reachable /\ \E c \in F!Controls(state) \cup F!Suggested : F!Focus(c)
     \/ lens = "form" /\ (F!Press \/ F!Network \/ \E t \in Texts : F!Type(t))
  /\ UNCHANGED ofPanel

Panel ==
  /\ IF lens = "form" THEN S!openPanel \/ S!Close(Outside) \/ S!Tab \/ S!Click ELSE S!Next(Outside)
  /\ UNCHANGED ofForm

Toggle == R!Next /\ UNCHANGED <<ofForm, ofPanel, focus>>

Next == /\ \/ lens # "depth" /\ (Form \/ Panel \/ Wander) /\ UNCHANGED ofToggle
           \/ lens = "depth" /\ Toggle
        /\ UNCHANGED lens

\* Fetches settle while the page is there for them: the server has a deadline
\* and the connection an end.
Settles(n) ==
  /\ lens = "form" /\ \E f \in flights : f.n = n /\ (F!Answers(f) \/ F!Lost(f))
  /\ UNCHANGED <<lens, ofPanel, ofToggle>>

Spec == Init /\ [][Next]_all

FairSpec == Spec /\ \A n \in 1..MaxSends : WF_all(Settles(n))

-----------------------------------------------------------------------------

AnswersTellTheQueue == F!AnswersTellTheQueue
MarkedIsThere == S!MarkedIsThere
AddressIsTheQuestion == S!AddressIsTheQuestion
NearestAnswerMost == S!NearestAnswerMost
AddressReopens == R!AddressReopens
PreferenceFollows == R!PreferenceFollows

\* The reader is never left waiting, whatever else is open: every send comes to
\* a word about it.
EverySendEnds == state = "sending" ~> state # "sending"

\* "A keyboard user is silently returned to the top of the document": whatever
\* answers come under an open search, and whatever is opened over a send, focus
\* falls to the body only when the reader cancels a form, or closes a search
\* whose opener is no longer there to have it back.
FocusNeverDropped ==
  [][focus # "body" /\ focus' = "body" =>
       \/ focus = "cancel" /\ state' = "idle"
       \/ open /\ ~open' /\ (mode = "page" \/ opener = "body" \/ opener \notin Outside)]_all

=============================================================================
