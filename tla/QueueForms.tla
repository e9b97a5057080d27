----------------------------- MODULE QueueForms -----------------------------
(***************************************************************************)
(* The three forms that post to a queue (ReviewActions on a concept,       *)
(* RequestForm on /request, RequestConcept on the 404 page), the fetches   *)
(* they have out, and where the reader's focus is while controls come and  *)
(* go under it.  A press renders and runs its effects before anything      *)
(* else; an answer arrives whenever it likes, to whatever is on screen.    *)
(***************************************************************************)
EXTENDS Naturals, FiniteSets

CONSTANTS
  Pages,   \* where the reader may be: [form, context, slug]
  Replies, \* what the API may answer: [status, retryAfter, says]
  Texts,   \* what may be typed, a subset of Text
  MaxSends \* bound

None == "none"
Forms == {"review", "request", "notFound"}
Text == {"", "blank", "short", "words", "seeded"}

QueueFormsAssumption ==
  /\ Texts \subseteq Text /\ MaxSends \in Nat
  /\ \A p \in Pages : p.form \in Forms /\ p.context \in {"concept", "page", "foreign"}

VARIABLES
  page,    \* the page and its form
  state, kind, message, \* the component's state, with what it carries
  text,    \* the box
  near,    \* the 404 page's nearest concepts: asked for, listed, or neither
  focus,   \* the element that has focus
  flights, \* the fetches not yet settled: [n, kind, referrer], and the reply if it is on its way
  queue,  \* the entries of the queue this page sent
  sends, failures, cancels \* history: presses that posted, failures shown, sends cancelled

form == page.form
answered == <<failures, cancels>>
formVars == <<page, state, kind, message, text, near, flights, queue, sends, answered>>
vars == <<formVars, focus>>

-----------------------------------------------------------------------------
\* submit.ts.

\* 202 is the only success there is.
Accepted(reply) == reply.status = 202

\* The API's own words for a 400, when it had any.
messageFor(reply) ==
  CASE reply.status = 429 -> IF reply.retryAfter > 0 THEN "too many, try again in" ELSE "too many, try again shortly"
    [] reply.status = 400 -> IF reply.says # None THEN reply.says ELSE "not accepted"
    [] reply.status = 404 -> "not in the graph"
    [] reply.status = 413 -> "too long"
    [] OTHER -> "could not be sent"

NothingSent == "No connection. Nothing was sent."

-----------------------------------------------------------------------------
\* What is on screen in a state, and where focus is after a render.

Flagging(s) == form = "review" /\ s \in {"flagging", "sending"}

Controls(s) ==
  CASE s \in {"unmounted", "queued"} -> {}
    [] s \notin {"unmounted", "queued"} /\ form = "review" ->
         IF Flagging(s) THEN {"note", "submit", "cancel"} ELSE {"flag", "volunteer"}
    [] OTHER -> {"note", "submit"}

\* The regions that can hold focus: the confirmation, and the alert of the form
\* that goes away when it fails.
Regions(s) == (IF s = "queued" THEN {"status"} ELSE {})
                \cup (IF s = "error" /\ form = "review" THEN {"alert"} ELSE {})

Suggested == IF near = "listed" THEN {"suggestion"} ELSE {}
Focusable(s) == Controls(s) \cup Regions(s)

\* (Mutation: the confirmation is announced and does not take focus.)
RefocusedAnnounced(s) ==
  LET arrived == Regions(s) \ (Regions(state) \cup {"status"}) IN
  focus' = IF arrived # {} THEN CHOOSE r \in arrived : TRUE
           ELSE IF Flagging(s) /\ ~Flagging(state) THEN "note"
           ELSE IF focus \in Focusable(state) \ Focusable(s) THEN "body" ELSE focus

\* A message that arrives takes focus, the note field does when it is mounted,
\* and a control that goes drops it to the body.
Refocused(s) ==
  LET arrived == Regions(s) \ Regions(state) IN
  focus' = IF arrived # {} THEN CHOOSE r \in arrived : TRUE
           ELSE IF Flagging(s) /\ ~Flagging(state) THEN "note"
           ELSE IF focus \in Focusable(state) \ Focusable(s) THEN "body" ELSE focus

Becomes(s, k, m) == state' = s /\ kind' = k /\ message' = m /\ Refocused(s)

-----------------------------------------------------------------------------

\* Only a path of ours is kept; a concept's starts the reader off.
contextFrom(p) == IF p.context = "foreign" THEN None ELSE p.context
seededName(p) == IF contextFrom(p) = "concept" THEN "seeded" ELSE ""

Init ==
  /\ page \in Pages
  /\ state = "unmounted" /\ kind = None /\ message = None /\ text = "" /\ near = None
  /\ focus = "body" /\ flights = {} /\ queue = {}
  /\ sends = 0 /\ failures = 0 /\ cancels = 0

\* Nothing is rendered by the server.  The box is filled once, on arrival; the
\* 404 page asks what is nearest, if the path could be a concept's.
Mount ==
  /\ state = "unmounted" /\ Becomes("idle", None, None)
  /\ text' = CASE form = "request" -> seededName(page)
               [] form = "notFound" /\ page.slug # None -> "words"
               [] OTHER -> ""
  /\ near' = IF form = "notFound" /\ page.slug # None THEN "asked" ELSE None
  /\ UNCHANGED <<page, flights, queue, sends, answered>>

\* 404 with a list of them, or anything else, which costs nothing.
NearestAnswers ==
  /\ near = "asked" /\ near' \in {"listed", None}
  /\ UNCHANGED <<page, state, kind, message, text, focus, flights, queue, sends, answered>>

\* The reader goes to a control, by key or by pointer.
Focus(c) ==
  /\ c \in Controls(state) \cup Suggested /\ focus' = c
  /\ UNCHANGED formVars

Type(t) ==
  /\ focus = "note" /\ text' = t
  /\ UNCHANGED <<page, state, kind, message, near, focus, flights, queue, sends, answered>>

Referrer == CASE form = "review" -> None
              [] form = "request" -> IF contextFrom(page) # None THEN contextFrom(page) ELSE "/request"
              [] OTHER -> "the missing path"

Post(k) ==
  /\ sends < MaxSends /\ sends' = sends + 1
  /\ flights' = flights \cup {[n |-> sends', kind |-> k, referrer |-> Referrer, reply |-> {}]}
  /\ Becomes("sending", None, None)
  /\ UNCHANGED <<page, text, near, queue, answered>>

Ignored == UNCHANGED vars

\* (Mutation: nothing stops a second press.)
sendAgain(k) == IF k = "flag" /\ text \in {"", "blank"} THEN Ignored ELSE Post(k)

\* ReviewActions' send: nothing while one is out, no flag without a note.
send(k) ==
  IF state = "sending" \/ (k = "flag" /\ text \in {"", "blank"}) THEN Ignored ELSE Post(k)

\* The request forms' submit: a name of two characters, or a word about it.
submit ==
  IF state = "sending" THEN Ignored
  ELSE IF text \in {"", "blank", "short"}
  THEN /\ Becomes("error", None, "give it a name first")
       /\ UNCHANGED <<page, text, near, flights, queue, sends, answered>>
  ELSE Post("request")

\* The browser itself holds back a form whose required box is empty.  Enter in
\* the note of a review is a new line.
Submitting == /\ focus = "submit" \/ (focus = "note" /\ form # "review")
              /\ text # ""

Press ==
  \/ Submitting /\ form = "review" /\ send("flag")
  \/ Submitting /\ form # "review" /\ submit
  \/ focus = "volunteer" /\ send("volunteer")
  \/ /\ focus = "flag" /\ Becomes("flagging", None, None)
     /\ UNCHANGED <<page, text, near, flights, queue, sends, answered>>
  \/ /\ focus = "cancel" /\ Becomes("idle", None, None)
     /\ cancels' = IF state = "sending" THEN cancels + 1 ELSE cancels
     /\ UNCHANGED <<page, text, near, flights, queue, sends, failures>>

-----------------------------------------------------------------------------
\* The network.

\* The API takes an entry or turns it down.
Serve(f, r) ==
  /\ f.reply = {}
  /\ flights' = (flights \ {f}) \cup {[f EXCEPT !.reply = {r}]}
  /\ queue' = IF r.status = 202 THEN queue \cup {f} ELSE queue
  /\ UNCHANGED <<page, state, kind, message, text, near, focus, sends, answered>>

Fails(m) == Becomes("error", None, m) /\ failures' = failures + 1

\* (Mutation: a rejection whose body is not JSON is thrown and never shown.)
AnswersThrowing(f) ==
  /\ \E reply \in f.reply :
       IF Accepted(reply) THEN Becomes("queued", f.kind, None) /\ UNCHANGED failures
       ELSE IF reply.says = None THEN UNCHANGED <<state, kind, message, focus, failures>>
       ELSE Fails(messageFor(reply))
  /\ flights' = flights \ {f}
  /\ UNCHANGED <<page, text, near, queue, sends, cancels>>

\* An answer replaces what is on screen, cancelled in between or not.
Answers(f) ==
  /\ \E reply \in f.reply :
       IF Accepted(reply) THEN Becomes("queued", f.kind, None) /\ UNCHANGED failures
       ELSE Fails(messageFor(reply))
  /\ flights' = flights \ {f}
  /\ UNCHANGED <<page, text, near, queue, sends, cancels>>

\* fetch throws, on the way there or on the way back.
Lost(f) ==
  /\ flights' = flights \ {f} /\ Fails(NothingSent)
  /\ UNCHANGED <<page, text, near, queue, sends, cancels>>

Network == \/ NearestAnswers
           \/ \E f \in flights : Answers(f) \/ Lost(f) \/ \E r \in Replies : Serve(f, r)

-----------------------------------------------------------------------------
\* "Reported", "Noted, and thank you": said only of an entry of that kind that is
\* in the queue, whichever of several answers came first.  And an entry is in it
\* twice only if a reader was told it failed, or cancelled: no press is sent twice.
AnswersTellTheQueue ==
  /\ state = "queued" => \E e \in queue : e.kind = kind
  /\ Cardinality(queue) <= 1 + failures + cancels
=============================================================================
