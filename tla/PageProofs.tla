------------------------------ MODULE PageProofs ------------------------------
(***************************************************************************)
(* What holds of one page whatever its island is and whatever its index,   *)
(* its tabs and its bounds are: proofs about the toggle, about the forms   *)
(* and about the search panel, each from the part of the inductive         *)
(* invariant that is about it, and then about what they share, the focus.  *)
(***************************************************************************)
EXTENDS Page, FiniteSetTheorems, SequenceTheorems, TLAPS

\* The components count with a FiniteSets of their own, which counts alike.
LEMMA CountsAlike ==
  ASSUME NEW T
  PROVE  /\ F!Cardinality(T) = Cardinality(T)
         /\ S!Cardinality(T) = Cardinality(T)
         /\ S!IsFiniteSet(T) <=> IsFiniteSet(T)
<1>1. F!Cardinality(T) = Cardinality(T)
  BY Zenon DEF F!Cardinality, Cardinality
<1>2. S!Cardinality(T) = Cardinality(T)
  BY Zenon DEF S!Cardinality, Cardinality
<1>3. S!IsFiniteSet(T) <=> IsFiniteSet(T)
  BY Zenon DEF S!IsFiniteSet, IsFiniteSet
<1>4. QED
  BY <1>1, <1>2, <1>3

-----------------------------------------------------------------------------
\* The toggle.

\* Storage is what the reader adopted last, by hand or by a link to another depth
\* than the default.
ToggleInv == R!TypeOK /\ preference = adopted /\ AddressReopens

\* Only the toggle moves what it keeps.
LEMMA TogglesAlone ==
  ASSUME [Next]_all
  PROVE  R!Next \/ UNCHANGED ofToggle
BY DEF Next, all, Toggle

\* Arriving with any parameter leaves the invariant, given that what is
\* adopted follows the parameter as a link's does.
LEMMA Arriving ==
  ASSUME PageAssumption, ToggleInv, NEW t \in Tabs, NEW p \in R!Params, R!Mount(t, p),
         adopted' = IF R!parseDepth(p) \in {"none", R!DEFAULT} THEN adopted ELSE p,
         asked' \in [Tabs -> R!Depths \cup {"none"}]
  PROVE  ToggleInv'
<1> DEFINE d == R!resolve(p, preference)
<1> USE DEF R!Params, R!Depths, R!DEFAULT
<1>1. R!ReadingDepthAssumption
  BY DEF PageAssumption
<1>2. d \in R!Depths /\ preference \in R!Depths \cup {"none"}
  BY <1>1 DEF ToggleInv, R!TypeOK, R!resolve, R!parseDepth, R!ReadingDepthAssumption
<1>3. /\ depth' = [depth EXCEPT ![t] = d]
      /\ url' = [url EXCEPT ![t] = IF d = R!DEFAULT THEN p ELSE d]
      /\ preference' = IF d = R!DEFAULT THEN preference ELSE d
  BY <1>2 DEF R!Mount, R!searchFor
<1>4. R!TypeOK'
  BY <1>1, <1>2, <1>3 DEF ToggleInv, R!TypeOK, R!parseDepth, R!ReadingDepthAssumption
<1>5. preference' = adopted'
  BY <1>1, <1>2, <1>3 DEF ToggleInv, R!resolve, R!parseDepth, R!ReadingDepthAssumption
<1>6. R!resolve(IF d = R!DEFAULT THEN p ELSE d, "none") = d
  BY <1>1, <1>2 DEF R!resolve, R!parseDepth, R!ReadingDepthAssumption
<1>7. ASSUME NEW u \in Tabs, depth'[u] # "none" PROVE R!resolve(url'[u], "none") = depth'[u]
  <2>1. CASE u = t
    BY <1>3, <1>6, <2>1 DEF ToggleInv, R!TypeOK
  <2>2. CASE u # t
    <3>1. url'[u] = url[u] /\ depth'[u] = depth[u]
      BY <1>3, <2>2 DEF ToggleInv, R!TypeOK
    <3>2. QED
      BY <1>7, <3>1 DEF ToggleInv, AddressReopens, R!AddressReopens
  <2>3. QED
    BY <2>1, <2>2
<1>8. AddressReopens'
  BY <1>7 DEF AddressReopens, R!AddressReopens
<1>9. QED
  BY <1>4, <1>5, <1>8 DEF ToggleInv

\* The reader opens, reloads and chooses in any order, in any tab.
LEMMA ToggleStep ==
  ASSUME PageAssumption, ToggleInv, [Next]_all
  PROVE  ToggleInv'
<1>0. R!ReadingDepthAssumption
  BY DEF PageAssumption
<1>1. CASE UNCHANGED ofToggle
  BY <1>1 DEF ofToggle, ToggleInv, R!TypeOK, AddressReopens, R!AddressReopens
<1>2. ASSUME NEW t \in Tabs, NEW p \in R!Params, R!Open(t, p) PROVE ToggleInv'
  <2>1. asked' \in [Tabs -> R!Depths \cup {"none"}]
    BY <1>2 DEF R!Open, ToggleInv, R!TypeOK
  <2>2. QED
    BY <1>2, <2>1, Arriving DEF R!Open
<1>3. ASSUME NEW t \in Tabs, NEW d \in R!Depths, R!OpenAt(t, d) PROVE ToggleInv'
  <2>1. asked' \in [Tabs -> R!Depths \cup {"none"}]
    BY <1>3 DEF R!OpenAt, ToggleInv, R!TypeOK
  <2>2. R!searchFor(d) \in R!Params
    BY DEF R!searchFor, R!Params
  <2>3. adopted' = IF R!parseDepth(R!searchFor(d)) \in {"none", R!DEFAULT} THEN adopted ELSE R!searchFor(d)
    BY <1>0, <1>3 DEF R!OpenAt, R!searchFor, R!parseDepth, R!Depths, R!DEFAULT, R!ReadingDepthAssumption
  <2>4. QED
    BY <1>3, <2>1, <2>2, <2>3, Arriving DEF R!OpenAt
<1>4. ASSUME NEW t \in Tabs, R!Reload(t) PROVE ToggleInv'
  <2>1. url[t] \in R!Params /\ asked' \in [Tabs -> R!Depths \cup {"none"}]
    BY <1>4 DEF R!Reload, ToggleInv, R!TypeOK
  <2>2. QED
    BY <1>4, <2>1, Arriving DEF R!Reload
<1>5. ASSUME NEW t \in Tabs, NEW d \in R!Depths, R!Choose(t, d) PROVE ToggleInv'
  <2>1. R!TypeOK'
    BY <1>5 DEF R!Choose, ToggleInv, R!TypeOK, R!searchFor, R!Params
  <2>2. R!resolve(R!searchFor(d), "none") = d
    BY <1>0 DEF R!searchFor, R!resolve, R!parseDepth, R!Depths, R!DEFAULT, R!ReadingDepthAssumption
  <2>3. ASSUME NEW u \in Tabs, depth'[u] # "none" PROVE R!resolve(url'[u], "none") = depth'[u]
    <3>1. CASE u = t
      BY <1>5, <2>2, <3>1 DEF R!Choose, ToggleInv, R!TypeOK
    <3>2. CASE u # t
      <4>1. url'[u] = url[u] /\ depth'[u] = depth[u]
        BY <1>5, <3>2 DEF R!Choose, ToggleInv, R!TypeOK
      <4>2. QED
        BY <2>3, <4>1 DEF ToggleInv, AddressReopens, R!AddressReopens
    <3>3. QED
      BY <3>1, <3>2
  <2>4. preference' = adopted'
    BY <1>5 DEF R!Choose
  <2>5. AddressReopens'
    BY <2>3 DEF AddressReopens, R!AddressReopens
  <2>6. QED
    BY <2>1, <2>4, <2>5 DEF ToggleInv
<1>6. QED
  BY <1>1, <1>2, <1>3, <1>4, <1>5, TogglesAlone DEF R!Next

\* No tab has a page yet.
LEMMA ToggleInit ==
  ASSUME PageAssumption, Init
  PROVE  ToggleInv
BY DEF Init, R!Init, ToggleInv, R!TypeOK, R!Params, AddressReopens, R!AddressReopens

\* A page opened by a plain link is read at what storage holds, which is what
\* was adopted last.
LEMMA PlainLink ==
  ASSUME PageAssumption, ToggleInv, NEW t \in Tabs, R!Open(t, "none")
  PROVE  depth'[t] = (IF adopted = "none" THEN R!DEFAULT ELSE adopted)
<1>1. depth' = [depth EXCEPT ![t] = R!resolve("none", preference)]
  BY DEF R!Open, R!Mount
<1>2. R!resolve("none", preference) = IF adopted = "none" THEN R!DEFAULT ELSE adopted
  BY DEF R!resolve, R!parseDepth, R!Depths, ToggleInv
<1>3. QED
  BY <1>1, <1>2 DEF ToggleInv, R!TypeOK

-----------------------------------------------------------------------------
\* The forms.

\* What was sent is numbered once, and each number is one fetch and one entry.
\* A fetch without a reply has left nothing in the queue yet.
FlightInv ==
  /\ \A f \in flights : f = [n |-> f.n, kind |-> f.kind, referrer |-> f.referrer, reply |-> f.reply]
  /\ \A f \in flights : f.n \in 1..sends
  /\ \A f, g \in flights : f.n = g.n => f = g
  /\ \A e \in queue : e.n \in 1..sends
  /\ \A d, e \in queue : d.n = e.n => d = e
  /\ \A f \in flights : f.reply = {} => \A e \in queue : e.n # f.n

\* A success on its way, or on screen, is about an entry of its kind.
ToldInv ==
  /\ \A f \in flights : \A r \in f.reply : r.status = 202 => \E e \in queue : e.kind = f.kind
  /\ state = "queued" => \E e \in queue : e.kind = kind

\* Nothing is sent twice but after a failure that was shown, or a cancel.
States == {"unmounted", "idle", "flagging", "sending", "queued", "error"}
SendInv ==
  /\ state \in States /\ page.form \in F!Forms
  /\ sends \in Nat /\ failures \in Nat /\ cancels \in Nat
  /\ sends <= failures + cancels + (IF state \in {"sending", "queued"} THEN 1 ELSE 0)

\* Only a review can be cancelled, so another form waits for the one it sent.
OneInv ==
  page.form # "review" /\ flights # {} => state = "sending" /\ \E f \in flights : flights = {f}

\* Focus is on no control that has gone.
AnyControl == {"note", "submit", "cancel", "flag", "volunteer"}
FocusInv == focus \in AnyControl => focus \in F!Controls(state)

FormInv == FlightInv /\ ToldInv /\ SendInv /\ OneInv /\ FocusInv

\* Where Tab goes is in the panel, or the page after its last element.
LEMMA StopsInPanel ==
  /\ S!Tabbable \in Seq(S!InPanel) /\ S!Stops \in Seq(S!InPanel)
  /\ 1 <= Len(S!Tabbable) /\ Len(S!Tabbable) <= Len(S!Stops)
<1> DEFINE P == S!InPanel
           clear == IF query # <<>> THEN <<"clear">> ELSE <<>>
           browse == IF index = "failed" \/ (index = "ready" /\ ~S!IsBlank(query) /\ S!hits = <<>>)
                     THEN <<"browse">> ELSE <<>>
           nearby == IF S!near # <<>> THEN <<"near">> ELSE <<>>
           hit == IF S!hits # <<>> THEN <<"hit">> ELSE <<>>
<1>1. <<"box">> \in Seq(P) /\ Len(<<"box">>) = 1
  BY DEF S!InPanel
<1>2. clear \in Seq(P) /\ browse \in Seq(P) /\ nearby \in Seq(P) /\ hit \in Seq(P)
  <2>1. /\ <<"clear">> \in Seq(P) /\ <<"browse">> \in Seq(P)
        /\ <<"near">> \in Seq(P) /\ <<"hit">> \in Seq(P) /\ << >> \in Seq(P)
    BY DEF S!InPanel
  <2> HIDE DEF P
  <2>2. QED
    BY ONLY <2>1, Zenon
<1>3. S!Tabbable = <<"box">> \o clear \o browse \o nearby /\ S!Stops = S!Tabbable \o hit
  BY DEF S!Tabbable, S!Stops
<1> HIDE DEF clear, browse, nearby, hit, P
<1>4. /\ <<"box">> \o clear \in Seq(P) /\ 1 <= Len(<<"box">> \o clear)
  BY <1>1, <1>2
<1>5. /\ <<"box">> \o clear \o browse \in Seq(P) /\ 1 <= Len(<<"box">> \o clear \o browse)
  BY <1>2, <1>4
<1>6. S!Tabbable \in Seq(P) /\ 1 <= Len(S!Tabbable)
  BY <1>2, <1>3, <1>5
<1>7. S!Stops \in Seq(P) /\ Len(S!Tabbable) <= Len(S!Stops)
  BY <1>2, <1>3, <1>6
<1>8. QED
  BY <1>6, <1>7 DEF P

\* The element Tab goes to, either way.
LEMMA TabGoes ==
  ASSUME S!Tab
  PROVE  focus' \in S!InPanel \cup {"elsewhere"}
<1> DEFINE i == CHOOSE k \in DOMAIN S!Stops : S!Stops[k] = focus
           n == Len(S!Stops)
           m == Len(S!Tabbable)
<1>1. S!Stops \in Seq(S!InPanel) /\ S!Tabbable \in Seq(S!InPanel) /\ 1 <= m /\ m <= n
  BY StopsInPanel
<1>2. \E k \in DOMAIN S!Stops : S!Stops[k] = focus
  BY <1>1 DEF S!Tab, S!ToSet
<1>3. i \in 1..n
  BY <1>1, <1>2
<1>4. \/ focus' = IF i = n THEN S!Stops[1] ELSE IF i < m THEN S!Tabbable[i + 1] ELSE "elsewhere"
      \/ focus' = IF i = 1 THEN S!Last(S!Stops) ELSE S!Stops[i - 1]
  BY DEF S!Tab
<1>5. S!Last(S!Stops) = S!Stops[n]
  BY DEF S!Last
<1> HIDE DEF i
<1>6. n \in Nat /\ m \in Nat
  BY <1>1
<1>7. /\ \A k \in 1..n : S!Stops[k] \in S!InPanel
      /\ \A k \in 1..m : S!Tabbable[k] \in S!InPanel
  BY <1>1
<1> HIDE DEF n, m
<1>8. CASE focus' = IF i = n THEN S!Stops[1] ELSE IF i < m THEN S!Tabbable[i + 1] ELSE "elsewhere"
  BY <1>1, <1>3, <1>6, <1>7, <1>8
<1>9. CASE focus' = IF i = 1 THEN S!Last(S!Stops) ELSE S!Stops[i - 1]
  BY <1>1, <1>3, <1>5, <1>6, <1>7, <1>9
<1>10. QED
  BY <1>4, <1>8, <1>9

\* What a step does to the forms, if it does anything: a step of theirs, or focus
\* that goes outside the controls or to one of them.
LEMMA FormCases ==
  ASSUME [Next]_all
  PROVE  \/ /\ UNCHANGED ofForm
            /\ focus' \in {focus, "body", "trigger", "elsewhere"} \cup S!InPanel \cup Outside
         \/ F!Mount \/ F!Press \/ F!Network
         \/ \E c \in F!Controls(state) \cup F!Suggested : F!Focus(c)
         \/ \E t \in Texts : F!Type(t)
<1> DEFINE Stays == /\ UNCHANGED ofForm
                    /\ focus' \in {focus, "body", "trigger", "elsewhere"} \cup S!InPanel \cup Outside
<1>1. CASE UNCHANGED all
  BY <1>1 DEF all
<1>2. CASE Toggle
  BY <1>2 DEF Toggle
<1>3. CASE Wander
  BY <1>3 DEF Wander
<1>4. CASE Form
  BY <1>4 DEF Form
<1>5. CASE Panel
  <2>1. UNCHANGED ofForm
    BY <1>5 DEF Panel
  <2>2. CASE S!Tab
    BY <2>1, <2>2, TabGoes
  <2>3. CASE S!Close(Outside)
    BY <2>1, <2>3 DEF S!Close
  <2>4. CASE S!openPanel \/ S!Click \/ S!Arrive \/ S!Reload \/ S!Clear
    BY <2>1, <2>4 DEF S!openPanel, S!Click, S!Arrive, S!Reload, S!Clear, S!InPanel, S!panelVars
  <2>5. CASE S!IndexArrives \/ S!Highlight \/ S!Enter \/ (\E q \in Queries : S!Type(q) \/ S!Asked(q))
    BY <2>1, <2>5 DEF S!IndexArrives, S!Highlight, S!Enter, S!Type, S!Asked
  <2>6. QED
    BY <1>5, <2>2, <2>3, <2>4, <2>5 DEF Panel, S!Next
<1>6. QED
  BY <1>1, <1>2, <1>3, <1>4, <1>5 DEF Next

\* A control that stays on screen may keep the focus; the note that is mounted
\* takes it; everything else that takes it is no control.
LEMMA Refocusing ==
  ASSUME NEW s, F!Refocused(s), page' = page, state' = s, FocusInv
  PROVE  FocusInv'
<1> DEFINE arrived == F!Regions(s) \ F!Regions(state)
<1>1. CASE arrived # {}
  <2>1. focus' \in arrived
    BY <1>1 DEF F!Refocused
  <2>2. focus' \notin AnyControl
    BY <2>1 DEF F!Regions, AnyControl
  <2>3. QED
    BY <2>2 DEF FocusInv
<1>2. CASE arrived = {} /\ F!Flagging(s) /\ ~F!Flagging(state)
  <2>1. focus' = "note"
    BY <1>2 DEF F!Refocused
  <2>2. F!Controls(s) = {"note", "submit", "cancel"}
    BY <1>2 DEF F!Controls, F!Flagging, F!form
  <2>3. F!Controls(state)' = F!Controls(s)
    BY DEF F!Controls, F!Flagging, F!form
  <2>4. QED
    BY <2>1, <2>2, <2>3 DEF FocusInv
<1>3. CASE arrived = {} /\ ~(F!Flagging(s) /\ ~F!Flagging(state))
  <2>1. focus' = IF focus \in F!Focusable(state) \ F!Focusable(s) THEN "body" ELSE focus
    BY <1>3 DEF F!Refocused
  <2>2. F!Controls(state)' = F!Controls(s)
    BY DEF F!Controls, F!Flagging, F!form
  <2>3. F!Regions(s) \cap AnyControl = {}
    BY DEF F!Regions, AnyControl
  <2>4. ASSUME focus' \in AnyControl PROVE focus' \in F!Controls(s)
    <3>1. focus' = focus /\ focus \in F!Controls(state)
      BY <2>1, <2>4 DEF FocusInv, AnyControl
    <3>2. focus \in F!Focusable(s)
      BY <2>1, <2>4, <3>1 DEF F!Focusable, AnyControl
    <3>3. QED
      BY <2>3, <2>4, <3>1, <3>2 DEF F!Focusable
  <2>5. QED
    BY <2>2, <2>4 DEF FocusInv
<1>4. QED
  BY <1>1, <1>2, <1>3

\* A control that has focus is there, so the form is neither gone nor done.
LEMMA ControlIsThere ==
  ASSUME FocusInv, focus \in AnyControl
  PROVE  /\ state \notin {"unmounted", "queued"}
         /\ focus = "cancel" => page.form = "review" /\ state \in {"flagging", "sending"}
         /\ focus \in {"flag", "volunteer"} => page.form = "review" /\ state \notin {"flagging", "sending"}
<1>1. focus \in F!Controls(state)
  BY DEF FocusInv
<1>2. ASSUME state \in {"unmounted", "queued"} PROVE FALSE
  <2>1. F!Controls(state) = {}
    BY <1>2 DEF F!Controls
  <2>2. QED
    BY <1>1, <2>1
<1>3. QED
  BY <1>1, <1>2 DEF F!Controls, F!Flagging, F!form

\* A press that posts: one more number, one more fetch, and nothing else out of a
\* form that can have one only.
LEMMA PostStep ==
  ASSUME FormInv, NEW k, F!Post(k), state \notin {"sending", "queued"}
  PROVE  FormInv'
<1> DEFINE g == [n |-> sends + 1, kind |-> k, referrer |-> F!Referrer, reply |-> {}]
<1>1. /\ sends' = sends + 1 /\ flights' = flights \cup {g} /\ state' = "sending" /\ F!Refocused("sending")
      /\ UNCHANGED <<page, queue, failures, cancels>>
  BY DEF F!Post, F!Becomes, F!answered
<1>2. sends \in Nat
  BY DEF FormInv, SendInv
<1>3. g.n = sends + 1 /\ g.reply = {} /\ g = [n |-> g.n, kind |-> g.kind, referrer |-> g.referrer, reply |-> g.reply]
  OBVIOUS
<1> HIDE DEF g
<1>4. (\A f \in flights : f.n \in 1..sends) /\ (\A e \in queue : e.n \in 1..sends)
  BY DEF FormInv, FlightInv
<1>5. (\A f \in flights : f.n # g.n /\ f.n \in 1..sends') /\ (\A e \in queue : e.n # g.n /\ e.n \in 1..sends')
  BY <1>1, <1>2, <1>3, <1>4
<1>6. FlightInv'
  <2>1. \A f \in flights' : f = [n |-> f.n, kind |-> f.kind, referrer |-> f.referrer, reply |-> f.reply]
    BY <1>1, <1>3 DEF FormInv, FlightInv
  <2>2. \A f \in flights' : f.n \in 1..sends'
    BY <1>1, <1>2, <1>3, <1>5
  <2>3. \A f, h \in flights' : f.n = h.n => f = h
    BY <1>1, <1>5 DEF FormInv, FlightInv
  <2>4. \A f \in flights' : f.reply = {} => \A e \in queue' : e.n # f.n
    BY <1>1, <1>5 DEF FormInv, FlightInv
  <2>5. QED
    BY <1>1, <1>5, <2>1, <2>2, <2>3, <2>4 DEF FormInv, FlightInv
<1>7. ToldInv'
  BY <1>1, <1>3 DEF FormInv, ToldInv
<1>8. SendInv'
  BY <1>1 DEF FormInv, SendInv, States
<1>9. OneInv'
  BY <1>1 DEF FormInv, OneInv
<1>10. FocusInv'
  BY <1>1, Refocusing DEF FormInv
<1>11. QED
  BY <1>6, <1>7, <1>8, <1>9, <1>10 DEF FormInv

\* A render that posts nothing and settles nothing.
LEMMA RenderStep ==
  ASSUME FormInv, NEW s \in States \ {"sending", "queued"}, state' = s, F!Refocused(s),
         UNCHANGED <<page, flights, queue, sends, failures>>,
         NEW n \in Nat, cancels' = n, cancels <= n, state = "sending" => n = cancels + 1,
         page.form # "review" => state \notin {"sending", "queued"},
         state # "queued"
  PROVE  FormInv'
<1>1. FlightInv' /\ ToldInv'
  BY DEF FormInv, FlightInv, ToldInv
<1>2. SendInv'
  <2>1. /\ sends \in Nat /\ failures \in Nat /\ cancels \in Nat /\ state # "queued"
        /\ sends <= failures + cancels + (IF state \in {"sending", "queued"} THEN 1 ELSE 0)
    BY DEF FormInv, SendInv
  <2>2. sends <= failures + n
    BY <2>1
  <2>3. state' \in States /\ page'.form \in F!Forms /\ state' \notin {"sending", "queued"}
    BY DEF FormInv, SendInv
  <2>4. sends <= failures + n + 0
    BY <2>1, <2>2
  <2>5. QED
    BY <2>1, <2>3, <2>4 DEF SendInv
<1>3. OneInv'
  BY DEF FormInv, OneInv
<1>4. FocusInv'
  BY Refocusing DEF FormInv
<1>5. QED
  BY <1>1, <1>2, <1>3, <1>4 DEF FormInv

\* Every press, of whatever has focus.
LEMMA PressStep ==
  ASSUME FormInv, F!Press
  PROVE  FormInv'
<1>0. FocusInv /\ cancels \in Nat
  BY DEF FormInv, SendInv
<1>1. ASSUME F!Ignored PROVE FormInv'
  BY <1>1 DEF F!Ignored, F!vars, F!formVars, F!answered, FormInv, FlightInv, ToldInv, SendInv, OneInv, FocusInv,
              F!Controls, F!Flagging, F!form
<1>2. ASSUME NEW k, focus \in AnyControl, F!send(k) PROVE FormInv'
  BY <1>0, <1>1, <1>2, ControlIsThere, PostStep DEF F!send
<1>3. CASE F!Submitting /\ F!form = "review" /\ F!send("flag")
  BY <1>2, <1>3 DEF F!Submitting, AnyControl
<1>4. CASE F!Submitting /\ F!form # "review" /\ F!submit
  <2>1. state # "queued"
    BY <1>0, <1>4, ControlIsThere DEF F!Submitting, AnyControl
  <2>2. CASE F!Ignored
    BY <1>1, <2>2
  <2>3. CASE state # "sending" /\ F!Post("request")
    BY <2>1, <2>3, PostStep
  <2>4. CASE /\ state # "sending" /\ F!Becomes("error", "none", "give it a name first")
             /\ UNCHANGED <<page, text, near, flights, queue, sends, F!answered>>
    <3>1. /\ state' = "error" /\ F!Refocused("error") /\ "error" \in States \ {"sending", "queued"}
          /\ UNCHANGED <<page, flights, queue, sends, failures>> /\ cancels' = cancels
      BY <2>4 DEF F!Becomes, F!answered, States
    <3>2. cancels \in Nat /\ cancels <= cancels
      BY <1>0
    <3>3. QED
      BY <2>1, <2>4, <3>1, <3>2, RenderStep
  <2>5. QED
    BY <1>4, <2>2, <2>3, <2>4 DEF F!submit, F!None
<1>5. CASE focus = "volunteer" /\ F!send("volunteer")
  BY <1>2, <1>5 DEF AnyControl
<1>6. CASE /\ focus = "flag" /\ F!Becomes("flagging", F!None, F!None)
           /\ UNCHANGED <<page, text, near, flights, queue, sends, F!answered>>
  <2>1. state \notin {"sending", "queued"}
    BY <1>0, <1>6, ControlIsThere DEF AnyControl
  <2>2. QED
    BY <1>0, <1>6, <2>1, RenderStep DEF F!Becomes, F!answered, States
<1>7. CASE /\ focus = "cancel" /\ F!Becomes("idle", F!None, F!None)
           /\ cancels' = IF state = "sending" THEN cancels + 1 ELSE cancels
           /\ UNCHANGED <<page, text, near, flights, queue, sends, failures>>
  <2>1. state # "queued" /\ page.form = "review"
    BY <1>0, <1>7, ControlIsThere DEF AnyControl
  <2> DEFINE n == IF state = "sending" THEN cancels + 1 ELSE cancels
  <2>2. n \in Nat /\ cancels <= n /\ (state = "sending" => n = cancels + 1)
    BY <1>0
  <2>3. state' = "idle" /\ F!Refocused("idle") /\ cancels' = n /\ "idle" \in States \ {"sending", "queued"}
    BY <1>7 DEF F!Becomes, States
  <2> HIDE DEF n
  <2>4. QED
    BY <1>7, <2>1, <2>2, <2>3, RenderStep
<1>8. QED
  BY <1>3, <1>4, <1>5, <1>6, <1>7 DEF F!Press

\* An answer, or the end of a connection: one fetch less, and a word about it.
LEMMA SettleStep ==
  ASSUME FormInv, NEW f \in flights, flights' = flights \ {f}, UNCHANGED <<page, queue, sends, cancels>>,
         \/ F!Becomes("queued", f.kind, F!None) /\ failures' = failures /\ \E r \in f.reply : r.status = 202
         \/ \E m : F!Fails(m)
  PROVE  FormInv'
<1>1. FlightInv'
  BY DEF FormInv, FlightInv
<1>2. state' \in {"queued", "error"} /\ F!Refocused(state')
  BY DEF F!Becomes, F!Fails
<1>3. FocusInv'
  <2>1. PICK s : s = state' /\ F!Refocused(s)
    BY <1>2
  <2>2. QED
    BY <2>1, Refocusing DEF FormInv
<1>4. OneInv'
  <2>1. CASE page.form # "review"
    <3>1. \E g \in flights : flights = {g}
      BY <2>1 DEF FormInv, OneInv
    <3>2. flights' = {}
      BY <3>1
    <3>3. QED
      BY <3>2 DEF OneInv
  <2>2. CASE page.form = "review"
    BY <2>2 DEF OneInv
  <2>3. QED
    BY <2>1, <2>2
<1>5. CASE F!Becomes("queued", f.kind, F!None) /\ failures' = failures /\ \E r \in f.reply : r.status = 202
  <2>1. state' = "queued" /\ kind' = f.kind
    BY <1>5 DEF F!Becomes
  <2>2. \E e \in queue : e.kind = f.kind
    BY <1>5 DEF FormInv, ToldInv
  <2>3. ToldInv'
    BY <2>1, <2>2 DEF FormInv, ToldInv
  <2>4. SendInv'
    BY <1>5, <2>1 DEF FormInv, SendInv, States
  <2>5. QED
    BY <1>1, <1>3, <1>4, <2>3, <2>4 DEF FormInv
<1>6. CASE \E m : F!Fails(m)
  <2>1. state' = "error" /\ failures' = failures + 1
    BY <1>6 DEF F!Becomes, F!Fails
  <2>2. ToldInv'
    BY <2>1 DEF FormInv, ToldInv
  <2>3. SendInv'
    BY <2>1 DEF FormInv, SendInv, States
  <2>4. QED
    BY <1>1, <1>3, <1>4, <2>2, <2>3 DEF FormInv
<1>7. QED
  BY <1>5, <1>6

\* The API answers, and keeps what it accepts: an entry more, of a number that
\* none had.
LEMMA ServeStep ==
  ASSUME FormInv, NEW f \in flights, NEW r, F!Serve(f, r)
  PROVE  FormInv'
<1> DEFINE g == [f EXCEPT !.reply = {r}]
<1>1. /\ f.reply = {} /\ flights' = (flights \ {f}) \cup {g}
      /\ queue' = IF r.status = 202 THEN queue \cup {f} ELSE queue
      /\ UNCHANGED <<page, state, kind, focus, sends, failures, cancels>>
  BY DEF F!Serve, F!answered
<1>2. f = [n |-> f.n, kind |-> f.kind, referrer |-> f.referrer, reply |-> f.reply] /\ f.n \in 1..sends
  BY DEF FormInv, FlightInv
<1>3. g = [n |-> f.n, kind |-> f.kind, referrer |-> f.referrer, reply |-> {r}]
  BY <1>2
<1>4. g.n = f.n /\ g.kind = f.kind /\ g.referrer = f.referrer /\ g.reply = {r}
  BY <1>3
<1> HIDE DEF g
<1>5. \A e \in queue : e.n # f.n
  BY <1>1 DEF FormInv, FlightInv
<1>6. FlightInv'
  <2>1. \A h \in flights' : h = [n |-> h.n, kind |-> h.kind, referrer |-> h.referrer, reply |-> h.reply]
    BY <1>1, <1>3, <1>4 DEF FormInv, FlightInv
  <2>2. \A h \in flights' : h.n \in 1..sends
    BY <1>1, <1>2, <1>4 DEF FormInv, FlightInv
  <2>3. \A h, i \in flights' : h.n = i.n => h = i
    BY <1>1, <1>4 DEF FormInv, FlightInv
  <2>4. \A e \in queue' : e.n \in 1..sends
    BY <1>1, <1>2 DEF FormInv, FlightInv
  <2>5. \A d, e \in queue' : d.n = e.n => d = e
    BY <1>1, <1>5 DEF FormInv, FlightInv
  <2>6. ASSUME NEW h \in flights', h.reply = {} PROVE \A e \in queue' : e.n # h.n
    <3>1. h \in flights /\ h # f
      BY <1>1, <1>4, <2>6
    <3>2. h.n # f.n /\ \A e \in queue : e.n # h.n
      BY <2>6, <3>1 DEF FormInv, FlightInv
    <3>3. QED
      BY <1>1, <3>2
  <2>7. QED
    BY <1>1, <2>1, <2>2, <2>3, <2>4, <2>5, <2>6 DEF FlightInv
<1>7. ToldInv'
  <2>1. queue \subseteq queue'
    BY <1>1
  <2>2. r.status = 202 => f \in queue'
    BY <1>1
  <2>3. \A q \in g.reply : q.status = 202 => \E e \in queue' : e.kind = g.kind
    BY <1>4, <2>2
  <2>4. QED
    BY <1>1, <2>1, <2>3 DEF FormInv, ToldInv
<1>8. SendInv' /\ FocusInv'
  BY <1>1 DEF FormInv, SendInv, FocusInv, F!Controls, F!Flagging, F!form
<1>9. OneInv'
  <2>1. CASE page.form # "review"
    <3>1. state = "sending" /\ \E h \in flights : flights = {h}
      BY <2>1 DEF FormInv, OneInv
    <3>2. flights' = {g}
      BY <1>1, <3>1
    <3>3. QED
      BY <1>1, <3>1, <3>2 DEF OneInv
  <2>2. CASE page.form = "review"
    BY <1>1, <2>2 DEF OneInv
  <2>3. QED
    BY <2>1, <2>2
<1>10. QED
  BY <1>6, <1>7, <1>8, <1>9 DEF FormInv

\* What the network does, in whatever order it does it.
LEMMA NetworkStep ==
  ASSUME FormInv, F!Network
  PROVE  FormInv'
<1>1. CASE F!NearestAnswers
  BY <1>1 DEF F!NearestAnswers, F!answered, FormInv, FlightInv, ToldInv, SendInv, OneInv, FocusInv,
              F!Controls, F!Flagging, F!form
<1>2. ASSUME NEW f \in flights, F!Answers(f) PROVE FormInv'
  <2>1. flights' = flights \ {f} /\ UNCHANGED <<page, queue, sends, cancels>>
    BY <1>2 DEF F!Answers
  <2>2. \/ F!Becomes("queued", f.kind, F!None) /\ failures' = failures /\ \E r \in f.reply : r.status = 202
        \/ \E m : F!Fails(m)
    BY <1>2 DEF F!Answers, F!Accepted
  <2>3. QED
    BY <2>1, <2>2, SettleStep
<1>3. ASSUME NEW f \in flights, F!Lost(f) PROVE FormInv'
  BY <1>3, SettleStep DEF F!Lost
<1>4. QED
  BY <1>1, <1>2, <1>3, ServeStep DEF F!Network

\* Every step of the page leaves the forms in order.
LEMMA FormStep ==
  ASSUME PageAssumption, FormInv, [Next]_all
  PROVE  FormInv'
<1>1. CASE /\ UNCHANGED ofForm
           /\ focus' \in {focus, "body", "trigger", "elsewhere"} \cup S!InPanel \cup Outside
  <2>1. focus' \in AnyControl => focus' \in F!Controls(state)
    BY <1>1 DEF FormInv, FocusInv, AnyControl, S!InPanel, Outside, F!Focusable, F!Regions, F!Suggested
  <2>2. QED
    BY <1>1, <2>1 DEF ofForm, FormInv, FlightInv, ToldInv, SendInv, OneInv, FocusInv, F!Controls, F!Flagging, F!form
<1>2. CASE F!Mount
  <2>1. state = "unmounted" /\ state' = "idle" /\ F!Refocused("idle")
        /\ UNCHANGED <<page, flights, queue, sends, failures, cancels>>
    BY <1>2 DEF F!Mount, F!Becomes, F!answered
  <2>2. "idle" \in States \ {"sending", "queued"} /\ cancels \in Nat /\ cancels <= cancels
    BY DEF FormInv, SendInv, States
  <2>3. QED
    BY <2>1, <2>2, RenderStep
<1>3. ASSUME NEW c \in F!Controls(state) \cup F!Suggested, F!Focus(c) PROVE FormInv'
  <2>1. focus' \in AnyControl => focus' \in F!Controls(state)
    BY <1>3 DEF F!Focus, AnyControl, F!Suggested
  <2>2. QED
    BY <1>3, <2>1 DEF F!Focus, F!formVars, F!answered, FormInv, FlightInv, ToldInv, SendInv, OneInv, FocusInv,
                      F!Controls, F!Flagging, F!form
<1>4. ASSUME NEW t \in Texts, F!Type(t) PROVE FormInv'
  BY <1>4 DEF F!Type, F!answered, FormInv, FlightInv, ToldInv, SendInv, OneInv, FocusInv,
              F!Controls, F!Flagging, F!form
<1>5. QED
  BY <1>1, <1>2, <1>3, <1>4, PressStep, NetworkStep, FormCases

\* Nothing was sent, and nothing has focus.
LEMMA FormInit ==
  ASSUME PageAssumption, Init
  PROVE  FormInv
<1>1. page.form \in F!Forms
  BY DEF Init, F!Init, PageAssumption, F!QueueFormsAssumption
<1>2. /\ flights = {} /\ queue = {} /\ state = "unmounted" /\ focus = "body"
      /\ sends = 0 /\ failures = 0 /\ cancels = 0
  BY DEF Init, F!Init
<1>3. FlightInv /\ ToldInv /\ OneInv
  BY <1>2 DEF FlightInv, ToldInv, OneInv
<1>4. SendInv /\ FocusInv
  BY <1>1, <1>2 DEF SendInv, FocusInv, States, AnyControl
<1>5. QED
  BY <1>3, <1>4 DEF FormInv

\* Entries are numbered apart, from the first send to the last, so there are no
\* more of them than sends.
LEMMA WhatIsTold ==
  ASSUME FormInv
  PROVE  AnswersTellTheQueue
<1>1. /\ \A e \in queue : e.n \in 1..sends
      /\ \A d, e \in queue : d.n = e.n => d = e
      /\ sends \in Nat /\ failures \in Nat /\ cancels \in Nat
      /\ sends <= failures + cancels + (IF state \in {"sending", "queued"} THEN 1 ELSE 0)
  BY DEF FormInv, FlightInv, SendInv
<1> DEFINE number == [e \in queue |-> e.n]
<1>2. number \in Injection(queue, 1..sends)
  BY <1>1 DEF Injection, IsInjective
<1> HIDE DEF number
<1>3. IsFiniteSet(1..sends) /\ Cardinality(1..sends) = sends
  <2>1. 1 \in Int /\ sends \in Int
    BY <1>1
  <2>2. IsFiniteSet(1..sends) /\ Cardinality(1..sends) = IF 1 > sends THEN 0 ELSE sends - 1 + 1
    BY <2>1, FS_Interval
  <2>3. QED
    BY <1>1, <2>2
<1>4. Cardinality(queue) <= sends /\ Cardinality(queue) \in Nat
  BY <1>2, <1>3, FS_Injection, FS_CardinalityType
<1> DEFINE c == Cardinality(queue)
<1>5. c \in Nat /\ c <= sends
  BY <1>4
<1> HIDE DEF c
<1>6. c <= 1 + failures + cancels
  <2>1. sends \in Nat /\ failures \in Nat /\ cancels \in Nat /\ sends <= 1 + failures + cancels
    BY <1>1
  <2>2. QED
    BY <1>5, <2>1
<1>7. state = "queued" => \E e \in queue : e.kind = kind
  BY DEF FormInv, ToldInv
<1>8. QED
  BY <1>6, <1>7, CountsAlike DEF c, AnswersTellTheQueue, F!AnswersTellTheQueue

-----------------------------------------------------------------------------
\* The focus.

\* A render drops focus only with what had it, and when nothing arrives to take it.
LEMMA Dropping ==
  ASSUME NEW s, F!Refocused(s), focus # "body", focus' = "body"
  PROVE  /\ F!Regions(s) \subseteq F!Regions(state)
         /\ F!Flagging(s) => F!Flagging(state)
         /\ focus \in F!Controls(state) \cup F!Regions(state)
         /\ focus \notin F!Controls(s) \cup F!Regions(s)
<1> DEFINE arrived == F!Regions(s) \ F!Regions(state)
<1>1. arrived = {}
  <2>1. CASE arrived # {}
    <3>1. focus' \in arrived
      BY <2>1 DEF F!Refocused
    <3>2. "body" \notin F!Regions(s)
      BY DEF F!Regions
    <3>3. QED
      BY <3>1, <3>2
  <2>2. QED
    BY <2>1
<1>2. ~(F!Flagging(s) /\ ~F!Flagging(state))
  BY <1>1 DEF F!Refocused
<1>3. focus \in F!Focusable(state) \ F!Focusable(s)
  BY <1>1, <1>2 DEF F!Refocused
<1>4. QED
  BY <1>1, <1>2, <1>3 DEF F!Focusable

\* A post keeps every control of a request, and mounts the note of a review.
LEMMA PostKeeps ==
  ASSUME NEW k, F!Post(k), state \notin {"unmounted", "sending", "queued"}, focus # "body"
  PROVE  focus' # "body"
<1>1. SUFFICES ASSUME focus' = "body" PROVE FALSE
  OBVIOUS
<1>2. F!Refocused("sending")
  BY DEF F!Post, F!Becomes
<1>3. CASE page.form = "review"
  <2>1. F!Flagging("sending") /\ F!Flagging(state)
    BY <1>1, <1>2, <1>3, Dropping DEF F!Flagging, F!form
  <2>2. state = "flagging"
    BY <2>1 DEF F!Flagging
  <2>3. F!Controls(state) = F!Controls("sending") /\ F!Regions(state) = {}
    BY <1>3, <2>1, <2>2 DEF F!Controls, F!Regions, F!form
  <2>4. QED
    BY <1>1, <1>2, <2>3, Dropping
<1>4. CASE page.form # "review"
  <2>1. F!Controls(state) = F!Controls("sending") /\ F!Regions(state) = {}
    BY <1>4 DEF F!Controls, F!Regions, F!form
  <2>2. QED
    BY <1>1, <1>2, <2>1, Dropping
<1>5. QED
  BY <1>3, <1>4

\* An answer is announced where focus can go, and takes it.
LEMMA AnswerTakes ==
  ASSUME FormInv, NEW s \in {"queued", "error"}, F!Refocused(s), flights # {}, focus # "body"
  PROVE  focus' # "body"
<1>1. SUFFICES ASSUME focus' = "body" PROVE FALSE
  OBVIOUS
<1>2. /\ F!Regions(s) \subseteq F!Regions(state)
      /\ focus \in F!Controls(state) \cup F!Regions(state)
      /\ focus \notin F!Controls(s) \cup F!Regions(s)
  BY <1>1, Dropping
<1>3. state # s
  BY <1>2
<1>4. CASE s = "queued" \/ page.form = "review"
  <2>1. F!Regions(s) # {} /\ F!Regions(s) \cap F!Regions(state) = {}
    BY <1>3, <1>4 DEF F!Regions, F!form
  <2>2. QED
    BY <1>2, <2>1
<1>5. CASE s = "error" /\ page.form # "review"
  <2>1. state = "sending"
    BY <1>5 DEF FormInv, OneInv
  <2>2. F!Controls(state) = F!Controls(s) /\ F!Regions(state) = {}
    BY <1>5, <2>1 DEF F!Controls, F!Regions, F!form
  <2>3. QED
    BY <1>2, <2>2
<1>6. QED
  BY <1>4, <1>5

\* A press drops focus only when it cancels.
LEMMA PressKeeps ==
  ASSUME FormInv, F!Press, focus # "body", focus' = "body"
  PROVE  focus = "cancel" /\ state' = "idle"
<1>0. FocusInv
  BY DEF FormInv
<1>1. ASSUME F!Ignored PROVE FALSE
  BY <1>1 DEF F!Ignored, F!vars
<1>2. ASSUME NEW k, focus \in AnyControl, F!send(k) PROVE FALSE
  BY <1>0, <1>1, <1>2, ControlIsThere, PostKeeps DEF F!send
<1>3. CASE F!Submitting /\ F!form = "review" /\ F!send("flag")
  BY <1>2, <1>3 DEF F!Submitting, AnyControl
<1>4. CASE F!Submitting /\ F!form # "review" /\ F!submit
  <2>1. state \notin {"unmounted", "queued"}
    BY <1>0, <1>4, ControlIsThere DEF F!Submitting, AnyControl
  <2>2. CASE state # "sending" /\ F!Post("request")
    BY <2>1, <2>2, PostKeeps
  <2>3. CASE state # "sending" /\ F!Becomes("error", "none", "give it a name first")
    <3>1. F!Controls(state) = F!Controls("error") /\ F!Regions(state) = {}
      BY <1>4, <2>1, <2>3 DEF F!Controls, F!Regions, F!form
    <3>2. QED
      BY <2>3, <3>1, Dropping DEF F!Becomes
  <2>4. QED
    BY <1>1, <1>4, <2>2, <2>3 DEF F!submit, F!None
<1>5. CASE focus = "volunteer" /\ F!send("volunteer")
  BY <1>2, <1>5 DEF AnyControl
<1>6. CASE focus = "flag" /\ F!Becomes("flagging", F!None, F!None)
  <2>1. page.form = "review" /\ state \notin {"flagging", "sending"}
    BY <1>0, <1>6, ControlIsThere DEF AnyControl
  <2>2. F!Flagging("flagging") /\ ~F!Flagging(state)
    BY <2>1 DEF F!Flagging, F!form
  <2>3. QED
    BY <1>6, <2>2, Dropping DEF F!Becomes
<1>7. CASE focus = "cancel" /\ F!Becomes("idle", F!None, F!None)
  BY <1>7 DEF F!Becomes
<1>8. QED
  BY <1>3, <1>4, <1>5, <1>6, <1>7 DEF F!Press

\* The panel drops focus only when it goes, with nowhere to give it back to.
LEMMA PanelKeeps ==
  ASSUME Panel, focus # "body", focus' = "body"
  PROVE  open /\ ~open' /\ (mode = "page" \/ opener = "body" \/ opener \notin Outside)
<1>1. CASE S!Tab
  BY <1>1, TabGoes DEF S!InPanel
<1>2. CASE S!Close(Outside)
  BY <1>2 DEF S!Close, S!Here
<1>3. CASE S!Reload
  BY <1>3 DEF S!Reload, S!Here
<1>4. CASE S!openPanel \/ S!Click \/ S!Arrive \/ S!Clear
  BY <1>4 DEF S!openPanel, S!Click, S!Arrive, S!Clear
<1>5. CASE S!IndexArrives \/ S!Highlight \/ S!Enter \/ (\E q \in Queries : S!Type(q) \/ S!Asked(q))
  BY <1>5 DEF S!IndexArrives, S!Highlight, S!Enter, S!Type, S!Asked
<1>6. QED
  BY <1>1, <1>2, <1>3, <1>4, <1>5 DEF Panel, S!Next

\* So every step keeps it, but for those two.
LEMMA FocusStep ==
  ASSUME FormInv, Next, focus # "body", focus' = "body"
  PROVE  \/ focus = "cancel" /\ state' = "idle"
         \/ open /\ ~open' /\ (mode = "page" \/ opener = "body" \/ opener \notin Outside)
<1>1. CASE Toggle
  BY <1>1 DEF Toggle
<1>2. CASE Wander
  BY <1>2 DEF Wander
<1>3. CASE Panel
  BY <1>3, PanelKeeps
<1>4. CASE F!Mount
  <2>1. state = "unmounted" /\ F!Refocused("idle")
    BY <1>4 DEF F!Mount, F!Becomes
  <2>2. F!Controls(state) = {} /\ F!Regions(state) = {}
    BY <2>1 DEF F!Controls, F!Regions
  <2>3. QED
    BY <2>1, <2>2, Dropping
<1>5. ASSUME NEW c \in F!Controls(state) \cup F!Suggested, F!Focus(c) PROVE FALSE
  <2>1. "body" \notin F!Controls(state) \cup F!Suggested
    BY DEF F!Controls, F!Suggested
  <2>2. QED
    BY <1>5, <2>1 DEF F!Focus
<1>6. CASE F!Press
  BY <1>6, PressKeeps
<1>7. ASSUME NEW t \in Texts, F!Type(t) PROVE FALSE
  BY <1>7 DEF F!Type
<1>8. ASSUME NEW f \in flights, F!Answers(f) \/ F!Lost(f) PROVE FALSE
  <2>1. \E s \in {"queued", "error"} : F!Refocused(s)
    BY <1>8 DEF F!Answers, F!Lost, F!Becomes, F!Fails
  <2>2. QED
    BY <2>1, AnswerTakes
<1>9. ASSUME NEW f \in flights, NEW r \in Replies, F!Serve(f, r) PROVE FALSE
  BY <1>9 DEF F!Serve
<1>10. CASE F!NearestAnswers
  BY <1>10 DEF F!NearestAnswers
<1>11. QED
  BY <1>1, <1>2, <1>3, <1>4, <1>5, <1>6, <1>7, <1>8, <1>9, <1>10 DEF Next, Form, F!Network

-----------------------------------------------------------------------------
\* The search panel.

\* The number of those before it puts an entry in a place of its own, and no
\* place is left out.
LEMMA Placing ==
  ASSUME NEW es, IsFiniteSet(es), NEW value, \A e \in es : value[e] \in Nat,
         \A e \in es : e.title \in Nat,
         \A d, e \in es : d.title = e.title => d = e
  PROVE  /\ Cardinality(es) \in Nat
         /\ \A e \in es : S!Place(e, es, value) \in 1..Cardinality(es)
         /\ \A d, e \in es : S!Before(d, e, value) => S!Place(d, es, value) < S!Place(e, es, value)
         /\ \A k \in 1..Cardinality(es) : \E e \in es : S!Place(e, es, value) = k
<1> DEFINE n == Cardinality(es)
           ahead(e) == {x \in es : S!Before(x, e, value)}
           place(e) == S!Place(e, es, value)
<1>1. n \in Nat
  BY FS_CardinalityType
<1>2. \A d, e \in es : value[d] \in Nat /\ value[e] \in Nat
  OBVIOUS
<1>3. \A e \in es : /\ e \notin ahead(e) /\ ahead(e) \in SUBSET es
                    /\ IsFiniteSet(ahead(e)) /\ Cardinality(ahead(e)) \in Nat
                    /\ Cardinality(ahead(e)) <= n /\ Cardinality(ahead(e)) # n
  <2> SUFFICES ASSUME NEW e \in es
               PROVE  /\ e \notin ahead(e) /\ ahead(e) \in SUBSET es
                      /\ IsFiniteSet(ahead(e)) /\ Cardinality(ahead(e)) \in Nat
                      /\ Cardinality(ahead(e)) <= n /\ Cardinality(ahead(e)) # n
    OBVIOUS
  <2>1. ~S!Before(e, e, value)
    <3>1. value[e] \in Nat /\ e.title \in Nat
      OBVIOUS
    <3>2. QED
      BY <3>1 DEF S!Before
  <2>2. e \notin ahead(e) /\ ahead(e) \in SUBSET es
    BY <2>1
  <2> HIDE DEF ahead
  <2>3. IsFiniteSet(ahead(e)) /\ Cardinality(ahead(e)) <= n /\ (n = Cardinality(ahead(e)) => es = ahead(e))
    BY <2>2, FS_Subset
  <2>4. Cardinality(ahead(e)) \in Nat
    BY <2>3, FS_CardinalityType
  <2>5. QED
    BY <2>2, <2>3, <2>4
<1>4. \A e \in es : place(e) = Cardinality(ahead(e)) + 1
  BY CountsAlike DEF S!Place
<1>5. \A d, e \in es : d # e => S!Before(d, e, value) \/ S!Before(e, d, value)
  BY <1>2 DEF S!Before
<1>6. \A d, e \in es : S!Before(d, e, value) => ahead(d) \subseteq ahead(e)
  <2> SUFFICES ASSUME NEW d \in es, NEW e \in es, S!Before(d, e, value), NEW x \in es, S!Before(x, d, value)
               PROVE  S!Before(x, e, value)
    OBVIOUS
  <2>1. /\ value[d] \in Nat /\ value[e] \in Nat /\ value[x] \in Nat
        /\ d.title \in Nat /\ e.title \in Nat /\ x.title \in Nat
    OBVIOUS
  <2>2. QED
    BY <2>1 DEF S!Before
<1>7. \A d, e \in es : S!Before(d, e, value) => d \in ahead(e)
  OBVIOUS
<1> HIDE DEF ahead, place, n
<1>8. \A d, e \in es : S!Before(d, e, value) => place(d) < place(e)
  <2> SUFFICES ASSUME NEW d \in es, NEW e \in es, S!Before(d, e, value)
               PROVE  place(d) < place(e)
    OBVIOUS
  <2>1. ahead(d) \in SUBSET ahead(e) /\ d \in ahead(e) /\ d \notin ahead(d)
    BY <1>3, <1>6, <1>7
  <2>2. /\ Cardinality(ahead(d)) <= Cardinality(ahead(e))
        /\ Cardinality(ahead(e)) = Cardinality(ahead(d)) => ahead(e) = ahead(d)
    BY <1>3, <2>1, FS_Subset
  <2>3. Cardinality(ahead(e)) # Cardinality(ahead(d))
    BY <2>1, <2>2
  <2>4. QED
    BY <1>3, <1>4, <2>2, <2>3
<1>9. \A e \in es : place(e) \in 1..n
  <2> SUFFICES ASSUME NEW e \in es PROVE place(e) \in 1..n
    OBVIOUS
  <2>1. Cardinality(ahead(e)) \in Nat /\ Cardinality(ahead(e)) <= n /\ Cardinality(ahead(e)) # n
    BY <1>3
  <2>2. QED
    BY <1>1, <1>4, <2>1
<1>10. \A k \in 1..n : \E e \in es : place(e) = k
  <2> DEFINE f == [e \in es |-> place(e)]
  <2>1. \A d, e \in es : place(d) = place(e) => d = e
    <3> SUFFICES ASSUME NEW d \in es, NEW e \in es, d # e PROVE place(d) # place(e)
      OBVIOUS
    <3>1. place(d) < place(e) \/ place(e) < place(d)
      BY <1>5, <1>8
    <3>2. place(d) \in Int /\ place(e) \in Int
      BY <1>9
    <3>3. QED
      BY <3>1, <3>2
  <2>2. f \in Injection(es, 1..n)
    BY <1>9, <2>1 DEF Injection, IsInjective
  <2>3. IsFiniteSet(1..n) /\ Cardinality(1..n) = n
    <3>1. 1 \in Int /\ n \in Int
      BY <1>1
    <3>2. IsFiniteSet(1..n) /\ Cardinality(1..n) = IF 1 > n THEN 0 ELSE n - 1 + 1
      BY <3>1, FS_Interval
    <3>3. QED
      BY <1>1, <3>2
  <2>4. f \in Surjection(es, 1..n)
    <3>1. Cardinality(es) = Cardinality(1..n) <=> f \in Surjection(es, 1..n)
      BY <2>2, <2>3, FS_Injection
    <3>2. QED
      BY <2>3, <3>1 DEF n
  <2>5. QED
    BY <2>4 DEF Surjection
<1>11. QED
  BY <1>1, <1>8, <1>9, <1>10 DEF n, place

\* So a ranking is a sequence of entries by falling value, empty only when there
\* is nothing to rank.
LEMMA Ranking ==
  ASSUME NEW es, IsFiniteSet(es), NEW value, \A e \in es : value[e] \in Nat, NEW limit \in Nat \ {0},
         \A e \in es : e.title \in Nat,
         \A d, e \in es : d.title = e.title => d = e
  PROVE  LET r == S!Ranked(es, value, limit) IN
         /\ r \in Seq(es)
         /\ r = << >> <=> es = {}
         /\ \A i, j \in DOMAIN r : i < j => value[r[i]] >= value[r[j]]
<1> DEFINE n == Cardinality(es)
           m == S!Min({limit, n})
           r == S!Ranked(es, value, limit)
<1>1. /\ n \in Nat
      /\ \A d, e \in es : S!Before(d, e, value) => S!Place(d, es, value) < S!Place(e, es, value)
      /\ \A k \in 1..n : \E e \in es : S!Place(e, es, value) = k
  BY Placing
<1>2. r = [k \in 1..m |-> CHOOSE e \in es : S!Place(e, es, value) = k]
  BY CountsAlike DEF S!Ranked
<1>3. m \in {limit, n} /\ m <= limit /\ m <= n
  <2>1. \E x \in {limit, n} : \A y \in {limit, n} : x <= y
    BY <1>1
  <2>2. QED
    BY <2>1 DEF S!Min
<1>4. n = 0 <=> es = {}
  BY FS_EmptySet
<1> HIDE DEF m, n
<1>5. m \in Nat /\ (m = 0 <=> es = {})
  BY <1>1, <1>3, <1>4
<1>6. \A k \in 1..m : r[k] \in es /\ S!Place(r[k], es, value) = k
  <2> SUFFICES ASSUME NEW k \in 1..m PROVE r[k] \in es /\ S!Place(r[k], es, value) = k
    OBVIOUS
  <2>1. k \in 1..n
    BY <1>1, <1>3, <1>5
  <2>2. \E e \in es : S!Place(e, es, value) = k
    BY <1>1, <2>1
  <2>3. QED
    BY <1>2, <2>2
<1>7. DOMAIN r = 1..m /\ r \in [1..m -> es]
  BY <1>2, <1>6
<1> HIDE DEF r
<1>8. r \in Seq(es) /\ Len(r) = m
  BY <1>5, <1>7
<1>9. r = << >> <=> es = {}
  BY <1>5, <1>8
<1>10. ASSUME NEW i \in 1..m, NEW j \in 1..m, i < j PROVE value[r[i]] >= value[r[j]]
  <2>1. r[i] \in es /\ r[j] \in es /\ S!Place(r[i], es, value) = i /\ S!Place(r[j], es, value) = j
    BY <1>6
  <2>2. ~S!Before(r[j], r[i], value)
    <3>1. S!Before(r[j], r[i], value) => j < i
      BY <1>1, <2>1
    <3>2. i \in Int /\ j \in Int
      OBVIOUS
    <3>3. QED
      BY <1>10, <3>1, <3>2
  <2>3. value[r[i]] \in Nat /\ value[r[j]] \in Nat
    BY <2>1
  <2>4. QED
    BY <2>2, <2>3 DEF S!Before
<1>11. QED
  BY <1>7, <1>8, <1>9, <1>10 DEF r

\* The index is finite, and its entries are told apart by their titles.
LEMMA Index ==
  ASSUME PageAssumption
  PROVE  /\ IsFiniteSet(S!buildIndex)
         /\ \A e \in S!buildIndex : e.title \in Nat
         /\ \A d, e \in S!buildIndex : d.title = e.title => d = e
<1> DEFINE entry(n) == [id |-> n.id, title |-> n.title, starts |-> n.starts, words |-> n.words,
                        inside |-> n.inside, elsewhere |-> n.domain \cup {n.id}]
           f == [n \in Nodes |-> entry(n)]
<1>1. IsFiniteSet(Nodes) /\ \A a, b \in Nodes : a.title \in Nat /\ (a.title = b.title => a = b)
  BY CountsAlike DEF PageAssumption, S!SearchPanelAssumption
<1>2. S!buildIndex = {entry(n) : n \in Nodes}
  BY DEF S!buildIndex
<1>3. \A n \in Nodes : entry(n).title = n.title
  OBVIOUS
<1> HIDE DEF entry
<1>4. f \in Surjection(Nodes, S!buildIndex)
  BY <1>2 DEF Surjection
<1>5. IsFiniteSet(S!buildIndex)
  BY <1>1, <1>4, FS_Surjection
<1>6. \A e \in S!buildIndex : e.title \in Nat
  BY <1>1, <1>2, <1>3
<1>7. \A d, e \in S!buildIndex : d.title = e.title => d = e
  BY <1>1, <1>2, <1>3
<1>8. QED
  BY <1>5, <1>6, <1>7

\* Two sets that share nothing, counted together.
LEMMA Apart ==
  ASSUME NEW A, NEW B, IsFiniteSet(A), IsFiniteSet(B), A \cap B = {}
  PROVE  /\ IsFiniteSet(A \cup B)
         /\ Cardinality(A \cup B) = Cardinality(A) + Cardinality(B)
<1>1. /\ IsFiniteSet(A \cup B)
      /\ Cardinality(A \cup B) = Cardinality(A) + Cardinality(B) - Cardinality(A \cap B)
  BY FS_Union
<1>2. Cardinality(A) \in Nat /\ Cardinality(B) \in Nat /\ Cardinality(A \cap B) = 0
  BY FS_CardinalityType, FS_EmptySet
<1>3. QED
  BY <1>1, <1>2

\* Four parts of a finite set that share nothing are together no more than it.
LEMMA Parts ==
  ASSUME NEW D, IsFiniteSet(D), NEW A \in SUBSET D, NEW B \in SUBSET D, NEW C \in SUBSET D, NEW E \in SUBSET D,
         A \cap B = {}, (A \cup B) \cap C = {}, (A \cup B \cup C) \cap E = {}
  PROVE  /\ Cardinality(A) \in Nat /\ Cardinality(B) \in Nat /\ Cardinality(C) \in Nat /\ Cardinality(E) \in Nat
         /\ Cardinality(D) \in Nat
         /\ Cardinality(A) + Cardinality(B) + Cardinality(C) + Cardinality(E) <= Cardinality(D)
<1> DEFINE T == A \cup B
           U == A \cup B \cup C
           V == A \cup B \cup C \cup E
<1>1. IsFiniteSet(A) /\ IsFiniteSet(B) /\ IsFiniteSet(C) /\ IsFiniteSet(E)
  BY FS_Subset
<1>2. /\ Cardinality(A) \in Nat /\ Cardinality(B) \in Nat /\ Cardinality(C) \in Nat /\ Cardinality(E) \in Nat
      /\ Cardinality(D) \in Nat
  BY <1>1, FS_CardinalityType
<1>3. IsFiniteSet(T) /\ Cardinality(T) = Cardinality(A) + Cardinality(B)
  BY <1>1, Apart
<1>4. IsFiniteSet(U) /\ Cardinality(U) = Cardinality(T) + Cardinality(C)
  BY <1>1, <1>3, Apart
<1>5. Cardinality(V) = Cardinality(U) + Cardinality(E)
  BY <1>1, <1>4, Apart
<1>6. V \in SUBSET D
  OBVIOUS
<1> HIDE DEF T, U, V
<1>7. Cardinality(V) <= Cardinality(D)
  BY <1>6, FS_Subset
<1>8. QED
  BY <1>2, <1>3, <1>4, <1>5, <1>7

\* What the reader may have asked.
Questions == Queries \cup {<< >>}

\* No question is longer than 249 terms.
LEMMA Lengths ==
  ASSUME PageAssumption, NEW q \in Questions
  PROVE  /\ DOMAIN q = 1..Len(q) /\ Len(q) \in Nat /\ Len(q) < 250
         /\ DOMAIN S!Terms(q) \in SUBSET DOMAIN q /\ IsFiniteSet(DOMAIN S!Terms(q))
         /\ S!Count(S!Terms(q)) \in Nat /\ S!Count(S!Terms(q)) < 250
<1>1. DOMAIN q = 1..Len(q) /\ Len(q) \in Nat /\ Len(q) < 250
  <2>1. CASE q \in Queries
    <3>1. q \in Seq(DOMAIN Folded) /\ Len(q) < 250
      BY <2>1 DEF PageAssumption, S!SearchPanelAssumption
    <3>2. QED
      BY <3>1
  <2>2. CASE q = << >>
    BY <2>2
  <2>3. QED
    BY <2>1, <2>2 DEF Questions
<1> DEFINE D == DOMAIN S!Terms(q)
           n == Len(q)
<1>2. D \in SUBSET DOMAIN q
  BY DEF S!Terms
<1>3. IsFiniteSet(1..n) /\ Cardinality(1..n) = n
  <2>1. 1 \in Int /\ n \in Int
    BY <1>1
  <2>2. IsFiniteSet(1..n) /\ Cardinality(1..n) = IF 1 > n THEN 0 ELSE n - 1 + 1
    BY <2>1, FS_Interval
  <2>3. QED
    BY <1>1, <2>2
<1>4. IsFiniteSet(D) /\ Cardinality(D) <= Cardinality(1..n)
  BY <1>1, <1>2, <1>3, FS_Subset
<1>5. Cardinality(D) \in Nat
  BY <1>4, FS_CardinalityType
<1>6. S!Count(S!Terms(q)) = Cardinality(D)
  BY CountsAlike DEF S!Count
<1> HIDE DEF D, n
<1>7. Cardinality(D) < 250
  <2>1. n \in Nat /\ n < 250
    BY <1>1 DEF n
  <2>2. QED
    BY <1>3, <1>4, <1>5, <2>1
<1>8. QED
  BY <1>1, <1>2, <1>4, <1>5, <1>6, <1>7 DEF D

\* Wherever the terms of a question land, together they weigh less than one more
\* term that does.
LEMMA Scoring ==
  ASSUME PageAssumption, NEW q \in Questions, NEW e
  PROVE  S!Matched(e, q) \in Nat /\ S!Total(e, q) \in Nat /\ S!Total(e, q) < S!MATCHED_WEIGHT
<1> DEFINE D == DOMAIN S!Terms(q)
           at(n) == {i \in D : S!scoreTerm(e, S!Terms(q)[i]) = n}
<1>1. IsFiniteSet(D) /\ S!Count(S!Terms(q)) < 250
  BY Lengths
<1>2. S!Count(S!Terms(q)) = Cardinality(D)
  BY CountsAlike DEF S!Count
<1>3. /\ S!Landed(e, q, 4) = Cardinality(at(4)) /\ S!Landed(e, q, 3) = Cardinality(at(3))
      /\ S!Landed(e, q, 2) = Cardinality(at(2)) /\ S!Landed(e, q, 1) = Cardinality(at(1))
  BY CountsAlike DEF S!Landed
<1>4. /\ at(4) \in SUBSET D /\ at(3) \in SUBSET D /\ at(2) \in SUBSET D /\ at(1) \in SUBSET D
      /\ at(4) \cap at(3) = {} /\ (at(4) \cup at(3)) \cap at(2) = {}
      /\ (at(4) \cup at(3) \cup at(2)) \cap at(1) = {}
  OBVIOUS
<1> HIDE DEF at
<1>5. /\ Cardinality(at(4)) \in Nat /\ Cardinality(at(3)) \in Nat
      /\ Cardinality(at(2)) \in Nat /\ Cardinality(at(1)) \in Nat /\ Cardinality(D) \in Nat
      /\ Cardinality(at(4)) + Cardinality(at(3)) + Cardinality(at(2)) + Cardinality(at(1)) <= Cardinality(D)
  BY <1>1, <1>4, Parts
<1>6. S!Total(e, q) \in Nat /\ S!Total(e, q) <= 4 * Cardinality(D)
  BY <1>3, <1>5 DEF S!Total
<1>7. S!Total(e, q) < S!MATCHED_WEIGHT
  <2>1. Cardinality(D) \in Nat /\ Cardinality(D) < 250
    BY <1>1, <1>2, <1>5
  <2>2. QED
    BY <1>6, <2>1 DEF S!MATCHED_WEIGHT
<1>8. S!Matched(e, q) \in Nat
  <2> DEFINE M == {i \in D : S!scoreTerm(e, S!Terms(q)[i]) > 0}
  <2>1. S!Matched(e, q) = Cardinality(M)
    BY CountsAlike DEF S!Matched
  <2>2. M \in SUBSET D
    OBVIOUS
  <2> HIDE DEF M
  <2>3. IsFiniteSet(M)
    BY <1>1, <2>2, FS_Subset
  <2>4. QED
    BY <2>1, <2>3, FS_CardinalityType
<1>9. QED
  BY <1>6, <1>7, <1>8

\* The highlight is at the top until there is an index, and the address is the
\* question of the box.  What the page was reached with is asked, or about to be.
Indexes == {"idle", "loading", "ready", "failed"}
SentInv ==
  /\ pending \subseteq Questions /\ \A p \in pending : sent = {p}
  /\ pending = {} => \A p \in sent : query = p
PanelInv ==
  /\ query \in Questions /\ address \in Questions /\ index \in Indexes /\ cursor \in Nat
  /\ index # "ready" => cursor = 1
  /\ mode = "page" /\ open => address = S!queryUrl(query)
  /\ SentInv
  /\ MarkedIsThere

\* What is found and what is nearest come in order, each an entry of the index.
LEMMA Found ==
  ASSUME PageAssumption, NEW q \in Questions
  PROVE  S!search(S!buildIndex, q) \in Seq(S!buildIndex)
<1> DEFINE es == {e \in S!buildIndex : S!Matched(e, q) = S!Count(S!Terms(q))}
           value == [e \in S!buildIndex |-> S!Total(e, q)]
<1>1. IsFiniteSet(es)
  <2>1. es \in SUBSET S!buildIndex /\ IsFiniteSet(S!buildIndex)
    BY Index
  <2>2. QED
    BY <2>1, FS_Subset
<1>2. \A e \in es : S!Total(e, q) \in Nat
  BY Scoring
<1>3. \A e \in es : value[e] \in Nat
  BY <1>2
<1>4. (\A e \in es : e.title \in Nat) /\ (\A d, e \in es : d.title = e.title => d = e) /\ es \subseteq S!buildIndex
  BY Index
<1>5. Limit \in Nat \ {0}
  BY DEF PageAssumption, S!SearchPanelAssumption
<1>6. S!search(S!buildIndex, q) = IF S!Terms(q) = << >> THEN << >> ELSE S!Ranked(es, value, Limit)
  BY Zenon DEF S!search
<1> HIDE DEF es, value
<1>7. S!Ranked(es, value, Limit) \in Seq(es)
  BY <1>1, <1>3, <1>4, <1>5, Ranking
<1>8. S!Ranked(es, value, Limit) \in Seq(S!buildIndex)
  BY <1>4, <1>7
<1>9. QED
  BY <1>6, <1>8

\* Results are a sequence, so that none of them is the first of none.
LEMMA HitsAre ==
  ASSUME PageAssumption, PanelInv
  PROVE  /\ S!hits \in Seq(S!buildIndex)
         /\ S!hits # << >> => index = "ready" /\ Len(S!hits) \in Nat \ {0} /\ DOMAIN S!hits = 1..Len(S!hits)
<1>1. S!search(S!buildIndex, query) \in Seq(S!buildIndex)
  BY Found DEF PanelInv
<1>2. S!hits = IF index = "ready" THEN S!search(S!buildIndex, query) ELSE << >>
  BY DEF S!hits, S!Shown
<1>3. S!hits \in Seq(S!buildIndex)
  BY <1>1, <1>2
<1>4. S!hits # << >> => index = "ready"
  BY <1>2
<1> DEFINE h == S!hits
<1>5. h \in Seq(S!buildIndex)
  BY <1>3
<1> HIDE DEF h
<1>6. h # << >> => Len(h) \in Nat \ {0} /\ DOMAIN h = 1..Len(h)
  BY <1>5
<1>7. QED
  BY <1>3, <1>4, <1>6 DEF h

\* A highlight at the top is among the results, if there are any.
LEMMA TopIsThere ==
  ASSUME PageAssumption, NEW q \in Questions
  PROVE  S!search(S!buildIndex, q) # << >> => 1 \in DOMAIN S!search(S!buildIndex, q)
<1> DEFINE h == S!search(S!buildIndex, q)
<1>1. h \in Seq(S!buildIndex)
  BY Found
<1> HIDE DEF h
<1>2. h # << >> => 1 \in DOMAIN h
  BY <1>1
<1>3. QED
  BY <1>2 DEF h

\* The address is empty when the box is blank, and the question otherwise.
LEMMA Addresses ==
  ASSUME PageAssumption, NEW q \in Questions
  PROVE  /\ S!queryUrl(q) \in Questions /\ S!queryUrl(<< >>) = << >>
         /\ S!Terms(S!queryUrl(q)) = S!Terms(q)
         /\ S!IsBlank(q) => S!queryUrl(q) = << >>
<1>1. S!IsBlank(<< >>)
  BY DEF S!IsBlank
<1>2. S!queryUrl(q) \in Questions /\ S!queryUrl(<< >>) = << >> /\ (S!IsBlank(q) => S!queryUrl(q) = << >>)
  BY <1>1 DEF S!queryUrl, Questions
<1>3. CASE S!IsBlank(q)
  <2> DEFINE kept(r) == {i \in DOMAIN r : Folded[r[i]] # ""}
  <2>1. Folded[S!Blank] = ""
    BY DEF PageAssumption, S!SearchPanelAssumption
  <2>2. kept(q) = {} /\ kept(<< >>) = {}
    <3>1. \A i \in DOMAIN q : q[i] = S!Blank
      BY <1>3 DEF S!IsBlank
    <3>2. kept(q) = {}
      BY <2>1, <3>1
    <3>3. kept(<< >>) = {}
      OBVIOUS
    <3>4. QED
      BY <3>2, <3>3
  <2>3. S!Terms(q) = [i \in kept(q) |-> Folded[q[i]]] /\ S!Terms(<< >>) = [i \in kept(<< >>) |-> Folded[<< >>[i]]]
    BY DEF S!Terms
  <2> HIDE DEF kept
  <2>4. S!Terms(q) = S!Terms(<< >>)
    BY <2>2, <2>3
  <2>5. QED
    BY <1>2, <1>3, <2>4
<1>4. CASE ~S!IsBlank(q)
  BY <1>2, <1>4 DEF S!queryUrl
<1>5. QED
  BY <1>2, <1>3, <1>4

\* Whether the highlight is there depends on the question and the index only.
Marked(ix, q, c) ==
  ix = "ready" /\ S!search(S!buildIndex, q) # << >> => c \in DOMAIN S!search(S!buildIndex, q)

\* So it is, before a step and after.
LEMMA MarkedIs ==
  /\ MarkedIsThere <=> Marked(index, query, cursor)
  /\ MarkedIsThere' <=> Marked(index', query', cursor')
<1>1. MarkedIsThere <=> Marked(index, query, cursor)
  BY DEF MarkedIsThere, S!MarkedIsThere, S!hits, S!Shown, Marked
<1>2. MarkedIsThere' <=> Marked(index', query', cursor')
  BY DEF MarkedIsThere, S!MarkedIsThere, S!hits, S!Shown, Marked
<1>3. QED
  BY <1>1, <1>2

\* The question the page was reached with is read, asked, and let go of when the
\* reader asks another or comes again.
LEMMA SentStep ==
  ASSUME PageAssumption, SentInv, address \in Questions, Panel \/ UNCHANGED ofPanel
  PROVE  SentInv'
<1>1. CASE UNCHANGED <<query, pending, sent>>
  BY <1>1 DEF SentInv
<1>2. CASE pending' = {} /\ sent' = {}
  BY <1>2 DEF SentInv
<1>3. CASE S!Arrive
  BY <1>3 DEF S!Arrive, SentInv
<1>4. ASSUME NEW q \in Queries, S!Asked(q) PROVE SentInv'
  <2>1. pending' = {} /\ query' = q /\ sent' = sent /\ sent = {q}
    BY <1>4 DEF S!Asked, SentInv
  <2>2. QED
    BY <2>1 DEF SentInv
<1>5. CASE S!openPanel \/ S!Close(Outside) \/ S!Tab \/ S!Click \/ S!IndexArrives \/ S!Highlight \/ S!Enter
  BY <1>1, <1>5 DEF S!openPanel, S!Close, S!Tab, S!Click, S!IndexArrives, S!Highlight, S!Enter, S!panelVars
<1>6. CASE S!Reload \/ S!Clear \/ \E q \in Queries : S!Type(q)
  BY <1>2, <1>6 DEF S!Reload, S!Clear, S!Type
<1>7. CASE UNCHANGED ofPanel
  BY <1>1, <1>7 DEF ofPanel
<1>8. QED
  BY <1>3, <1>4, <1>5, <1>6, <1>7 DEF Panel, S!Next

\* Every step of the page leaves the panel in order.
LEMMA PanelStep ==
  ASSUME PageAssumption, PanelInv, [Next]_all
  PROVE  PanelInv'
<1>0. /\ query \in Questions /\ address \in Questions /\ index \in Indexes /\ cursor \in Nat
      /\ index # "ready" => cursor = 1
      /\ mode = "page" /\ open => address = S!queryUrl(query)
      /\ Marked(index, query, cursor)
      /\ SentInv
  BY MarkedIs DEF PanelInv
<1>d. Panel \/ UNCHANGED ofPanel
  <2>1. [Panel \/ UNCHANGED ofPanel]_all
    BY DEF Next, Form, Wander, Toggle
  <2>2. QED
    BY <2>1 DEF all, ofPanel
<1>e. SentInv' /\ \A q \in pending : q \in Questions
  BY <1>0, <1>d, SentStep DEF SentInv
<1>a. SUFFICES /\ query' \in Questions /\ address' \in Questions /\ index' \in Indexes /\ cursor' \in Nat
               /\ index' # "ready" => cursor' = 1
               /\ mode' = "page" /\ open' => address' = S!queryUrl(query')
               /\ Marked(index', query', cursor')
  <2>1. S!queryUrl(query)' = S!queryUrl(query')
    BY DEF S!queryUrl, S!IsBlank
  <2>2. QED
    BY <1>e, <2>1, MarkedIs DEF PanelInv
<1> DEFINE Goal == /\ query' \in Questions /\ address' \in Questions /\ index' \in Indexes /\ cursor' \in Nat
                   /\ index' # "ready" => cursor' = 1
                   /\ mode' = "page" /\ open' => address' = S!queryUrl(query')
                   /\ Marked(index', query', cursor')
<1>b. \A ix : \A q \in Questions : Marked(ix, q, 1)
  BY TopIsThere DEF Marked
<1>c. /\ \A q \in Questions : S!queryUrl(q) \in Questions
      /\ S!queryUrl(<< >>) = << >> /\ << >> \in Questions /\ Queries \subseteq Questions
  BY Addresses DEF Questions
<1>1. CASE UNCHANGED ofPanel
  BY <1>0, <1>1 DEF ofPanel
<1>2. CASE S!Arrive
  <2>1. index' \in {index, "loading"}
    BY <1>2 DEF S!Arrive, S!load
  <2>2. query' = query /\ cursor' = cursor /\ address' = S!queryUrl(query)
    BY <1>2 DEF S!Arrive
  <2>3. Marked(index', query', cursor')
    BY <1>0, <2>1, <2>2 DEF Marked
  <2>4. index' # "ready" => cursor' = 1
    BY <1>0, <1>2, <2>2 DEF S!Arrive, S!load
  <2>5. QED
    BY <1>0, <1>c, <2>1, <2>2, <2>3, <2>4 DEF Indexes
<1>3. CASE S!Reload
  BY <1>0, <1>3, <1>b, <1>c DEF S!Reload, Indexes
<1>4. CASE S!IndexArrives
  <2>1. index' \in {"ready", "failed"} /\ cursor = 1 /\ UNCHANGED <<mode, open, query, cursor, address>>
    BY <1>0, <1>4 DEF S!IndexArrives
  <2>2. QED
    BY <1>0, <1>b, <2>1 DEF Indexes
<1>5. CASE S!openPanel
  <2>1. /\ index' = IF index = "idle" THEN "loading" ELSE index
        /\ mode = "overlay" /\ UNCHANGED <<mode, query, cursor, address>>
    BY <1>5 DEF S!openPanel, S!load
  <2>2. index' = index \/ (index = "idle" /\ index' = "loading" /\ cursor = 1)
    BY <1>0, <2>1
  <2>3. QED
    BY <1>0, <1>b, <2>1, <2>2 DEF Indexes
<1>6. CASE S!Close(Outside)
  BY <1>0, <1>6 DEF S!Close
<1>7. CASE S!Tab \/ S!Click
  BY <1>0, <1>7 DEF S!Tab, S!Click, S!panelVars
<1>8. CASE S!Clear
  <2>1. query' = << >> /\ cursor' = 1 /\ address' = (IF mode = "page" THEN << >> ELSE address)
        /\ UNCHANGED <<mode, open, index>>
    BY <1>8 DEF S!Clear
  <2>2. QED
    BY <1>0, <1>b, <1>c, <2>1
<1>9. CASE S!Highlight
  <2> DEFINE h == S!hits
             n == Len(S!hits)
  <2>1. index = "ready" /\ n \in Nat \ {0} /\ DOMAIN h = 1..n
    BY <1>9, HitsAre DEF S!Highlight
  <2>2. h = S!search(S!buildIndex, query)
    BY <2>1 DEF S!hits, S!Shown
  <2>3. \/ cursor' \in {(cursor % n) + 1, ((cursor - 2) % n) + 1}
        \/ cursor' \in DOMAIN h
    BY <1>9 DEF S!Highlight
  <2> HIDE DEF n
  <2>4. (cursor % n) + 1 \in 1..n /\ ((cursor - 2) % n) + 1 \in 1..n
    <3>1. cursor \in Int /\ cursor - 2 \in Int /\ n \in Nat \ {0}
      BY <1>0, <2>1
    <3>2. \A k \in Int : k % n \in 0..n - 1
      BY <3>1
    <3>3. cursor % n \in 0..n - 1 /\ (cursor - 2) % n \in 0..n - 1
      BY <3>1, <3>2
    <3>4. QED
      BY <3>1, <3>3
  <2>5. cursor' \in 1..n
    BY <2>1, <2>3, <2>4
  <2>6. UNCHANGED <<mode, open, query, index, address>>
    BY <1>9 DEF S!Highlight
  <2>7. cursor' \in Nat /\ Marked(index', query', cursor')
    BY <2>1, <2>2, <2>5, <2>6 DEF Marked
  <2>8. QED
    BY <1>0, <2>1, <2>6, <2>7
<1>10. CASE S!Enter
  BY <1>0, <1>10 DEF S!Enter
<1>11. ASSUME NEW q \in Queries, S!Type(q) PROVE Goal
  <2>1. query' = q /\ cursor' = 1 /\ address' = (IF mode = "page" THEN S!queryUrl(q) ELSE address)
        /\ UNCHANGED <<mode, open, index>>
    BY <1>11 DEF S!Type
  <2>2. QED
    BY <1>0, <1>b, <1>c, <2>1
<1>12. ASSUME NEW q \in Queries, S!Asked(q) PROVE Goal
  <2>1. q \in Questions /\ query' = q /\ cursor' = 1 /\ address' = S!queryUrl(q) /\ UNCHANGED <<mode, open, index>>
    BY <1>e, <1>12 DEF S!Asked
  <2>2. QED
    BY <1>0, <1>b, <1>c, <2>1
<1>13. QED
  BY <1>d, <1>1, <1>2, <1>3, <1>4, <1>5, <1>6, <1>7, <1>8, <1>9, <1>10, <1>11, <1>12 DEF Panel, S!Next

\* The box is empty, and there is no index.
LEMMA PanelInit ==
  ASSUME PageAssumption, Init
  PROVE  PanelInv
<1>1. query = << >> /\ index = "idle" /\ cursor = 1 /\ open = FALSE /\ address \in Questions
  BY DEF Init, S!Init, Questions
<1>2. Marked(index, query, cursor)
  BY <1>1 DEF Marked
<1>3. SentInv
  BY DEF Init, S!Init, SentInv
<1>4. QED
  BY <1>1, <1>2, <1>3, MarkedIs DEF PanelInv, Questions, Indexes

\* What the address says is what the box asks.
LEMMA AddressAsks ==
  ASSUME PageAssumption, PanelInv
  PROVE  AddressIsTheQuestion
BY Addresses DEF PanelInv, SentInv, AddressIsTheQuestion, S!AddressIsTheQuestion

\* One more term outweighs where all the terms landed, so what answers most of a
\* question comes first.
LEMMA NearestFirst ==
  ASSUME PageAssumption, PanelInv
  PROVE  NearestAnswerMost
<1> DEFINE q == query
           es == {e \in S!buildIndex : S!Matched(e, q) > 0}
           value == [e \in S!buildIndex |-> S!MATCHED_WEIGHT * S!Matched(e, q) + S!Total(e, q)]
           r == S!Ranked(es, value, NearLimit)
<1>1. q \in Questions
  BY DEF PanelInv
<1>2. es \in SUBSET S!buildIndex /\ IsFiniteSet(es)
  <2>1. es \in SUBSET S!buildIndex /\ IsFiniteSet(S!buildIndex)
    BY Index
  <2>2. QED
    BY <2>1, FS_Subset
<1>3. \A e \in S!buildIndex : /\ S!Matched(e, q) \in Nat /\ S!Total(e, q) \in Nat /\ S!Total(e, q) < 1000
                              /\ value[e] = 1000 * S!Matched(e, q) + S!Total(e, q)
  BY <1>1, Scoring DEF S!MATCHED_WEIGHT
<1>4. (\A e \in es : e.title \in Nat) /\ (\A d, e \in es : d.title = e.title => d = e)
  BY Index
<1>5. NearLimit \in Nat \ {0}
  BY DEF PageAssumption, S!SearchPanelAssumption
<1>6. /\ S!near = IF index = "ready" /\ S!hits = << >>
                  THEN IF S!Count(S!Terms(q)) < 2 THEN << >> ELSE r
                  ELSE << >>
  BY Zenon DEF S!near, S!suggest
<1>7. es = {} <=> \A e \in S!buildIndex : S!Matched(e, q) = 0
  BY <1>3
<1> HIDE DEF es, value, q, r
<1>8. \A e \in es : value[e] \in Nat
  BY <1>2, <1>3
<1>9. /\ r \in Seq(es)
      /\ r = << >> <=> es = {}
      /\ \A i, j \in DOMAIN r : i < j => value[r[i]] >= value[r[j]]
  BY <1>2, <1>4, <1>5, <1>8, Ranking DEF r
<1>10. ASSUME NEW i \in DOMAIN r, NEW j \in DOMAIN r, i < j
       PROVE  S!Matched(r[i], q) >= S!Matched(r[j], q)
  <2>1. r[i] \in S!buildIndex /\ r[j] \in S!buildIndex
    BY <1>2, <1>9
  <2>2. value[r[i]] >= value[r[j]]
    BY <1>9, <1>10
  <2>3. /\ S!Matched(r[i], q) \in Nat /\ S!Total(r[i], q) \in Nat /\ S!Total(r[i], q) < 1000
        /\ value[r[i]] = 1000 * S!Matched(r[i], q) + S!Total(r[i], q)
    BY <1>3, <2>1
  <2>4. /\ S!Matched(r[j], q) \in Nat /\ S!Total(r[j], q) \in Nat /\ S!Total(r[j], q) < 1000
        /\ value[r[j]] = 1000 * S!Matched(r[j], q) + S!Total(r[j], q)
    BY <1>3, <2>1
  <2>5. QED
    BY <2>2, <2>3, <2>4
<1>11. S!Count(S!Terms(q)) \in Nat
  BY <1>1, Lengths
<1>12. S!hits # << >> => S!near = << >>
  BY <1>6
<1>13. \A i, j \in DOMAIN S!near : i < j => S!Matched(S!near[i], q) >= S!Matched(S!near[j], q)
  <2>1. CASE S!near = r
    BY <1>10, <2>1
  <2>2. CASE S!near = << >>
    BY <2>2
  <2>3. QED
    BY <1>6, <2>1, <2>2
<1>14. index = "ready" /\ S!hits = << >> /\ S!Count(S!Terms(q)) > 1 =>
         (S!near = << >> <=> \A e \in S!buildIndex : S!Matched(e, q) = 0)
  <2>1. ASSUME index = "ready", S!hits = << >>, S!Count(S!Terms(q)) > 1
        PROVE  S!near = << >> <=> \A e \in S!buildIndex : S!Matched(e, q) = 0
    <3>1. ~(S!Count(S!Terms(q)) < 2)
      BY <1>11, <2>1
    <3>2. S!near = r
      BY <1>6, <2>1, <3>1
    <3>3. QED
      BY <1>7, <1>9, <3>2
  <2>2. QED
    BY <2>1
<1>15. QED
  BY <1>12, <1>13, <1>14 DEF q, NearestAnswerMost, S!NearestAnswerMost

-----------------------------------------------------------------------------

IInv == ToggleInv /\ FormInv /\ PanelInv

\* Toggle, forms and panel are in order at the start and after any step.
THEOREM Invariance == Spec => []IInv
<1>1. Init => IInv
  BY PageAssumption, ToggleInit, FormInit, PanelInit DEF IInv
<1>2. IInv /\ [Next]_all => IInv'
  BY PageAssumption, ToggleStep, FormStep, PanelStep DEF IInv
<1>3. QED
  BY <1>1, <1>2, PTL DEF Spec

\* The confirmation is about an entry that is in the queue, and none is there
\* twice that the reader was not told had failed (submit.ts, ReviewActions.tsx).
THEOREM WordsAreTrue == Spec => []AnswersTellTheQueue
<1>1. IInv => AnswersTellTheQueue
  BY WhatIsTold DEF IInv
<1>2. QED
  BY <1>1, Invariance, PTL

\* The highlight is always on a result that is there (SearchPanel.tsx).
THEOREM HighlightIsThere == Spec => []MarkedIsThere
<1>1. IInv => MarkedIsThere
  BY DEF IInv, PanelInv
<1>2. QED
  BY <1>1, Invariance, PTL

\* On /search the address asks what the box asks (SearchPanel.tsx).
THEOREM AddressIsKept == Spec => []AddressIsTheQuestion
<1>1. IInv => AddressIsTheQuestion
  BY PageAssumption, AddressAsks DEF IInv
<1>2. QED
  BY <1>1, Invariance, PTL

\* For an index of any size and any question of fewer than 250 terms, what is
\* offered comes by how much of it it answers (search.ts).
THEOREM NearestIsOffered == Spec => []NearestAnswerMost
<1>1. IInv => NearestAnswerMost
  BY PageAssumption, NearestFirst DEF IInv
<1>2. QED
  BY <1>1, Invariance, PTL

\* The address of an open page reopens it at its depth, in any number of tabs
\* (DepthToggle.tsx, depth.ts).
THEOREM AddressKeepsDepth == Spec => []AddressReopens
<1>1. IInv => AddressReopens
  BY DEF IInv, ToggleInv
<1>2. QED
  BY <1>1, Invariance, PTL

\* A plain link opens at the depth that was adopted last, in any tab.
THEOREM PreferenceIsFollowed == Spec => PreferenceFollows
<1> DEFINE A == \A t \in Tabs : R!Open(t, "none") =>
                  depth'[t] = (IF adopted = "none" THEN R!DEFAULT ELSE adopted)
<1>1. IInv /\ [Next]_all => [A]_(R!vars)
  <2>1. ASSUME IInv PROVE A
    BY PageAssumption, <2>1, PlainLink DEF IInv
  <2>2. QED
    BY <2>1
<1>2. Spec => [][A]_(R!vars)
  BY <1>1, Invariance, PTL DEF Spec
<1>3. QED
  BY <1>2 DEF PreferenceFollows, R!PreferenceFollows

\* Focus falls to the body only with a form the reader cancels or a search whose
\* opener has gone, whatever answers arrive under it (LiveRegion.tsx, SearchPanel.tsx).
THEOREM FocusIsKept == Spec => FocusNeverDropped
<1> DEFINE A == focus # "body" /\ focus' = "body" =>
                  \/ focus = "cancel" /\ state' = "idle"
                  \/ open /\ ~open' /\ (mode = "page" \/ opener = "body" \/ opener \notin Outside)
<1>1. IInv /\ [Next]_all => [A]_all
  BY FocusStep DEF IInv
<1>2. Spec => [][A]_all
  BY <1>1, Invariance, PTL DEF Spec
<1>3. QED
  BY <1>2 DEF FocusNeverDropped
=============================================================================
