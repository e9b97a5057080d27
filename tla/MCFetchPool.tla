---------------------------- MODULE MCFetchPool ----------------------------
(***************************************************************************)
(* TLC instances of FetchPool.  One tick is five seconds.  A host fetched  *)
(* in parallel, whose robots.txt names a delay for somebody else; arXiv,   *)
(* which states fifteen seconds for all; and YouTube.                      *)
(***************************************************************************)
EXTENDS FetchPool, TLC

Line(field, agent, seconds) == [field |-> field, agent |-> agent, seconds |-> seconds]

MCRobots ==
  "pages" :> <<Line("user-agent", "semrush", 0), Line("crawl-delay", None, 1),
               Line("user-agent", "*", 0), Line("disallow", None, 0)>>
  @@ "arxiv.org" :> <<Line("user-agent", "bing", 0), Line("user-agent", "*", 0), Line("crawl-delay", None, 3)>>
  @@ "youtube.com" :> <<>>

At(host, video, names) == [host |-> host, https |-> TRUE, video |-> video, names |-> names]

MCUrl == "p1" :> At("pages", None, {}) @@ "p2" :> At("pages", None, {}) @@ "v1" :> At("youtube.com", "id", {})
         @@ "a1" :> At("arxiv.org", None, {"arxiv.org", "1706"})
         @@ "a2" :> At("arxiv.org", None, {"arxiv.org", "2205"})

MCRef == "arXiv:1706" :> [form |-> "arXiv", id |-> "1706", dated |-> TRUE]
         @@ "arXiv:2205" :> [form |-> "arXiv", id |-> "2205", dated |-> TRUE]
         @@ "a book" :> [form |-> "other", id |-> None, dated |-> TRUE]

MCHosts == "read" :> {"pages", "arxiv.org"} @@ "video" :> {"youtube.com"}

MCPage == "p1" :> "right" @@ "p2" :> "gone" @@ "v1" :> "right" @@ "a1" :> "right" @@ "a2" :> "wrong"

MCHeaders == {[form |-> "none", n |-> 0], [form |-> "date", n |-> -2]}
MCBackoff == <<1, 3>>

Read(u, title) == [node |-> u, url |-> u, kind |-> "read", scope |-> "domain", title |-> title, author |-> "A"]
Video(u) == [node |-> u, url |-> u, kind |-> "video", scope |-> "concept", title |-> "T", author |-> "B"]
Cites(u, ref) == [node |-> "n", url |-> u, ref |-> ref]

Run(checker, mode, key, corpus) == [checker |-> checker, mode |-> mode, key |-> key, corpus |-> corpus]

Pages == <<Read("p1", "T"), Read("p2", "T"), Read("p1", "T")>>
Watch == <<Video("v1"), Read("a1", "T")>>
Papers == <<Cites("a1", "arXiv:1706"), Cites("a2", "arXiv:2205"), Cites("p1", "a book"), Cites("a1", "arXiv:1706")>>
Misread == <<Cites("a1", "arXiv:2205")>>

MCRuns ==
  {Run("explainers", mode, FALSE, Pages) : mode \in {"full", "offline"}}
  \cup {Run("explainers", "full", key, Watch) : key \in BOOLEAN}
  \cup {Run("explainers", "fast", FALSE, Watch), Run("explainers", "full", FALSE, <<>>),
        Run("explainers", "full", FALSE, <<Read("p1", "T"), Read("p1", "U")>>)}
  \cup {Run("citations", mode, FALSE, Papers) : mode \in {"full", "fast", "offline"}}
  \cup {Run("citations", mode, FALSE, Misread) : mode \in {"full", "offline"}}

AllMisread == {Run("citations", "fast", FALSE, Misread)}
=============================================================================
