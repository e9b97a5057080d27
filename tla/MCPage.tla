------------------------------- MODULE MCPage -------------------------------
(***************************************************************************)
(* One page with each form, and /search; an index of three concepts and    *)
(* questions of one, three and no words.                                   *)
(***************************************************************************)
EXTENDS Page

MCPages == {[form |-> "review", context |-> "page", slug |-> "none"],
            [form |-> "request", context |-> "concept", slug |-> "none"],
            [form |-> "notFound", context |-> "foreign", slug |-> "rope"]}

MCReplies == {[status |-> 202, retryAfter |-> 0, says |-> "none"],
              [status |-> 400, retryAfter |-> 0, says |-> "why"],
              [status |-> 500, retryAfter |-> 0, says |-> "none"]}

MCNodes == {[id |-> "attention", title |-> 1, starts |-> {"atten"}, words |-> {}, inside |-> {}, domain |-> {"text"}],
            [id |-> "flash", title |-> 2, starts |-> {}, words |-> {"atten"}, inside |-> {}, domain |-> {"kernels"}],
            [id |-> "norm", title |-> 3, starts |-> {}, words |-> {}, inside |-> {"rm"}, domain |-> {"core", "kernels"}]}

MCFolded == "Atten" :> "atten" @@ "rm" :> "rm" @@ "core" :> "core" @@ "kernels" :> "kernels"
              @@ "zwsp" :> "" @@ " " :> ""

MCQueries == {<<>>, <<" ">>, <<"Atten">>, <<"rm">>, <<"Atten", "core", "kernels">>}
=============================================================================
