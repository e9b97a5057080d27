--------------------------- MODULE MCVideoFinder ---------------------------
(***************************************************************************)
(* A corpus of three concepts in two domains: two with neighbours, so with *)
(* a wider query to fall back to, and one whose only edge names no node.   *)
(***************************************************************************)
EXTENDS VideoFinder, TLC

Corpus == <<[id |-> "depths", domain |-> {"moe"}, edges |-> <<"experts">>],
            [id |-> "experts", domain |-> {"moe"}, edges |-> <<"depths">>],
            [id |-> "ablation", domain |-> {"core"}, edges |-> <<"planned">>]>>

Titles == "depths" :> {"mixture", "of", "depths"} @@ "experts" :> {"mixture", "of", "experts"}
            @@ "ablation" :> {"ablation"} @@ "moe" :> {"moe"} @@ "core" :> {"core"}

Video(title, channel, length, views) ==
  [title |-> title, channel |-> channel, named |-> FALSE, length |-> length, views |-> views]

Whole   == Video({"mixture", "of", "depths"}, "other", "teachable", 600)
Sibling == Video({"of"}, "listed", "teachable", 24000000)
Farmed  == Video({"mixture", "of", "depths", "experts"}, "other", "teachable", 499)
Clip    == Video({"mixture", "ablated"}, "other", "short", 3)
Vlog    == Video({"vlog"}, "listed", "teachable", 24000000)

MCAnswers == {{}, {Whole, Sibling, Farmed, Clip, Vlog}}
=============================================================================
