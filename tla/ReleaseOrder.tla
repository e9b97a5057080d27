----------------------------- MODULE ReleaseOrder -----------------------------
(***************************************************************************)
(* What the pipeline promises of the three systems it cannot change        *)
(* together, stated apart from runs, steps, writes and failures: each only *)
(* moves forward, the store to a commit that was merged, the API to what   *)
(* is stored, the site to what the API serves.                             *)
(***************************************************************************)
EXTENDS Naturals

VARIABLES
  head,      \* the newest merge
  published, \* the commit that was last stored to the end
  api,
  site

releaseVars == <<head, published, api, site>>

ReleaseInit == head = 0 /\ published = 0 /\ api = 0 /\ site = 0

Merged == head' = head + 1 /\ UNCHANGED <<published, api, site>>

Stored == published' \in published..head /\ published' # 0 /\ UNCHANGED <<head, api, site>>

Shipped == api' = published /\ UNCHANGED <<head, published, site>>

Shown == site' = api /\ UNCHANGED <<head, published, api>>

ReleaseSpec == ReleaseInit /\ [][Merged \/ Stored \/ Shipped \/ Shown]_releaseVars
=============================================================================
