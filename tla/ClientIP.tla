------------------------------ MODULE ClientIP ------------------------------
(***************************************************************************)
(* Which address the per-client limiters key on.  A request collects its   *)
(* X-Forwarded-For chain on the way in: the caller may send one of its     *)
(* own, and every hop appends the peer it received from.  ClientIP then    *)
(* counts from the right, past the entries that are infrastructure.        *)
(***************************************************************************)
EXTENDS Naturals, Sequences, SequencesExt, FiniteSets

CONSTANTS
  Callers,   \* addresses of callers
  Edges,     \* addresses of the proxies in front of Cloud Run
  Empty,     \* an empty entry: two commas with nothing between them
  Hops,      \* TrustedProxyHops
  MaxForged  \* bound: entries a caller sends of its own

ASSUME ClientIPAssumption ==
  /\ Hops \in Nat
  /\ MaxForged \in Nat
  /\ Callers \cap Edges = {} /\ Empty \notin Callers \cup Edges

Addresses == Callers \cup Edges \cup {Empty}

-----------------------------------------------------------------------------
Named(parts, from) == {i \in 1..from : parts[i] # Empty}

MaxOf(S) == CHOOSE i \in S : \A j \in S : j <= i
MinOf(S) == CHOOSE i \in S : \A j \in S : i <= j

\* (Mutation: one hop more than there is, so that the caller chooses its key.)
StartTooFar(parts) == IF Len(parts) > Hops THEN Len(parts) - Hops - 1 ELSE 0

\* (Mutation: the last entry, whatever the number of proxies.)
StartAtLast(parts) == Len(parts)

\* The index the right-to-left walk starts from: len(parts) - hops.
Start(parts) == IF Len(parts) > Hops THEN Len(parts) - Hops ELSE 0

\* The nearest named entry at or left of the start; if the chain is shorter
\* than the hops, the leftmost named one; with none at all, RemoteAddr, which
\* behind Cloud Run is the sandbox and stands here as Empty.
Pick(parts) ==
  LET left == Named(parts, Start(parts))
      all  == Named(parts, Len(parts))
  IN  IF left # {} THEN parts[MaxOf(left)]
      ELSE IF all # {} THEN parts[MinOf(all)] ELSE Empty

-----------------------------------------------------------------------------
\* The chains a request of caller c may arrive with: through Hosting, whatever
\* header it sent itself, each of the proxies having appended the peer it heard
\* from, perhaps after a stray comma; or straight to Cloud Run with no header.
Forged == SeqOf(Callers \cup {Empty}, MaxForged)
Peers == [1..Hops -> Edges]
Proxied == Peers \cup {<<Empty>> \o peers : peers \in Peers}

Arrivals(c) == {f \o <<c>> \o p : f \in Forged, p \in Proxied} \cup {<<c>>}
=============================================================================
