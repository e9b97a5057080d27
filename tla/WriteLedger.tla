---------------------------- MODULE WriteLedger ----------------------------
(***************************************************************************)
(* What the API's write path promises whoever pays for it, stated apart    *)
(* from how it is done: a day hands out at most Cap slots, nobody is       *)
(* handed a second one, and nothing is stored without one.  A slot may be  *)
(* handed out and never used; that is the direction the budget errs in.    *)
(***************************************************************************)
EXTENDS Naturals, FiniteSets

CONSTANTS Posts,   \* the POST requests that may arrive
          Days,    \* the UTC days
          Cap      \* dailyCap

VARIABLES granted, \* granted[d]: the posts that were handed one of day d's slots
          stored   \* the posts whose document reached Firestore

ledgerVars == <<granted, stored>>

LedgerInit ==
  /\ granted = [d \in Days |-> {}]
  /\ stored = {}

Grant(p, d) ==
  /\ \A e \in Days : p \notin granted[e]
  /\ Cardinality(granted[d]) < Cap
  /\ granted' = [granted EXCEPT ![d] = @ \cup {p}]
  /\ UNCHANGED stored

Store(p) ==
  /\ \E d \in Days : p \in granted[d]
  /\ stored' = stored \cup {p}
  /\ UNCHANGED granted

LedgerNext == \E p \in Posts : Store(p) \/ \E d \in Days : Grant(p, d)

LedgerSpec == LedgerInit /\ [][LedgerNext]_ledgerVars
=============================================================================
