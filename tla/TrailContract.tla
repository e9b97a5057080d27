---------------------------- MODULE TrailContract ----------------------------
(***************************************************************************)
(* What the reader is promised of the trail, stated apart from tabs that   *)
(* read and write back, islands and markers: one list, changed in one step *)
(* at a time, by a tab that records the stop it shows, by a repair that    *)
(* takes out dead stops, or by walking the shared trail on screen.  In a   *)
(* browser that does not lock storage a tab makes its change to the list   *)
(* it read, and what was written since is lost.                            *)
(***************************************************************************)
EXTENDS Naturals, Sequences

CONSTANT Tabs

VARIABLES
  trail,
  gone,    \* the concepts that are no longer published
  shown,   \* shown[t]: the stop tab t is on, at most one
  offered, \* offered[t]: the shared trail on t's screen, <<>> if none
  read,    \* read[t]: the trail t has read and is to write back, at most one
  browser  \* [locking, limit]: the lock, the longest trail

trailVars == <<trail, gone, shown, offered, read, browser>>

Places(list, ids) == {p \in DOMAIN list : list[p].id \in ids}

\* What is left of a list without some of its places, in the order it was in.
Thinned(list, out, left) ==
  \E at \in [DOMAIN left -> DOMAIN list \ out] :
    /\ \A j, k \in DOMAIN left : j < k => at[j] < at[k]
    /\ \A p \in DOMAIN list \ out : \E k \in DOMAIN left : at[k] = p
    /\ \A k \in DOMAIN left : left[k] = list[at[k]]

\* The stop being read takes its depth where it stands; any other comes to the
\* end, from wherever it stood, and the oldest make room only if there is none.
Recorded(list, stop, new) ==
  IF list # <<>> /\ list[Len(list)].id = stop.id
  THEN new = [list EXCEPT ![Len(list)] = stop]
  ELSE /\ new # <<>> /\ new[Len(new)] = stop /\ Len(new) <= browser.limit
       /\ \E n \in 0..Len(list) :
            /\ n > 0 => Len(new) = browser.limit
            /\ Thinned(list, (1..n) \cup Places(list, {stop.id}), SubSeq(new, 1, Len(new) - 1))

TrailInit ==
  /\ trail = <<>> /\ gone = {}
  /\ shown = [t \in Tabs |-> {}] /\ offered = [t \in Tabs |-> <<>>]
  /\ read = [t \in Tabs |-> {}]

\* t writes back the trail it read, which under the lock is the trail.
Writes(t) ==
  /\ browser.locking => read[t] \subseteq {trail}
  /\ read' = [read EXCEPT ![t] = {}]
  /\ UNCHANGED <<gone, shown, offered, browser>>

Record(t) == Writes(t) /\ \E list \in read[t], stop \in shown[t] : Recorded(list, stop, trail')

Repair(t) ==
  /\ Writes(t)
  /\ \E list \in read[t], ids \in SUBSET gone : Thinned(list, Places(list, ids), trail')

Adopt(t) ==
  /\ offered[t] # <<>>
  /\ \E n \in 0..Len(offered[t]) :
       trail' = SubSeq(offered[t], n + 1, Len(offered[t])) /\ (n > 0 => Len(trail') = browser.limit)
  /\ Len(trail') <= browser.limit
  /\ offered' = [offered EXCEPT ![t] = <<>>] /\ \A u \in Tabs \ {t} : shown'[u] = shown[u]
  /\ UNCHANGED <<gone, read, browser>>

\* Tabs come and go, read the trail, and depths are chosen, concepts taken out.
Elsewhere ==
  /\ gone \subseteq gone'
  /\ \A t \in Tabs : read'[t] = read[t] \/ (read[t] = {} /\ read'[t] = {trail})
  /\ UNCHANGED <<trail, browser>>

TrailNext == Elsewhere \/ \E t \in Tabs : Record(t) \/ Repair(t) \/ Adopt(t)

TrailSpec == TrailInit /\ [][TrailNext]_trailVars
=============================================================================
