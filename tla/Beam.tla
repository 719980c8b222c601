-------------------------------- MODULE Beam --------------------------------
(***************************************************************************)
(* What a hypothesis stack promises to the search, without its lock, its   *)
(* threads, its tolerance or its memory.  Hypotheses are offered one at a  *)
(* time in any order; whatever the order, the stack keeps a beam of those  *)
(* offered so far: at most one for each recombination key, no more than    *)
(* its capacity, and none dropped without cause.                           *)
(***************************************************************************)
EXTENDS Integers, FiniteSets

CONSTANTS Hypotheses,             \* the candidates: records with key and score
          StackSize

VARIABLES offered,                \* the hypotheses offered so far
          kept                    \* the hypotheses the stack holds

vars == <<offered, kept>>

\* What justifies that h is not kept: an equivalent hypothesis at least as
\* good is, or a full stack of hypotheses at least as good.
Accounted(coll, h) ==
  \/ \E g \in coll : g.key = h.key /\ g.score >= h.score
  \/ Cardinality({g \in coll : g.score >= h.score}) >= StackSize

IsBeam(coll, candidates) ==
  /\ coll \subseteq candidates
  /\ Cardinality(coll) <= 2 * StackSize
  /\ \A g, h \in coll : g.key = h.key => g = h
  /\ \A h \in candidates : Accounted(coll, h)

Init ==
  /\ offered = {}
  /\ kept = {}

\* A dropped hypothesis is never taken back: its memory is freed.
Offer(h) ==
  /\ h \notin offered
  /\ offered' = offered \union {h}
  /\ kept' \in SUBSET (kept \union {h})
  /\ IsBeam(kept', offered')

Cut ==
  /\ kept' \in SUBSET kept
  /\ Cardinality(kept') <= StackSize
  /\ IsBeam(kept', offered)
  /\ UNCHANGED offered

Next == Cut \/ \E h \in Hypotheses : Offer(h)

Spec == Init /\ [][Next]_vars

=============================================================================
