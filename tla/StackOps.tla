------------------------------ MODULE StackOps ------------------------------
(***************************************************************************)
(* The operations of a hypothesis stack on its collection (Stack.cu).      *)
(*                                                                         *)
(* A hypothesis is a record with at least the fields key, what             *)
(* HypothesisRecombinationOrderer compares (coverage and feature state),   *)
(* and score, what getFutureScore returns.  m_coll is a vector that is     *)
(* sorted by key and holds a key once; it is modelled as a set.  Which of  *)
(* the hypotheses of equal score prune keeps depends on the order of their *)
(* keys and on where its binary search lands, so prune is modelled as the  *)
(* set of the outcomes that are left open.                                 *)
(***************************************************************************)
EXTENDS Integers, FiniteSets, FiniteSetsExt

CONSTANT StackSize                \* [stack], options.search.stack_size

ASSUME StackSizeType == StackSize \in Nat

\* m_tolerance, also the capacity that the constructor reserves for m_coll.
Tolerance == StackSize * 2

\* Stack::prune keeps stack_size hypotheses that no dropped one outscores.
Prune(coll) ==
  IF Cardinality(coll) < StackSize
  THEN {coll}
  ELSE {kept \in kSubset(StackSize, coll) :
          \A h \in kept, g \in coll \ kept : h.score >= g.score}

\* Mutant: room is made one hypothesis too late.
MakeRoomLate(coll) ==
  IF Cardinality(coll) > Tolerance THEN Prune(coll) ELSE {coll}

MakeRoom(coll) ==
  IF Cardinality(coll) >= Tolerance THEN Prune(coll) ELSE {coll}

Same(coll, hypo) == {g \in coll : g.key = hypo.key}

\* Mutant: recombination keeps whichever hypothesis came last.
RecombineLast(coll, hypo) == (coll \ Same(coll, hypo)) \union {hypo}

\* The hypothesis with the same key survives unless the new one is better.
Recombine(coll, hypo) ==
  IF \E g \in Same(coll, hypo) : hypo.score <= g.score
  THEN coll
  ELSE (coll \ Same(coll, hypo)) \union {hypo}

\* Stack::add: prune first, so that the search for the key sees what is left.
Add(coll, hypo) == {Recombine(room, hypo) : room \in MakeRoom(coll)}

=============================================================================
