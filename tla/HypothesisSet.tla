--------------------------- MODULE HypothesisSet ----------------------------
(***************************************************************************)
(* A hypothesis stack as the other modules take it: a set, that recombines *)
(* one hypothesis at a time and is pruned now and then.                    *)
(***************************************************************************)
EXTENDS StackOps

CONSTANT Hypotheses               \* the candidates: records with key and score

VARIABLE coll                     \* the hypotheses the stack holds

Init == coll = {}

Next ==
  \/ \E h \in Hypotheses : coll' = Recombine(coll, h)
  \/ coll' \in Prune(coll)

Spec == Init /\ [][Next]_coll

=============================================================================
