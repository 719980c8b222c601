------------------------------ MODULE MCSearch ------------------------------
(***************************************************************************)
(* Sentences with small phrase tables; and, before the search begins, one  *)
(* chain of hypotheses over the spans in Paths.                            *)
(***************************************************************************)
EXTENDS Search, Derivation

Span(s, e) == [startPos |-> s, endPos |-> e]

\* The phrase table: the scores of the target phrases of each span it has.
Table(r, entries) ==
  LET found == {x \in entries : x[1] = r}
  IN  IF found = {} THEN <<>> ELSE (CHOOSE x \in found : TRUE)[2]

Phrase(n) == [score |-> n]

\* Every word has a phrase, two of the longer spans have one.
BeamTable ==
  LET entries == {<<Span(0, 0), <<Phrase(3), Phrase(1)>>>>,
                  <<Span(1, 1), <<Phrase(2)>>>>,
                  <<Span(2, 2), <<Phrase(3)>>>>,
                  <<Span(3, 3), <<Phrase(1)>>>>,
                  <<Span(1, 2), <<Phrase(4)>>>>,
                  <<Span(2, 3), <<Phrase(6)>>>>}
  IN  [r \in Spans |-> Table(r, entries)]

\* The table lacks the last word.
UnknownTable ==
  [r \in Spans |-> IF r = Span(0, 0) THEN <<Phrase(1)>> ELSE <<>>]

\* The language model gives one of two scores and one of two states.
TwoOutcomes == {[score |-> 0, state |-> "a"], [score |-> 2, state |-> "b"]}

NoLanguageModel == {[score |-> 0, state |-> "none"]}

\* Pairs of words, from the first one of s to the second one of e.
Pairs(s, e) == Span(2 * s, 2 * e + 1)

\* Two ways to translate the first two pairs, that end apart: the second one is
\* better in the end, where reordering is rewarded, but not at first.
ExactTable ==
  LET entries == {<<Pairs(0, 0), <<Phrase(1), Phrase(2)>>>>,
                  <<Pairs(1, 1), <<Phrase(1)>>>>,
                  <<Pairs(2, 2), <<Phrase(3)>>>>,
                  <<Pairs(3, 3), <<Phrase(1)>>>>,
                  <<Pairs(0, 1), <<Phrase(10)>>>>,
                  <<Pairs(1, 2), <<Phrase(5)>>>>,
                  <<Pairs(4, 4), <<Phrase(2)>>>>,
                  <<Pairs(2, 3), <<Phrase(6)>>>>,
                  <<Pairs(3, 4), <<Phrase(6)>>>>}
  IN  [r \in Spans |-> Table(r, entries)]

RewardReordering == -1

NoSpans == {}

-----------------------------------------------------------------------------
(* The chain and the search have nothing to do with each other: the search *)
(* goes on only if the chain has not begun.                                *)

MCInit == Init /\ DerivationInit

SearchStep == range = InitRange /\ Next /\ UNCHANGED derivationVars

ChainStep == phase = "first" /\ DerivationNext /\ UNCHANGED vars

MCVars == <<vars, derivationVars>>

MCSpec == MCInit /\ [][SearchStep \/ ChainStep]_MCVars /\ WF_MCVars(SearchStep)

-----------------------------------------------------------------------------
(* The reference for the search: every way to translate the sentence. *)

Dist(prevEnd, start) ==
  LET d == start - prevEnd - 1 IN IF d < 0 THEN -d ELSE d

\* A jump is no longer than the limit, and leaves one no longer than the limit
\* to the leftmost word that is left.
Options(covered, prevEnd) ==
  LET gap == Min(Positions \ covered)
  IN  {r \in Spans :
         /\ Words(r) \intersect covered = {}
         /\ Dist(prevEnd, r.startPos) <= MaxDistortion
         /\ r.startPos # gap => Dist(r.endPos, gap) <= MaxDistortion}

\* The scores of all the ways to translate the words that are not covered.
RECURSIVE Completions(_, _)
Completions(covered, prevEnd) ==
  IF covered = Positions
  THEN {0}
  ELSE UNION {
         {TargetPhrases[r][i].score
            - DistortionWeight * Dist(prevEnd, r.startPos) + rest :
              i \in DOMAIN TargetPhrases[r],
              rest \in Completions(covered \union Words(r), r.endPos)} :
         r \in Options(covered, prevEnd)}

(***************************************************************************)
(* With room in the stacks and no language model the search is exact:      *)
(* recombination (Hypothesis.cu:64-75, Stack.cu:60-80) drops no hypothesis *)
(* that the best translation needs, and the order in which the blocks add  *)
(* theirs does not change the score of the answer.                         *)
(***************************************************************************)
Optimal ==
  phase = "done" => \A h \in best : h.score = Max(Completions({}, -1))

=============================================================================
