---------------------------- MODULE Translation -----------------------------
(***************************************************************************)
(* From the lines of a phrase table to the text that is printed: the words *)
(* of the table and of the sentences become identifiers (PhraseTable), a   *)
(* chain of hypotheses has target phrases that were found for its spans,   *)
(* and the host turns the identifiers that come out of the device          *)
(* (TargetSide) back into words, with the vocabulary that it has by then   *)
(* (Manager.cu, MyVocab.cpp).                                              *)
(*                                                                         *)
(* Which chain is best is not decided here: any that covers the sentence   *)
(* may be (module Search).                                                 *)
(***************************************************************************)
EXTENDS PhraseTable

CONSTANTS Capacity, NoWord, SizeT

\* 100, 2^64 and 123456789.
ASSUME SizesAssumption ==
  /\ Capacity \in Nat /\ SizeT \in Nat /\ Capacity < SizeT
  /\ NoWord \in Nat /\ IsFiniteSet(Words) /\ Cardinality(Words) <= NoWord

VARIABLES chain, phase, hypo, i, pos, vocabIds, printed,
          steps                   \* the span and the number of the phrase of each hypothesis

Side == INSTANCE TargetSide

sideVars == <<chain, phase, hypo, i, pos, vocabIds, printed>>

translationVars == <<tableVars, sideVars, steps>>

TranslationInit == TableInit /\ Side!SideInit /\ steps = <<>>

ReadLine(source, target) ==
  LoadLine(source, target) /\ UNCHANGED <<sideVars, steps>>

\* The manager of a sentence, when the one before has printed its translation.
Manager(sentence) ==
  Translate(sentence) /\ Side!Begin /\ steps' = <<>>

Positions(range) == range.start .. range.end

Covered == UNION {Positions(steps[n].range) : n \in DOMAIN steps}

\* A hypothesis more, on the way to the best one.
Hypothesis(range, n) ==
  /\ Positions(range) \intersect Covered = {}
  /\ Side!Extend(tpsVec[range][n])
  /\ steps' = Append(steps, [range |-> range, phrase |-> n])
  /\ UNCHANGED tableVars

\* The best hypothesis is one of the last stack, whose hypotheses are complete.
Output ==
  /\ input # <<>> /\ Covered = PositionsOf(Last(input))
  /\ Side!Output
  /\ UNCHANGED <<tableVars, steps>>

TranslationNext ==
  \/ \E source \in SourcePhrases, target \in TargetPhrases : ReadLine(source, target)
  \/ \E sentence \in Sentences : Manager(sentence)
  \/ \E range \in DOMAIN tpsVec : \E n \in DOMAIN tpsVec[range] : Hypothesis(range, n)
  \/ Output

TranslationSpec == TranslationInit /\ [][TranslationNext]_translationVars

-----------------------------------------------------------------------------
\* The lines of the table for the words of a span of the last sentence.
LinesOf(range) ==
  LinesWith(file, SubSeq(Last(input), range.start + 1, range.end + 1))

(***************************************************************************)
(* From every hypothesis but the empty one, each word up to the end of its *)
(* phrase is found, and is the right one: the wrapped positions and phrases*)
(* with no words mislead neither the walk back nor the offset into the     *)
(* phrase, and the walk never runs off the chain (Hypothesis.cu:49-50,     *)
(* 111-124).                                                               *)
(***************************************************************************)
WordsReadBack == Side!WordsReadBack

(***************************************************************************)
(* What is printed is the target side of the lines that were used, in the  *)
(* order in which they were: the walk copies the words backwards, the      *)
(* reversal and the search for the end of the vector undo it; and a word   *)
(* has one identifier, whether it was first seen in the table or in a      *)
(* sentence before (Manager.cu:161-180, 249-256, MyVocab.cpp:25-61).       *)
(***************************************************************************)
PrintsTheTranslation ==
  (phase = "done" /\ input # <<>>) =>
    Spell(vocab, printed)
      = FlattenSeq([n \in DOMAIN steps |-> LinesOf(steps[n].range)[steps[n].phrase].target])

=============================================================================
