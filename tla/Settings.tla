------------------------------ MODULE Settings ------------------------------
(***************************************************************************)
(* m_setting of Parameter: from the name of a parameter to its values, the *)
(* lines given for it. A line is its sequence of words, as Tokenize gives  *)
(* them: the name of a weight ("LM0="), a number, the "x" that keeps a     *)
(* weight, the kind or an argument of a feature, a switch, a path.         *)
(***************************************************************************)
EXTENDS Integers, Sequences, SequencesExt, FiniteSetsExt, Maps

Word(tag, text, num) == [tag |-> tag, text |-> text, num |-> num]

\* SetWeight names a weight by a feature and an index.
Name(feature, ind) == Word("name", feature, ind)
Number(n)          == Word("number", "", n)
Keep               == Word("keep", "", 0)
Kind(feature)      == Word("kind", feature, 0)
NumFeatures(n)     == Word("num-features", "", n)

IsName(word) == word.tag = "name"

NoSettings == [param \in {} |-> <<>>]

Defined(s, param) == param \in DOMAIN s

Values(s, param) == IF Defined(s, param) THEN s[param] ELSE <<>>

Push(s, param, line) == Only(param, Append(Values(s, param), line)) ++ s

\* One after the other: a parameter that is given none stays undefined.
PushAll(s, param, lines) ==
  IF lines = <<>> THEN s ELSE Only(param, Values(s, param) \o lines) ++ s

Erase(s, params) == Restrict(s, DOMAIN s \ params)

AddFeature(s, line) == Push(s, "feature", line)

SetWeight(s, feature, ind, weights) ==
  Push(s, "weight", <<Name(feature, ind)>> \o weights)

\* A line of that name gets the weights appended, if there is one.
AddWeight(s, feature, ind, weights) ==
  LET lines == Values(s, "weight")
      same  == {i \in DOMAIN lines : lines[i][1] = Name(feature, ind)}
  IN  IF same = {}
      THEN SetWeight(s, feature, ind, weights)
      ELSE [s EXCEPT !["weight"][Min(same)] = @ \o weights]

-----------------------------------------------------------------------------
(***************************************************************************)
(* The conversion of a configuration in the old format: weights in lists   *)
(* of numbers that are dealt out to tables in order (Parameter.cpp).       *)
(*                                                                         *)
(* A conversion takes the settings to the settings, or fails with an       *)
(* exception. Of a line that describes a table only the words that tell    *)
(* its kind and the number of its scores matter.                           *)
(***************************************************************************)

Failure == [failed |-> TRUE, settings |-> NoSettings]

Success(s) == [failed |-> FALSE, settings |-> s]

\* Numbers, one on each line.
Numbers(s, param) == FlattenSeq(Values(s, param))

\* Not chart decoding: no search algorithm is given, or 0 or 1.
IsPhraseBased(s) ==
  \/ ~Defined(s, "search-algorithm")
  \/ /\ Values(s, "search-algorithm") # <<>>
     /\ Numbers(s, "search-algorithm")[1].num \in {0, 1}

\* What chart decoding makes of a weight: another logarithm.
Rescaled(s, weight) ==
  IF IsPhraseBased(s) THEN weight ELSE [weight EXCEPT !.text = "rescaled"]

\* The sum of the first k.
SumTo(sizes, k) ==
  LET sum[i \in 0 .. Len(sizes)] == IF i = 0 THEN 0 ELSE sum[i - 1] + sizes[i]
  IN  sum[k]

\* Mutant: every table is dealt weights from the start.
DealAgain(weights, sizes) == [k \in DOMAIN sizes |-> SubSeq(weights, 1, sizes[k])]

\* The weights of table k are those after the weights of the tables before.
Deal(weights, sizes) ==
  [k \in DOMAIN sizes |->
     SubSeq(weights, SumTo(sizes, k - 1) + 1, SumTo(sizes, k))]

TooFew(weights, sizes) == SumTo(sizes, Len(sizes)) > Len(weights)

\* Weights for features of these names, numbered from 0.
SetWeights(s, features, weights) ==
  PushAll(s, "weight",
          [k \in DOMAIN features |-> <<Name(features[k], k - 1)>> \o weights[k]])

\* Each table becomes a feature with its weights.
AddTables(s, kinds, sizes, weights) ==
  PushAll(SetWeights(s, kinds, Deal(weights, sizes)),
          "feature", [k \in DOMAIN kinds |-> <<Kind(kinds[k]), NumFeatures(sizes[k])>>])

-----------------------------------------------------------------------------
ConvertWeightArgsWordPenalty(s) ==
  LET weights == Numbers(s, "weight-w")
  IN  Success(Erase(SetWeights(s, [i \in DOMAIN weights |-> "WordPenalty"],
                               [i \in DOMAIN weights |-> <<Rescaled(s, weights[i])>>]),
                    {"weight-w"}))

LMKind == Only(0, "SRILM") ++ Only(1, "IRSTLM") ++ Only(8, "KENLM") ++ Only(9, "KENLM")

\* A model has one weight, and another if it scores unknown words.
ConvertWeightArgsLM(s) ==
  LET models  == Values(s, "lmodel-file")
      types   == [k \in DOMAIN models |-> models[k][1].num]
      oov     == Numbers(s, "lmodel-oov-feature")
      sizes   == [k \in DOMAIN models |->
                    1 + (IF k \in DOMAIN oov THEN oov[k].num ELSE 0)]
      old     == Numbers(s, "weight-l")
      weights == [i \in DOMAIN old |-> Rescaled(s, old[i])]
  IN  IF ~Defined(s, "weight-l")
      THEN Success(Erase(s, {"lmodel-file"}))
      ELSE IF Range(types) \subseteq DOMAIN LMKind /\ ~TooFew(weights, sizes)
           THEN Success(Erase(AddTables(s, [k \in DOMAIN types |-> LMKind[types[k]]],
                                        sizes, weights),
                              {"weight-l", "lmodel-file"}))
           ELSE Failure

\* Every weight of the list gets the same name: the index never moves.
ConvertWeightArgsSingleWeight(s, old, new) ==
  LET weights == Numbers(s, old)
  IN  Success(Erase(PushAll(s, "weight",
                            [i \in DOMAIN weights |-> <<Name(new, 0), weights[i]>>]),
                    {old}))

ConvertWeightArgsGeneration(s) ==
  LET models  == Values(s, "generation-file")
      sizes   == [k \in DOMAIN models |-> models[k][3].num]
      weights == Numbers(s, "weight-generation")
      erased  == {"weight-generation", "generation-file"}
  IN  IF weights = <<>> THEN Success(Erase(s, erased))
      ELSE IF TooFew(weights, sizes) THEN Failure
      ELSE Success(Erase(AddTables(s, [k \in DOMAIN models |-> "Generation"],
                                   sizes, weights), erased))

\* The first weight is that of the distance, the others those of the tables.  A
\* table must have two factors: the number of its first word is how many it lists.
ConvertWeightArgsDistortion(s) ==
  LET tables   == Values(s, "distortion-file")
      badFactors == \E k \in DOMAIN tables : tables[k][1].num # 2
      sizes    == [k \in DOMAIN tables |-> tables[k][3].num]
      weights  == Numbers(s, "weight-d")
      others   == SubSeq(weights, 2, Len(weights))
      erased   == {"weight-d", "distortion-file"}
      distance == IF IsPhraseBased(s)
                  THEN SetWeight(AddFeature(s, <<Kind("Distortion")>>),
                                 "Distortion", 0, SubSeq(weights, 1, 1))
                  ELSE s
  IN  IF ~Defined(s, "weight-d") THEN Success(Erase(s, erased))
      ELSE IF \/ weights = <<>> /\ IsPhraseBased(s)
              \/ TooFew(others, sizes) \/ badFactors THEN Failure
      ELSE Success(Erase(AddTables(distance, [k \in DOMAIN tables |-> "LexicalReordering"],
                                   sizes, others), erased))

ConvertPhrasePenalty(s) ==
  LET weights == Numbers(s, "weight-p")
  IN  IF ~Defined(s, "weight-p") THEN Success(s)
      ELSE IF Len(weights) # 1 THEN Failure
      ELSE Success(Erase(SetWeight(AddFeature(s, <<Kind("PhrasePenalty")>>),
                                   "PhrasePenalty", 0, weights),
                         {"weight-p"}))

-----------------------------------------------------------------------------
(* ConvertWeightArgsPhraseModel *)

PTKind(implementation) ==
  CASE implementation \in {0, 6} -> "PhraseDictionaryMemory"
    [] implementation = 1        -> "PhraseDictionaryBinary"
    [] implementation = 2        -> "PhraseDictionaryOnDisk"
    [] implementation = 8        -> "PhraseDictionarySuffixArray"
    [] implementation = 12       -> "PhraseDictionaryCompact"
    [] implementation = 14       -> "PhraseDictionaryDynSuffixArray"
    [] implementation = 15       -> "PhraseDictionaryDynamicCacheBased"
    [] OTHER                     -> ""

\* The weights of the input go to the first binary table, and say how many of
\* its scores come from the input if nothing else does.
WithInputWeights(s) ==
  LET weights == Numbers(s, "weight-i")
      scores  == IF Len(weights) \in {1, 2} THEN <<1, Len(weights) - 1>> ELSE <<>>
  IN  IF ~Defined(s, "weight-i") THEN s
      ELSE SetWeight(PushAll(Only("input-scores", Values(s, "input-scores")) ++ s,
                             "input-scores",
                             [i \in DOMAIN scores |-> <<Number(scores[i])>>]),
                     "PhraseDictionaryBinary", 0, weights)

InputScoresClash(s) ==
  Len(Numbers(s, "weight-i")) \in {1, 2} /\ Values(s, "input-scores") # <<>>

\* Scores of the input: the two numbers of the section, or the one.
NumInputScores(s) ==
  LET scores == Numbers(s, "input-scores")
  IN  SumTo([i \in DOMAIN scores |-> scores[i].num], Min({2, Len(scores)}))

\* One limit is for all tables; too few end the conversion of the tables.
LimitsMissing(s) ==
  /\ Len(Values(s, "ttable-limit")) # 1
  /\ Len(Values(s, "ttable-limit")) < Len(Values(s, "ttable-file"))

\* Tables are numbered by kind.
PTIndex(kinds, k) == Cardinality({j \in 1 .. (k - 1) : kinds[j] = kinds[k]})

AddPhraseTables(s) ==
  LET tables  == Values(s, "ttable-file")
      kinds   == [k \in DOMAIN tables |-> PTKind(tables[k][1].num)]
      sizes   == [k \in DOMAIN tables |-> tables[k][4].num]
      weights == Deal(Numbers(s, "weight-t"), sizes)
  IN  FoldLeft(LAMBDA acc, k :
                 AddFeature(AddWeight(acc, kinds[k], PTIndex(kinds, k), weights[k]),
                            <<Kind(kinds[k]),
                              NumFeatures(sizes[k] + (IF k = 1 THEN NumInputScores(s)
                                                               ELSE 0))>>),
               s, [k \in DOMAIN tables |-> k])

ConvertWeightArgsPhraseModel(s) ==
  LET input  == WithInputWeights(s)
      tables == Values(input, "ttable-file")
      sizes  == [k \in DOMAIN tables |-> tables[k][4].num]
      isOlder == tables # <<>> /\ Len(tables[1]) = 4
      erased == {"weight-i", "weight-t", "ttable-file", "ttable-limit"}
  IN  IF \/ InputScoresClash(s)
         \/ Defined(input, "input-scores") /\ Values(input, "input-scores") = <<>>
      THEN Failure
      ELSE IF LimitsMissing(s) \/ isOlder THEN Success(input)
      ELSE IF \/ \E k \in DOMAIN tables : Len(tables[k]) < 5
              \/ TooFew(Numbers(input, "weight-t"), sizes)
      THEN Failure
      ELSE Success(Erase(AddPhraseTables(input), erased))

-----------------------------------------------------------------------------
(* ConvertWeightArgs: one conversion after the other. *)

Conversions == <<
  "WordPenalty", "LM", "weight-slm", "weight-u", "Generation", "Distortion",
  "weight-lr", "weight-bl", "weight-glm", "weight-wt", "weight-pp", "weight-pb",
  "weight-e", "weight-lex", "PhrasePenalty", "features", "PhraseModel">>

NewName(old) ==
  CASE old = "weight-slm" -> "SyntacticLM"
    [] old = "weight-u"   -> "UnknownWordPenalty"
    [] old = "weight-lr"  -> "LexicalReordering"
    [] old = "weight-bl"  -> "BleuScoreFeature"
    [] old = "weight-glm" -> "GlobalLexicalModel"
    [] old = "weight-wt"  -> "WordTranslationFeature"
    [] old = "weight-pp"  -> "PhrasePairFeature"
    [] old = "weight-pb"  -> "PhraseBoundaryFeature"
    [] old = "weight-e"   -> "WordDeletion"
    [] old = "weight-lex" -> "GlobalLexicalReordering"

Converted(s, conversion) ==
  CASE conversion = "WordPenalty"   -> ConvertWeightArgsWordPenalty(s)
    [] conversion = "LM"            -> ConvertWeightArgsLM(s)
    [] conversion = "Generation"    -> ConvertWeightArgsGeneration(s)
    [] conversion = "Distortion"    -> ConvertWeightArgsDistortion(s)
    [] conversion = "PhrasePenalty" -> ConvertPhrasePenalty(s)
    [] conversion = "features"      ->
         Success(PushAll(s, "feature", <<<<Kind("WordPenalty")>>,
                                         <<Kind("UnknownWordPenalty")>>>>))
    [] conversion = "PhraseModel"   -> ConvertWeightArgsPhraseModel(s)
    [] OTHER -> ConvertWeightArgsSingleWeight(s, conversion, NewName(conversion))

=============================================================================
