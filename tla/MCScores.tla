------------------------------ MODULE MCScores ------------------------------
(***************************************************************************)
(* The language model, or else the features.  The first with files of up   *)
(* to three of eight lines, for n-grams of up to three words, in every     *)
(* order, and up to four target words; the second with up to four of       *)
(* these, two of them of the same name, lines and weights that are wrong,  *)
(* a table of two entries, and chains of two hypotheses.  One of them is   *)
(* at work, and the other is as it starts.                                 *)
(***************************************************************************)
EXTENDS LanguageModel, Features

Line(ngram, prob, backoff) == [ngram |-> ngram, prob |-> prob, backoff |-> backoff]

MCLines ==
  {Line(<<"a">>, -2, -1), Line(<<"b">>, -3, 0), Line(<<"a", "b">>, -1, -2),
   Line(<<"b", "b">>, -1, 0), Line(<<"b", "a">>, -2, 0), Line(<<"a", "b", "a">>, -1, 0),
   Line(<<"b", "b", "a">>, -4, 0), Line(<<"a", "</s>">>, -1, 0)}

\* Only unigrams, with no back-off.
Unigrams == {Line(<<"a">>, -2, 0), Line(<<"b">>, -3, 0), Line(<<"</s>">>, -1, 0)}

MCPhrases == {<<>>, <<"a">>, <<"b", "a">>}

FeatureLine(kind, name, numScores, wellFormed) ==
  [kind |-> kind, name |-> name, numScores |-> numScores, wellFormed |-> wellFormed]

MCFeatureLines ==
  {FeatureLine("Distortion", "D", 1, TRUE), FeatureLine("LanguageModel", "LM", 1, TRUE),
   FeatureLine("PhraseDictionaryMemory", "TM", 2, TRUE), FeatureLine("WordPenalty", "W", 1, TRUE),
   FeatureLine("WordPenalty", "D", 2, TRUE), FeatureLine("UnknownWordPenalty", "LM", 1, TRUE),
   FeatureLine("LanguageModel", "W", 2, TRUE), FeatureLine("Generation", "G", 1, TRUE),
   FeatureLine("Distortion", "D", 1, FALSE)}

Section(name, weightsOf) == [name |-> name, weights |-> weightsOf]

MCSections ==
  {<<>>,
   <<Section("LM", <<3>>), Section("TM", <<1, -2>>)>>,
   <<Section("D", <<2>>), Section("LM", <<5>>), Section("TM", <<-1, 4>>)>>,
   <<Section("TM", <<1, 2>>), Section("W", <<-3>>)>>,
   <<Section("TM", <<1>>)>>}

MCStateSize == [Distortion |-> 2, LanguageModel |-> 3]

MCTables == {[scores |-> <<-1, -2>>, size |-> 2], [scores |-> <<-3>>, size |-> 1]}

MCOutcomes == {[score |-> -1, state |-> "p"], [score |-> -4, state |-> "q"]}

ScoresInit == Init /\ FeaturesInit

ModelStep == /\ ffs = <<>> /\ system = "create"
             /\ Next
             /\ UNCHANGED featureVars

FeatureStep == /\ file = <<>> /\ pc = "load"
               /\ FeaturesNext
               /\ UNCHANGED vars

ScoresNext == ModelStep \/ FeatureStep

ScoresSpec == ScoresInit /\ [][ScoresNext]_<<vars, featureVars>>

=============================================================================
