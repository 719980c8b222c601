------------------------------ MODULE Features ------------------------------
(***************************************************************************)
(* The feature functions: where their scores, weights and states live      *)
(* (FeatureFunctions.cu, System.cu), and how the scores of a target phrase *)
(* and of a hypothesis add up (Scores.cu, ScoresUnmanaged.cu).             *)
(*                                                                         *)
(* What a feature gives a hypothesis is any of a set; scores and weights   *)
(* are integers.                                                           *)
(***************************************************************************)
EXTENDS Integers, Sequences, SequencesExt, FiniteSetsExt

CONSTANTS FeatureLines,           \* lines of the section: kind, name, numScores,
                                  \* and whether their arguments are well formed
          SectionLists,           \* weights: sequences of a name and its weights
          Junk,                   \* the weights that memory may hold
          StateSize,              \* the size of the state of each stateful kind
          Tables,                 \* lines of a table: scores, and size in words
          Outcomes,               \* what a feature gives: a score and a state
          MaxFeatures, MaxLoads, MaxHypos

Stateful  == {"Distortion", "LanguageModel"}
Stateless == {"WordPenalty", "UnknownWordPenalty"}
Table     == "PhraseDictionaryMemory"

\* Sizes are of type size_t.  The weights come out of a map, so that no two lists
\* have the same name.
ASSUME FeaturesAssumption ==
  /\ \A line \in FeatureLines : line.numScores \in Nat
  /\ StateSize \in [Stateful -> Nat]
  /\ \A list \in SectionLists :
       /\ list \in Seq([name : STRING, weights : Seq(Int)])
       /\ \A k, l \in DOMAIN list : k # l => list[k].name # list[l].name
  /\ Junk \subseteq Int
  /\ Tables \subseteq [scores : Seq(Int), size : Int]
  /\ \A outcome \in Outcomes : outcome.score \in Int

VARIABLES ffs,                    \* the features, in the order of the lines
          totalNumScores, totalStateSize,
          statelessFFs, statefulFFs,  \* indices in ffs, for the pointers
          pt,                     \* index of the phrase table, or {}
          sections, next,         \* the weights of the configuration, and the
                                  \* index of the next to set
          weights,
          system,                 \* create, weights, load, search, and failures
          tps,                    \* the target phrases loaded
          hypos,                  \* a chain of hypotheses, the empty one first
          given                   \* what the last one was given by each feature

layout == <<ffs, totalNumScores, totalStateSize, statelessFFs, statefulFFs, pt>>

featureVars == <<layout, sections, next, weights, system, tps, hypos, given>>

FeaturesInit ==
  /\ ffs = <<>>
  /\ totalNumScores = 0 /\ totalStateSize = 0
  /\ statelessFFs = <<>> /\ statefulFFs = <<>>
  /\ pt = {}
  /\ sections \in SectionLists
  /\ next = 1
  /\ weights = <<>>
  /\ system = "create"
  /\ tps = <<>>
  /\ hypos = <<>>
  /\ given = <<>>

-----------------------------------------------------------------------------
(* FeatureFunctions::Create *)

\* Mutant: the offset of a feature's scores is its index.
StartIndOfIndex == Len(ffs)

StartInd == totalNumScores

StateOffset(kind) == totalStateSize

\* The next line; a kind or an argument that is not known is an exception.
CreateFeature(line) ==
  /\ system = "create"
  /\ Len(ffs) < MaxFeatures
  /\ \/ /\ line.wellFormed /\ line.kind \in Stateful \union Stateless \union {Table}
        /\ ffs' = Append(ffs, [kind |-> line.kind, name |-> line.name,
                               startInd |-> StartInd, numScores |-> line.numScores,
                               stateOffset |-> IF line.kind \in Stateful
                                               THEN StateOffset(line.kind) ELSE 0])
        /\ totalNumScores' = totalNumScores + line.numScores
        /\ CASE line.kind \in Stateful ->
                  /\ totalStateSize' = totalStateSize + StateSize[line.kind]
                  /\ statefulFFs' = Append(statefulFFs, Len(ffs'))
                  /\ UNCHANGED <<statelessFFs, pt>>
             [] line.kind = Table ->
                  /\ pt' = {Len(ffs')}
                  /\ UNCHANGED <<totalStateSize, statelessFFs, statefulFFs>>
             [] OTHER ->
                  /\ statelessFFs' = Append(statelessFFs, Len(ffs'))
                  /\ UNCHANGED <<totalStateSize, statefulFFs, pt>>
        /\ UNCHANGED system
     \/ /\ ~(line.wellFormed /\ line.kind \in Stateful \union Stateless \union {Table})
        /\ system' = "exception"
        /\ UNCHANGED layout
  /\ UNCHANGED <<sections, next, weights, tps, hypos, given>>

\* A configuration with no features is an exception.  The vector of weights is
\* resized, and holds what its memory held.
Created ==
  /\ system = "create"
  /\ \/ /\ ffs = <<>>
        /\ system' = "exception"
        /\ UNCHANGED weights
     \/ /\ ffs # <<>>
        /\ system' = "weights"
        /\ weights' \in [0 .. (totalNumScores - 1) -> Junk]
  /\ UNCHANGED <<layout, sections, next, tps, hypos, given>>

-----------------------------------------------------------------------------
(* System::LoadWeights, SetWeights *)

Named(name) == {n \in DOMAIN ffs : ffs[n].name = name}

FindFeatureFunction(name) == IF Named(name) = {} THEN {} ELSE {Min(Named(name))}

\* The slots of a feature's scores and weights.
Slots(ff) == ff.startInd .. (ff.startInd + ff.numScores - 1)

SetWeights ==
  /\ system = "weights" /\ next <= Len(sections)
  /\ next' = next + 1
  /\ LET section == sections[next]
         fits    == {n \in FindFeatureFunction(section.name) :
                       ffs[n].numScores = Len(section.weights)}
     IN  \/ /\ fits = {}
            /\ system' = "exception"
            /\ UNCHANGED weights
         \/ /\ \E n \in fits :
                 weights' = [s \in DOMAIN weights |->
                               IF s \in Slots(ffs[n])
                               THEN section.weights[s - ffs[n].startInd + 1]
                               ELSE weights[s]]
            /\ UNCHANGED system
  /\ UNCHANGED <<layout, sections, tps, hypos, given>>

\* With no phrase table, Load goes through a pointer that was never set.
WeightsLoaded ==
  /\ system = "weights" /\ next > Len(sections)
  /\ system' = IF pt = {} THEN "undefined" ELSE "load"
  /\ UNCHANGED <<layout, sections, next, weights, tps, hypos, given>>

-----------------------------------------------------------------------------
(* Scores::PlusEqual, ScoresUnmanaged::PlusEqual *)

NoScores == [scores |-> [s \in 0 .. (totalNumScores - 1) |-> 0], total |-> 0]

Weighted(values, ff) ==
  FoldFunction(LAMBDA x, sum : x + sum, 0,
               [k \in DOMAIN values |-> values[k] * weights[ff.startInd + k - 1]])

\* A target phrase's scores from a feature are assigned, and added to its total.
PlusEqual(sc, ff, values) ==
  [scores |-> [s \in DOMAIN sc.scores |->
                 IF s \in Slots(ff) THEN values[s - ff.startInd + 1] ELSE sc.scores[s]],
   total  |-> sc.total + Weighted(values, ff)]

\* Mutant: a score of a hypothesis is assigned, as one of a target phrase is.
AddScoreAssigned(sc, ff, value) == PlusEqual(sc, ff, <<value>>)

\* A hypothesis's score from a feature is added.
AddScore(sc, ff, value) ==
  [scores |-> [sc.scores EXCEPT ![ff.startInd] = @ + value],
   total  |-> sc.total + Weighted(<<value>>, ff)]

AddScores(sc, other) ==
  [scores |-> [s \in DOMAIN sc.scores |-> sc.scores[s] + other.scores[s]],
   total  |-> sc.total + other.total]

-----------------------------------------------------------------------------
(* PhraseTableMemory::Load, EvaluateInIsolation *)

WordPenalties == {n \in ToSet(statelessFFs) : ffs[n].kind = "WordPenalty"}

EvaluateInIsolation(sc, line) ==
  FoldLeft(LAMBDA acc, n : IF n \in WordPenalties
                           THEN PlusEqual(acc, ffs[n], << - line.size >>)
                           ELSE acc,
           sc, statelessFFs)

\* The table's scores for a phrase; their number, and that of a word penalty,
\* is right or it is an exception.
LoadTargetPhrase(line) ==
  /\ system = "load"
  /\ Len(tps) < MaxLoads
  /\ \E n \in pt :
       LET fits == /\ Len(line.scores) = ffs[n].numScores
                   /\ \A w \in WordPenalties : ffs[w].numScores = 1
       IN  \/ /\ fits
              /\ tps' = Append(tps, EvaluateInIsolation(
                                      PlusEqual(NoScores, ffs[n], line.scores), line))
              /\ UNCHANGED system
           \/ /\ ~fits
              /\ system' = "exception"
              /\ UNCHANGED tps
  /\ UNCHANGED <<layout, sections, next, weights, hypos, given>>

NoState == 0

\* The first stack of a search.
TableLoaded ==
  /\ system = "load"
  /\ system' = "search"
  /\ hypos' = <<[scores |-> NoScores,
                 stateData |-> [b \in 0 .. (totalStateSize - 1) |-> NoState]]>>
  /\ UNCHANGED <<layout, sections, next, weights, tps, given>>

-----------------------------------------------------------------------------
(* Hypothesis::Init, EvaluateWhenApplied *)

\* A feature's score is added and its state copied into its bytes.
Evaluate(hypo, ff, outcome) ==
  [scores    |-> AddScore(hypo.scores, ff, outcome.score),
   stateData |-> [b \in DOMAIN hypo.stateData |->
                    IF b \in ff.stateOffset .. (ff.stateOffset + StateSize[ff.kind] - 1)
                    THEN <<outcome.state, b - ff.stateOffset>>
                    ELSE hypo.stateData[b]]]

\* A stateful feature that has not one score is an assertion on the device.
Extend(phrase, outcomes) ==
  /\ system = "search"
  /\ Len(hypos) <= MaxHypos
  /\ \/ /\ \A n \in ToSet(statefulFFs) : ffs[n].numScores = 1
        /\ LET hypo == [scores    |-> AddScores(AddScores(NoScores, phrase),
                                                Last(hypos).scores),
                        stateData |-> [b \in 0 .. (totalStateSize - 1) |-> NoState]]
           IN  hypos' = Append(hypos,
                  FoldLeft(LAMBDA acc, n : Evaluate(acc, ffs[n], outcomes[n]),
                           hypo, statefulFFs))
        /\ given' = outcomes
        /\ UNCHANGED system
     \/ /\ \E n \in ToSet(statefulFFs) : ffs[n].numScores # 1
        /\ system' = "assert"
        /\ UNCHANGED <<hypos, given>>
  /\ UNCHANGED <<layout, sections, next, weights, tps>>

FeaturesNext ==
  \/ Created \/ SetWeights \/ WeightsLoaded \/ TableLoaded
  \/ \E line \in FeatureLines : CreateFeature(line)
  \/ \E line \in Tables : LoadTargetPhrase(line)
  \/ \E phrase \in ToSet(tps), outcomes \in [ToSet(statefulFFs) -> Outcomes] :
       Extend(phrase, outcomes)

FeaturesSpec == FeaturesInit /\ [][FeaturesNext]_featureVars

-----------------------------------------------------------------------------
StateSlots(ff) == ff.stateOffset .. (ff.stateOffset + StateSize[ff.kind] - 1)

(***************************************************************************)
(* Each feature has score slots and state bytes of its own, and there are  *)
(* no others, for features of every kind and size in every order           *)
(* (FeatureFunctions.cu:49-105).                                           *)
(***************************************************************************)
OwnSlots ==
  /\ \A m, n \in DOMAIN ffs : m # n => Slots(ffs[m]) \intersect Slots(ffs[n]) = {}
  /\ UNION {Slots(ffs[n]) : n \in DOMAIN ffs} = 0 .. (totalNumScores - 1)
  /\ \A m, n \in ToSet(statefulFFs) :
       m # n => StateSlots(ffs[m]) \intersect StateSlots(ffs[n]) = {}
  /\ UNION {StateSlots(ffs[n]) : n \in ToSet(statefulFFs)} = 0 .. (totalStateSize - 1)

(***************************************************************************)
(* Once the weights are loaded, each list of weights is that of the first  *)
(* feature of its name and of no other, though the lists come in the order *)
(* of a map and the features in that of the lines (System.cu:19-53).       *)
(***************************************************************************)
WeightsOfTheirFeature ==
  system \in {"load", "search", "assert"} =>
    LET sectionsOf(n) ==
          {k \in DOMAIN sections : /\ sections[k].name = ffs[n].name
                                   /\ n = Min(Named(ffs[n].name))}
    IN  \A n \in DOMAIN ffs : \A s \in Slots(ffs[n]) :
          IF sectionsOf(n) = {}
          THEN weights[s] \in Junk
          ELSE \A k \in sectionsOf(n) :
                 weights[s] = sections[k].weights[s - ffs[n].startInd + 1]

(***************************************************************************)
(* The total of a target phrase and of a hypothesis is the product of its  *)
(* scores with the weights, though one is kept beside the other and the    *)
(* scores of target phrases are assigned where those of hypotheses are     *)
(* added (Scores.cu:35-57, ScoresUnmanaged.cu:28-54).                      *)
(***************************************************************************)
TotalsAreDotProducts ==
  \A sc \in ToSet(tps) \union {hypos[n].scores : n \in DOMAIN hypos} :
    sc.total = FoldFunction(LAMBDA x, sum : x + sum, 0,
                            [s \in DOMAIN weights |-> sc.scores[s] * weights[s]])

(***************************************************************************)
(* After all features have been evaluated each one's state is what it set: *)
(* recombination compares them together (StatefulFeatureFunction.cu:10-14, *)
(* Hypothesis.cu:74).                                                      *)
(***************************************************************************)
StatesKept ==
  Len(hypos) > 1 =>
    \A n \in ToSet(statefulFFs) : \A b \in StateSlots(ffs[n]) :
      Last(hypos).stateData[b] = <<given[n].state, b - ffs[n].stateOffset>>

(***************************************************************************)
(* The layout serves every feature: slots and bytes are its own, the       *)
(* weights in its slots are those of its name, and the state in its bytes  *)
(* is what it set last (FeatureFunctions.cu:49-105, System.cu:19-53).      *)
(***************************************************************************)
LayoutIsRight == OwnSlots /\ WeightsOfTheirFeature /\ StatesKept

=============================================================================
