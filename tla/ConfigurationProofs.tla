------------------------- MODULE ConfigurationProofs -------------------------
(***************************************************************************)
(* Theorems about Configuration and Options, for every configuration file  *)
(* and command line: settings and weights keep their types, the weights of *)
(* a feature come from the source that has precedence, and options that    *)
(* pass the check agree with each other.                                   *)
(***************************************************************************)
EXTENDS Options, TrieProofs, FiniteSetTheorems

-----------------------------------------------------------------------------
(* The options agree *)

\* What SanityCheck reads of each group.
ReadOf(g) ==
  CASE g = 1  -> {"consensus-decoding"}
    [] g = 3  -> {"n-best-enabled", "n-best-size"}
    [] g = 6  -> {"inputtype"}
    [] g = 7  -> {"minimum-bayes-risk"}
    [] g = 8  -> {"lminimum-bayes-risk"}
    [] g = 9  -> {"recover-input-path", "lattice-samples"} \union SearchGraphs
    [] g = 11 -> {"mira"}
    [] OTHER  -> {}

LEMMA PlainSets ==
  ASSUME NEW s, NEW defaults, NEW flags
  PROVE  \A k : k \in DOMAIN Plain(s, defaults, flags).values
                 <=> k \in DOMAIN defaults \union DOMAIN flags
<1>1. DOMAIN First(s, defaults) = DOMAIN defaults /\ DOMAIN Flags(s, flags) = DOMAIN flags
  BY DEF First, Flags
<1>2. Plain(s, defaults, flags).values = First(s, defaults) ++ Flags(s, flags)
  BY DEF Plain, Sets
<1> QED  BY <1>1, <1>2, OverIs

LEMMA GroupSets ==
  ASSUME NEW s, NEW g \in Groups, InitGroup(s, g).ends = "true"
  PROVE  ReadOf(g) \subseteq DOMAIN InitGroup(s, g).values
<1>1. CASE g = 1
  <2> DEFINE rest == Plain(s, SearchDefaults, AllOff({"consensus-decoding", "disable-discarding"}))
  <2>1. "consensus-decoding" \in DOMAIN rest.values
    BY PlainSets DEF AllOff
  <2>2. DOMAIN Search(s).values = DOMAIN rest.values
    <3> HIDE DEF rest
    <3>1. rest = Sets(rest.values, rest.ends)
      BY DEF rest, Plain, Sets
    <3> QED  BY <3>1 DEF Search, rest, Sets
  <2> QED  BY <1>1, <2>1, <2>2 DEF InitGroup, ReadOf
<1>2. CASE g = 3
  <2>1. InitGroup(s, g) = NBest(s)
    BY <1>2 DEF InitGroup
  <2>2. \E size, only, enabled, rest :
          NBest(s).values = Only("n-best-size", size) ++ Only("n-best-distinct", only)
                              ++ Only("n-best-enabled", enabled) ++ rest
    <3>1. ~ (Defined(s, "n-best-list") /\ Len(Values(s, "n-best-list")) < 2)
      <4>1. Sets(<<>>, "false").ends = "false"
        BY DEF Sets
      <4>2. Defined(s, "n-best-list") /\ Len(Values(s, "n-best-list")) < 2
              => NBest(s) = Sets(<<>>, "false")
        BY DEF NBest
      <4> QED  BY <2>1, <4>1, <4>2
    <3> QED  BY <3>1 DEF NBest, Plain, Sets
  <2>3. {"n-best-enabled", "n-best-size"} \subseteq DOMAIN NBest(s).values
    <3>1. PICK size, only, enabled, rest :
            NBest(s).values = Only("n-best-size", size) ++ Only("n-best-distinct", only)
                                ++ Only("n-best-enabled", enabled) ++ rest
      BY <2>2
    <3> QED  BY <3>1, OverIs, OnlyIs
  <2> QED  BY <1>2, <2>1, <2>3 DEF ReadOf
<1>3. CASE g = 6
  <2>1. InitGroup(s, g) = Input(s)
    BY <1>3 DEF InitGroup
  <2>2. "inputtype" \in DOMAIN Input(s).values
    BY OverIs, OnlyIs, PlainSets DEF Input
  <2> QED  BY <1>3, <2>1, <2>2 DEF ReadOf
<1>4. CASE g = 7
  <2>1. InitGroup(s, g) = MBR(s)
    BY <1>4 DEF InitGroup
  <2>2. "minimum-bayes-risk" \in DOMAIN MBR(s).values
    BY PlainSets DEF MBR, AllOff
  <2> QED  BY <1>4, <2>1, <2>2 DEF ReadOf
<1>5. CASE g = 8
  <2>1. InitGroup(s, g) = LMBR(s)
    BY <1>5 DEF InitGroup
  <2>2. "lminimum-bayes-risk" \in DOMAIN LMBR(s).values
    BY OverIs, PlainSets DEF LMBR, AllOff, Plain, Sets
  <2> QED  BY <1>5, <2>1, <2>2 DEF ReadOf
<1>6. CASE g = 9
  <2>1. InitGroup(s, g) = Output(s)
    BY <1>6 DEF InitGroup
  <2>2. /\ "recover-input-path" \in OutputFlags
        /\ \A p \in SearchGraphs : p \in OutputFiles
    BY DEF OutputFlags, OutputFiles
  <2> DEFINE files == [param \in OutputFiles |-> NoText]
             rest == Plain(s, files ++ Only("start-translation-id", Number(0))
                                ++ Only("sort-word-alignment", Number(0)),
                           AllOff(OutputFlags))
  <2>3. {"recover-input-path"} \union SearchGraphs \subseteq DOMAIN rest.values
    <3>1. DOMAIN files = OutputFiles /\ DOMAIN AllOff(OutputFlags) = OutputFlags
      BY DEF AllOff
    <3> HIDE DEF files
    <3> QED  BY <2>2, <3>1, OverIs, PlainSets
  <2>4. \E factors, samples, delimiter, segmentation, graph :
          Output(s).values
            = Only("output-factors", factors) ++ Only("lattice-samples", samples)
                ++ delimiter ++ (segmentation ++ graph ++ rest.values)
    BY <1>6, <2>1 DEF Output, Sets
  <2> HIDE DEF rest
  <2>5. {"recover-input-path", "lattice-samples"} \union SearchGraphs \subseteq DOMAIN Output(s).values
    BY <2>3, <2>4, OverIs, OnlyIs
  <2> QED  BY <1>6, <2>1, <2>5 DEF ReadOf
<1>7. CASE g = 11
  <2>1. InitGroup(s, g) = Mira(s)
    BY <1>7 DEF InitGroup
  <2>2. "mira" \in DOMAIN Mira(s).values
    BY PlainSets DEF Mira, AllOff
  <2> QED  BY <1>7, <2>1, <2>2 DEF ReadOf
<1>8. CASE g \in Groups \ {1, 3, 6, 7, 8, 9, 11}
  BY <1>8 DEF ReadOf
<1> QED  BY <1>1, <1>2, <1>3, <1>4, <1>5, <1>6, <1>7, <1>8

LEMMA GroupEnds ==
  ASSUME NEW s, NEW g \in Groups
  PROVE  InitGroup(s, g).ends # "no"
<1>1. \A values, ends : Sets(values, ends).ends = ends
  BY DEF Sets
<1>2. \A defaults, flags : Plain(s, defaults, flags).ends # "no"
  BY <1>1 DEF Plain
<1>3. CASE g = 1
  <2>1. InitGroup(s, g) = Search(s)
    BY <1>3 DEF InitGroup
  <2>2. Search(s).ends # "no"
    BY DEF Search, Plain, Sets
  <2> QED  BY <2>1, <2>2
<1>4. CASE g = 2
  <2>1. InitGroup(s, g) = CubePruning(s)
    BY <1>4 DEF InitGroup
  <2> QED  BY <1>2, <2>1 DEF CubePruning
<1>5. CASE g = 3
  <2>1. InitGroup(s, g) = NBest(s)
    BY <1>5 DEF InitGroup
  <2>2. NBest(s).ends # "no"
    BY DEF NBest, Plain, Sets
  <2> QED  BY <2>1, <2>2
<1>6. CASE g = 4
  <2>1. InitGroup(s, g) = Reordering(s)
    BY <1>6 DEF InitGroup
  <2> QED  BY <1>2, <2>1 DEF Reordering
<1>7. CASE g = 5
  <2>1. InitGroup(s, g) = Context(s)
    BY <1>7 DEF InitGroup
  <2>2. \A word : Window(word) = Sets(Window(word).values, Window(word).ends)
                   /\ Window(word).ends # "no"
    BY DEF Window, Sets
  <2>3. Context(s).ends # "no"
    BY <2>2 DEF Context, Sets
  <2> QED  BY <2>1, <2>3
<1>8. CASE g = 6
  <2>1. InitGroup(s, g) = Input(s)
    BY <1>8 DEF InitGroup
  <2>2. Input(s).ends # "no"
    BY DEF Input
  <2> QED  BY <2>1, <2>2
<1>9. CASE g = 7
  <2>1. InitGroup(s, g) = MBR(s)
    BY <1>9 DEF InitGroup
  <2> QED  BY <1>2, <2>1 DEF MBR
<1>10. CASE g = 8
  <2>1. InitGroup(s, g) = LMBR(s)
    BY <1>10 DEF InitGroup
  <2>2. LMBR(s).ends # "no"
    BY DEF LMBR, Plain, Sets
  <2> QED  BY <2>1, <2>2
<1>11. CASE g = 9
  <2>1. InitGroup(s, g) = Output(s)
    BY <1>11 DEF InitGroup
  <2>2. Output(s).ends # "no"
    BY <1>1, <1>2 DEF Output
  <2> QED  BY <2>1, <2>2
<1>12. CASE g = 10
  <2>1. InitGroup(s, g) = UnknownWords(s)
    BY <1>12 DEF InitGroup
  <2> QED  BY <1>2, <2>1 DEF UnknownWords
<1>13. CASE g = 11
  <2>1. InitGroup(s, g) = Mira(s)
    BY <1>13 DEF InitGroup
  <2> QED  BY <1>2, <2>1 DEF Mira
<1> QED  BY <1>3, <1>4, <1>5, <1>6, <1>7, <1>8, <1>9, <1>10, <1>11, <1>12, <1>13 DEF Groups

-----------------------------------------------------------------------------
(* Each way to MBR is ruled by one group *)

\* No way to MBR is among the options.
Avoids(values) == \A p \in Exclusive : p \notin DOMAIN values

\* Of the ways to MBR, those that are ruled are as the settings ask for.
Rules(values, s, ruled) ==
  \A p \in Exclusive :
    IF p \in ruled
    THEN p \in DOMAIN values /\ values[p] = Flags(s, AllOff({p}))[p]
    ELSE p \notin DOMAIN values

LEMMA Avoiding ==
  /\ \A key, entry : key \notin Exclusive => Avoids(Only(key, entry))
  /\ \A f, g : Avoids(f) /\ Avoids(g) => Avoids(f ++ g)
  /\ \A s, defaults : Avoids(defaults) => Avoids(First(s, defaults))
BY OverIs, OnlyIs DEF Avoids, First

LEMMA Ruling ==
  \A f, values, s, ruled : Avoids(f) /\ Rules(values, s, ruled) => Rules(f ++ values, s, ruled)
BY OverIs DEF Avoids, Rules

LEMMA PlainRules ==
  ASSUME NEW s, NEW defaults, NEW flags, Avoids(defaults),
         \A p \in DOMAIN flags : p \in Exclusive => flags[p] = FALSE
  PROVE  Rules(Plain(s, defaults, flags).values, s, DOMAIN flags)
<1>1. /\ DOMAIN First(s, defaults) = DOMAIN defaults
      /\ DOMAIN Flags(s, flags) = DOMAIN flags
      /\ Plain(s, defaults, flags).values = First(s, defaults) ++ Flags(s, flags)
  BY DEF First, Flags, Plain, Sets
<1>2. ASSUME NEW p \in DOMAIN flags, flags[p] = FALSE
      PROVE  Flags(s, flags)[p] = Flags(s, AllOff({p}))[p]
  <2>1. p \in DOMAIN AllOff({p}) /\ AllOff({p})[p] = flags[p]
    BY <1>2 DEF AllOff
  <2> QED  BY <1>2, <2>1 DEF Flags
<1> DEFINE first == First(s, defaults)
           set == Flags(s, flags)
           values == Plain(s, defaults, flags).values
<1> HIDE DEF first, set, values
<1>3. ASSUME NEW p \in Exclusive
      PROVE  IF p \in DOMAIN flags
             THEN p \in DOMAIN values /\ values[p] = Flags(s, AllOff({p}))[p]
             ELSE p \notin DOMAIN values
  <2>1. /\ p \notin DOMAIN first /\ values = first ++ set
        /\ p \in DOMAIN set <=> p \in DOMAIN flags
    BY <1>1 DEF first, set, values, Avoids
  <2>2. /\ p \in DOMAIN values <=> p \in DOMAIN flags
        /\ p \in DOMAIN flags => values[p] = set[p]
    BY <2>1, OverIs
  <2>3. p \in DOMAIN flags => set[p] = Flags(s, AllOff({p}))[p]
    BY <1>2 DEF set
  <2> QED  BY <2>2, <2>3
<1> QED  BY <1>3 DEF Rules, values

\* A group of flags that are off, and defaults of other options.
LEMMA OffRules ==
  ASSUME NEW s, NEW defaults, NEW params, Avoids(defaults)
  PROVE  Rules(Plain(s, defaults, AllOff(params)).values, s, params)
<1>1. DOMAIN AllOff(params) = params /\ \A p \in params : AllOff(params)[p] = FALSE
  BY DEF AllOff
<1> QED  BY <1>1, PlainRules

LEMMA NothingAvoids == Avoids(<<>>)
BY DEF Avoids, Exclusive

LEMMA SameRules ==
  ASSUME NEW values, NEW s, NEW ruled, NEW others,
         Rules(values, s, ruled), ruled \intersect Exclusive = others \intersect Exclusive
  PROVE  Rules(values, s, others)
BY DEF Rules

LEMMA SearchRules == \A s : Rules(Search(s).values, s, {"consensus-decoding"})
<1> SUFFICES ASSUME NEW s  PROVE Rules(Search(s).values, s, {"consensus-decoding"})
  OBVIOUS
<1> DEFINE flags == {"consensus-decoding", "disable-discarding"}
           rest == Plain(s, SearchDefaults, AllOff(flags))
<1>1. Avoids(SearchDefaults)
  <2>1. /\ "search-algorithm" \notin Exclusive /\ "stack" \notin Exclusive
        /\ "stack-diversity" \notin Exclusive /\ "time-out" \notin Exclusive
        /\ "max-phrase-length" \notin Exclusive
        /\ "max-trans-opt-per-coverage" \notin Exclusive
        /\ "max-partial-trans-opt" \notin Exclusive /\ "beam-threshold" \notin Exclusive
        /\ "early-discarding-threshold" \notin Exclusive
        /\ "translation-option-threshold" \notin Exclusive
    BY DEF Exclusive
  <2> QED  BY <2>1, Avoiding DEF SearchDefaults
<1>2. Rules(rest.values, s, flags)
  BY <1>1, OffRules
<1>3. Search(s).values = [option \in DOMAIN rest.values |->
                            IF option \in Probabilities THEN Log(rest.values[option].num)
                            ELSE rest.values[option]]
  <2>1. rest = Sets(rest.values, rest.ends)
    BY DEF Plain, Sets
  <2> HIDE DEF rest
  <2> QED  BY <2>1 DEF Search, rest, Sets
<1> HIDE DEF rest
<1>4. \A p \in Exclusive : p \notin Probabilities
  BY DEF Exclusive, Probabilities
<1>5. Rules(Search(s).values, s, flags)
  BY <1>2, <1>3, <1>4 DEF Rules
<1> QED  BY <1>5, SameRules DEF Exclusive

\* The groups that rule none.
LEMMA OthersRule ==
  ASSUME NEW s
  PROVE  /\ Rules(CubePruning(s).values, s, {})
         /\ NBest(s).ends = "true" => Rules(NBest(s).values, s, {})
         /\ Rules(Reordering(s).values, s, {})
         /\ Rules(Context(s).values, s, {})
         /\ Rules(Input(s).values, s, {})
         /\ Output(s).ends = "true" => Rules(Output(s).values, s, {})
         /\ Rules(UnknownWords(s).values, s, {})
         /\ Rules(Mira(s).values, s, {})
<1>1. \A values : Avoids(values) <=> Rules(values, s, {})
  BY DEF Avoids, Rules
<1>2. \A defaults, params :
        Avoids(defaults) /\ params \intersect Exclusive = {}
          => Avoids(Plain(s, defaults, AllOff(params)).values)
  BY <1>1, OffRules, SameRules
<1>3. Avoids(CubePruning(s).values)
  <2>1. /\ "cube-pruning-pop-limit" \notin Exclusive /\ "cube-pruning-diversity" \notin Exclusive
        /\ {"cube-pruning-lazy-scoring"} \intersect Exclusive = {}
    BY DEF Exclusive
  <2> QED  BY <1>2, <2>1, Avoiding DEF CubePruning
<1>4. ASSUME NBest(s).ends = "true"  PROVE Avoids(NBest(s).values)
  <2> DEFINE off == AllOff({"print-alignment-info-in-n-best", "include-segmentation-in-n-best",
                            "print-passthrough-in-n-best", "report-all-factors-in-n-best",
                            "n-best-trees"})
             flags == Only("labeled-n-best-list", TRUE) ++ off
             rest == Plain(s, Only("n-best-factor", Number(20)), flags)
  <2>1. Avoids(rest.values)
    <3>1. Avoids(off)
      BY DEF Avoids, AllOff, Exclusive
    <3>2. "labeled-n-best-list" \notin Exclusive /\ "n-best-factor" \notin Exclusive
      BY DEF Exclusive
    <3> HIDE DEF off
    <3>3. Avoids(flags) /\ Avoids(Only("n-best-factor", Number(20)))
      BY <3>1, <3>2, Avoiding
    <3> HIDE DEF flags
    <3> QED  BY <3>3, PlainSets DEF Avoids
  <2>2. \E size, only, enabled :
          NBest(s).values = Only("n-best-size", size) ++ Only("n-best-distinct", only)
                              ++ Only("n-best-enabled", enabled) ++ rest.values
    <3>1. ~ (Defined(s, "n-best-list") /\ Len(Values(s, "n-best-list")) < 2)
      <4>1. Sets(<<>>, "false").ends = "false"
        BY DEF Sets
      <4>2. Defined(s, "n-best-list") /\ Len(Values(s, "n-best-list")) < 2
              => NBest(s) = Sets(<<>>, "false")
        BY DEF NBest
      <4> QED  BY <1>4, <4>1, <4>2
    <3>2. rest = Sets(rest.values, rest.ends)
      BY DEF Plain, Sets
    <3> QED  BY <3>1, <3>2 DEF NBest, Sets
  <2> HIDE DEF rest
  <2>3. /\ "n-best-size" \notin Exclusive /\ "n-best-distinct" \notin Exclusive
        /\ "n-best-enabled" \notin Exclusive
    BY DEF Exclusive
  <2> QED  BY <2>1, <2>2, <2>3, Avoiding
<1>5. Avoids(Reordering(s).values)
  <2>1. /\ "distortion-limit" \notin Exclusive
        /\ {"monotone-at-punctuation", "early-distortion-cost"} \intersect Exclusive = {}
    BY DEF Exclusive
  <2> QED  BY <1>2, <2>1, Avoiding DEF Reordering
<1>6. Avoids(Context(s).values)
  <2>1. /\ "look-back" \notin Exclusive /\ "look-ahead" \notin Exclusive
        /\ "context-string" \notin Exclusive
    BY DEF Exclusive
  <2>2. \A back, ahead : Avoids(Only("look-back", back) ++ Only("look-ahead", ahead))
    BY <2>1, Avoiding
  <2>3. \A word : /\ Window(word) = Sets(Window(word).values, Window(word).ends)
                  /\ Avoids(Window(word).values)
    <3>1. \A word : Window(word) = Sets(Window(word).values, Window(word).ends)
      BY DEF Window, Sets
    <3>2. \A word : Avoids(Window(word).values)
      BY <2>2, NothingAvoids DEF Window, Sets
    <3> QED  BY <3>1, <3>2
  <2> QED  BY <2>1, <2>3, Avoiding DEF Context, Sets
<1>7. Avoids(Input(s).values)
  <2>1. /\ "inputtype" \notin Exclusive /\ "xml-input" \notin Exclusive
        /\ "placeholder-factor" \notin Exclusive /\ "factor-delimiter" \notin Exclusive
        /\ "input-file" \notin Exclusive /\ "input-factors" \notin Exclusive
        /\ {"continue-partial-translation"} \intersect Exclusive = {}
    BY DEF Exclusive
  <2> DEFINE defaults == Only("inputtype", Number(0)) ++ Only("xml-input", Text("pass-through"))
                           ++ Only("placeholder-factor", NOT_FOUND)
                           ++ Only("factor-delimiter", Text("|")) ++ Only("input-file", NoText)
             rest == Plain(s, defaults, AllOff({"continue-partial-translation"}))
  <2>2. Avoids(defaults)
    BY <2>1, Avoiding
  <2>3. Avoids(rest.values)
    <3> HIDE DEF defaults
    <3> QED  BY <1>2, <2>1, <2>2
  <2>4. Input(s).values = Only("input-factors", Factors(s, "input-factors")) ++ rest.values
    BY DEF Input
  <2> HIDE DEF rest
  <2> QED  BY <2>1, <2>3, <2>4, Avoiding
<1>8. ASSUME Output(s).ends = "true"  PROVE Avoids(Output(s).values)
  <2> DEFINE files == [param \in OutputFiles |-> NoText]
             rest == Plain(s, files ++ Only("start-translation-id", Number(0))
                                ++ Only("sort-word-alignment", Number(0)),
                           AllOff(OutputFlags))
  <2>1. /\ "start-translation-id" \notin Exclusive /\ "sort-word-alignment" \notin Exclusive
        /\ "output-factors" \notin Exclusive /\ "lattice-samples" \notin Exclusive
        /\ "output-factor-delimiter" \notin Exclusive /\ "report-segmentation" \notin Exclusive
        /\ "output-word-graph" \notin Exclusive
        /\ OutputFlags \intersect Exclusive = {} /\ OutputFiles \intersect Exclusive = {}
    BY DEF Exclusive, OutputFlags, OutputFiles, SearchGraphs
  <2>2. Avoids(rest.values)
    <3>1. Avoids(files)
      BY <2>1 DEF Avoids
    <3> HIDE DEF files
    <3> QED  BY <1>2, <2>1, <3>1, Avoiding
  <2>3. \E factors, samples, delimiter, segmentation, graph :
          Output(s).values
            = Only("output-factors", factors) ++ Only("lattice-samples", samples)
                ++ First(s, Only("output-factor-delimiter", delimiter))
                ++ (Only("report-segmentation", segmentation) ++ Only("output-word-graph", graph)
                      ++ rest.values)
    BY <1>8 DEF Output, Sets
  <2> HIDE DEF rest
  <2> QED  BY <2>1, <2>2, <2>3, Avoiding
<1>9. Avoids(UnknownWords(s).values)
  <2>1. /\ "unknown-word-prefix" \notin Exclusive /\ "unknown-word-suffix" \notin Exclusive
        /\ {"drop-unknown", "mark-unknown", "phrase-drop-allowed",
            "always-create-direct-transopt"} \intersect Exclusive = {}
    BY DEF Exclusive
  <2> QED  BY <1>2, <2>1, Avoiding DEF UnknownWords
<1>10. Avoids(Mira(s).values)
  <2>1. {"mira"} \intersect Exclusive = {}
    BY DEF Exclusive
  <2> QED  BY <1>2, <2>1, NothingAvoids DEF Mira
<1> QED  BY <1>1, <1>3, <1>4, <1>5, <1>6, <1>7, <1>8, <1>9, <1>10

LEMMA GroupRules ==
  ASSUME NEW s, NEW g \in Groups, InitGroup(s, g).ends = "true"
  PROVE  Rules(InitGroup(s, g).values, s, ReadOf(g))
<1>1. CASE g = 1
  BY <1>1, SearchRules DEF InitGroup, ReadOf
<1>2. CASE g = 7
  <2>1. /\ "mbr-size" \notin Exclusive /\ "mbr-scale" \notin Exclusive
    BY DEF Exclusive
  <2>2. Rules(MBR(s).values, s, {"minimum-bayes-risk"})
    BY <2>1, Avoiding, OffRules DEF MBR
  <2> QED  BY <1>2, <2>2 DEF InitGroup, ReadOf
<1>3. CASE g = 8
  <2>1. /\ "lmbr-r" \notin Exclusive /\ "lmbr-p" \notin Exclusive
        /\ "lmbr-map-weight" \notin Exclusive /\ "lmbr-pruning-factor" \notin Exclusive
        /\ "lmbr-thetas" \notin Exclusive
    BY DEF Exclusive
  <2> DEFINE defaults == Only("lmbr-r", Number(6)) ++ Only("lmbr-p", Number(8))
                           ++ Only("lmbr-map-weight", Number(0))
                           ++ Only("lmbr-pruning-factor", Number(30))
             flags == {"lminimum-bayes-risk", "lattice-hypo-set"}
             rest == Plain(s, defaults, AllOff(flags))
  <2>2. Avoids(defaults)
    BY <2>1, Avoiding
  <2>3. Rules(rest.values, s, flags)
    <3> HIDE DEF defaults
    <3> QED  BY <2>2, OffRules
  <2>4. LMBR(s).values = Only("lmbr-thetas", Values(s, "lmbr-thetas")) ++ rest.values
    <3>1. rest = Sets(rest.values, rest.ends)
      BY DEF Plain, Sets
    <3> HIDE DEF rest
    <3> QED  BY <3>1 DEF LMBR, rest, Sets
  <2> HIDE DEF rest, defaults
  <2>5. Rules(LMBR(s).values, s, flags)
    BY <2>1, <2>3, <2>4, Avoiding, Ruling
  <2>6. Rules(LMBR(s).values, s, {"lminimum-bayes-risk"})
    BY <2>5, SameRules DEF Exclusive
  <2> QED  BY <1>3, <2>6 DEF InitGroup, ReadOf
<1>4. CASE g \in Groups \ {1, 7, 8}
  <2>1. ReadOf(g) \intersect Exclusive = {}
    BY <1>4 DEF ReadOf, Exclusive, SearchGraphs, Groups
  <2>2. Rules(InitGroup(s, g).values, s, {})
    BY <1>4, OthersRule DEF InitGroup, Groups
  <2> QED  BY <2>1, <2>2, SameRules
<1> QED  BY <1>1, <1>2, <1>3, <1>4

-----------------------------------------------------------------------------
(* The check *)

\* What the check makes of options that do not clash.
Settled(o, c) ==
  /\ \A p, q \in Exclusive : IsOn(o[p]) /\ IsOn(o[q]) => p = q
  /\ IsOn(c["minimum-bayes-risk"]) <=> \E p \in Exclusive : IsOn(o[p])
  /\ NeedsList(c) => IsOn(c["n-best-enabled"])
  /\ c["inputtype"] = Number(0) => ~IsOn(c["recover-input-path"])

LEMMA CheckedAgrees ==
  ASSUME NEW o, ~Clash(o), \A g \in Groups : ReadOf(g) \subseteq DOMAIN o
  PROVE  Settled(o, Checked(o))
<1>1. {"consensus-decoding", "n-best-enabled", "n-best-size", "inputtype",
       "minimum-bayes-risk", "lminimum-bayes-risk", "recover-input-path", "lattice-samples",
       "mira"} \union SearchGraphs \subseteq DOMAIN o
  <2>1. /\ ReadOf(1) \subseteq DOMAIN o /\ ReadOf(3) \subseteq DOMAIN o
        /\ ReadOf(6) \subseteq DOMAIN o /\ ReadOf(7) \subseteq DOMAIN o
        /\ ReadOf(8) \subseteq DOMAIN o /\ ReadOf(9) \subseteq DOMAIN o
        /\ ReadOf(11) \subseteq DOMAIN o
    BY DEF Groups
  <2> QED  BY <2>1 DEF ReadOf
<1> DEFINE mbr  == \E p \in Exclusive : IsOn(o[p])
           list == \/ mbr
                   \/ IsOn(o["n-best-enabled"]) \/ IsOn(o["mira"])
                   \/ o["n-best-size"].num > 0 \/ o["lattice-samples"].num > 0
                   \/ \E p \in SearchGraphs : o[p] # NoText
           c == Checked(o)
<1>2. \A b \in BOOLEAN : IsOn(Flag(b)) <=> b
  <2>1. Flag(TRUE).num = 1 /\ Flag(FALSE).num = 0
    BY DEF Flag, Word
  <2>2. Flag(TRUE) # Flag(FALSE)
    <3> DEFINE on == Flag(TRUE)
               off == Flag(FALSE)
    <3>1. on.num = 1 /\ off.num = 0
      BY <2>1
    <3> HIDE DEF on, off
    <3>2. on # off
      BY <3>1
    <3> QED  BY <3>2 DEF on, off
  <2>3. ASSUME NEW b \in BOOLEAN  PROVE IsOn(Flag(b)) <=> b
    <3>1. CASE b = TRUE
      BY <3>1 DEF IsOn
    <3>2. CASE b = FALSE
      BY <2>2, <3>2 DEF IsOn
    <3> QED  BY <3>1, <3>2
  <2> QED  BY <2>3
<1>3. /\ c["minimum-bayes-risk"] = Flag(mbr)
      /\ c["n-best-enabled"] = Flag(list)
      /\ c["recover-input-path"]
           = Flag(IsOn(o["recover-input-path"]) /\ o["inputtype"].num # 0)
      /\ \A p \in {"mira", "n-best-size", "lattice-samples", "inputtype"} \union SearchGraphs :
           c[p] = o[p]
  <2>1. \A p \in SearchGraphs :
          p \notin {"minimum-bayes-risk", "recover-input-path", "n-best-enabled"}
    BY DEF SearchGraphs
  <2> HIDE DEF mbr, list
  <2>2. c = [o EXCEPT !["minimum-bayes-risk"] = Flag(mbr),
                      !["recover-input-path"] = Flag(IsOn(@) /\ o["inputtype"].num # 0),
                      !["n-best-enabled"]     = Flag(list)]
    BY DEF Checked, mbr, list
  <2> HIDE DEF c
  <2> QED  BY <1>1, <2>1, <2>2
<1>4. /\ IsOn(c["minimum-bayes-risk"]) <=> mbr
      /\ IsOn(c["n-best-enabled"]) <=> list
      /\ IsOn(c["recover-input-path"])
           <=> IsOn(o["recover-input-path"]) /\ o["inputtype"].num # 0
  <2> DEFINE recover == IsOn(o["recover-input-path"]) /\ o["inputtype"].num # 0
  <2>1. mbr \in BOOLEAN /\ list \in BOOLEAN /\ recover \in BOOLEAN
    BY DEF IsOn
  <2>2. /\ c["minimum-bayes-risk"] = Flag(mbr)
        /\ c["n-best-enabled"] = Flag(list)
        /\ c["recover-input-path"] = Flag(recover)
    BY <1>3
  <2> HIDE DEF mbr, list, recover, c
  <2>3. /\ IsOn(Flag(mbr)) <=> mbr
        /\ IsOn(Flag(list)) <=> list
        /\ IsOn(Flag(recover)) <=> recover
    BY <1>2, <2>1
  <2>4. /\ IsOn(c["minimum-bayes-risk"]) <=> mbr
        /\ IsOn(c["n-best-enabled"]) <=> list
        /\ IsOn(c["recover-input-path"]) <=> recover
    BY <2>2, <2>3
  <2> QED  BY <2>4 DEF recover
<1>5. Number(0).num = 0
  BY DEF Number, Word
<1>6. \A p, q \in Exclusive : IsOn(o[p]) /\ IsOn(o[q]) => p = q
  BY DEF Clash, Exclusive
<1>7. NeedsList(c) => list
  BY <1>3, <1>4 DEF NeedsList
<1>8. c["inputtype"] = Number(0) => ~IsOn(c["recover-input-path"])
  BY <1>3, <1>4, <1>5
<1> HIDE DEF list, c
<1> QED  BY <1>4, <1>6, <1>7, <1>8 DEF Settled, c

Loaded == {"done", "no config"}

\* Nothing changes the settings once a group has been initialised, and each group
\* that has been leaves the options it rules as the settings ask for.
GroupsAreSet ==
  /\ group > 1 \/ built # "no" => pc \in Loaded
  /\ built = "no" =>
       /\ group \in 1 .. 12
       /\ \A g \in 1 .. group - 1 : ReadOf(g) \subseteq DOMAIN options
       /\ \A g \in 1 .. group - 1 : \A p \in ReadOf(g) \intersect Exclusive :
            options[p] = Flags(setting, AllOff({p}))[p]

(***************************************************************************)
(* Whatever the file and the switches, options that pass the check of      *)
(* consistency agree with each other and with the settings (AllOptions.cpp:*)
(* 16-91): of MBR, lattice MBR and consensus decoding at most one was asked*)
(* for, and MBR is on just when one was.  The group that sets one of them  *)
(* is the only one that does, and it has been initialised when the check   *)
(* comes.                                                                  *)
(***************************************************************************)
THEOREM OptionsThatPassAgree ==
  OptionsSpec => []OptionsAgree
<1> DEFINE IInv == GroupsAreSet /\ OptionsAgree
<1>1. OptionsInit => IInv
  BY DEF OptionsInit, GroupsAreSet, OptionsAgree
<1>2. IInv /\ [OptionsNext]_systemVars => IInv'
  <2> SUFFICES ASSUME IInv, [OptionsNext]_systemVars  PROVE IInv'
    OBVIOUS
  <2>1. CASE UNCHANGED systemVars
    BY <2>1 DEF GroupsAreSet, OptionsAgree, Asked, systemVars, vars
  <2>2. CASE LoadParam
    <3>1. pc \notin Loaded /\ UNCHANGED <<options, group, built>>
      BY <2>2 DEF LoadParam, Next, FindConfig, ReadConfigFile, OverwriteBySwitches,
                  OverwriteByShortcuts, AddFeaturesCmd, CheckMix, ConvertWeightArgs,
                  CreateWeightsMap, WeightOverwrite, Validate, Loaded
    <3>2. built = "no" /\ group \in 1 .. 12 /\ ~(group > 1)
      BY <3>1 DEF GroupsAreSet
    <3>3. built' = "no" /\ group' = 1 /\ \A g \in Int : g \notin 1 .. group' - 1
      BY <3>1, <3>2
    <3> QED  BY <3>3 DEF GroupsAreSet, OptionsAgree
  <2>3. CASE InitOptions
    <3> DEFINE result == InitGroup(setting, group)
    <3>1. /\ built = "no" /\ group \in Groups /\ pc \in Loaded
          /\ options' = result.values ++ options
          /\ group' = group + 1
          /\ built' = IF result.ends = "true" THEN "no" ELSE result.ends
          /\ pc' = pc /\ setting' = setting
      BY <2>3 DEF InitOptions, Loaded, vars
    <3>2. result.ends # "true" \/ ReadOf(group) \subseteq DOMAIN result.values
      BY <3>1, GroupSets
    <3>3. result.ends # "true" \/ Rules(result.values, setting, ReadOf(group))
      BY <3>1, GroupRules
    <3>4. result.ends # "no"
      BY <3>1, GroupEnds
    <3> HIDE DEF result
    <3>5. \A k \in DOMAIN result.values \union DOMAIN options : k \in DOMAIN options'
      BY <3>1, OverIs
    <3>6. GroupsAreSet'
      <4> SUFFICES ASSUME built' = "no"
                   PROVE  /\ group' \in 1 .. 12
                          /\ \A g \in 1 .. group' - 1 :
                               /\ ReadOf(g) \subseteq DOMAIN options'
                               /\ \A p \in ReadOf(g) \intersect Exclusive :
                                    options'[p] = Flags(setting, AllOff({p}))[p]
        BY <3>1 DEF GroupsAreSet
      <4>1. group' \in 1 .. 12 /\ result.ends = "true"
        BY <3>1, <3>4 DEF Groups
      <4>2. ASSUME NEW g \in 1 .. group' - 1
            PROVE  /\ ReadOf(g) \subseteq DOMAIN options'
                   /\ \A p \in ReadOf(g) \intersect Exclusive :
                        options'[p] = Flags(setting, AllOff({p}))[p]
        <5>1. g = group \/ g \in 1 .. group - 1
          BY <3>1 DEF Groups
        <5>2. CASE g = group
          BY <3>1, <3>2, <3>3, <3>5, <4>1, <5>2, OverIs DEF Rules
        <5>3. CASE g \in 1 .. group - 1
          <6>1. /\ ReadOf(g) \subseteq DOMAIN options
                /\ \A p \in ReadOf(g) \intersect Exclusive :
                     options[p] = Flags(setting, AllOff({p}))[p]
            BY <3>1, <5>3 DEF GroupsAreSet
          <6>2. ASSUME NEW p \in ReadOf(g) \intersect Exclusive
                PROVE  options'[p] = Flags(setting, AllOff({p}))[p]
            <7>1. CASE p \in ReadOf(group)
              BY <3>1, <3>3, <4>1, <7>1, OverIs DEF Rules
            <7>2. CASE p \notin ReadOf(group)
              BY <3>1, <3>3, <4>1, <6>1, <7>2, OverIs DEF Rules
            <7> QED  BY <7>1, <7>2
          <6> QED  BY <3>5, <6>1, <6>2
        <5> QED  BY <5>1, <5>2, <5>3
      <4> QED  BY <4>1, <4>2
    <3>7. built' # "true"
      BY <3>1
    <3> QED  BY <3>6, <3>7 DEF OptionsAgree
  <2>4. CASE SanityCheck
    <3>1. /\ built = "no" /\ group = 12 /\ pc' = pc /\ setting' = setting /\ group' = group
          /\ pc \in Loaded
      BY <2>4 DEF SanityCheck, GroupsAreSet, Groups, vars
    <3>2. CASE Clash(options)
      <4>1. built' = "false"
        BY <2>4, <3>2 DEF SanityCheck
      <4> QED  BY <3>1, <4>1 DEF GroupsAreSet, OptionsAgree
    <3>3. CASE ~Clash(options)
      <4>1. \A g \in Groups : ReadOf(g) \subseteq DOMAIN options
        BY <3>1 DEF GroupsAreSet, Groups
      <4>2. built' = "true" /\ options' = Checked(options)
        BY <2>4, <3>3 DEF SanityCheck
      <4>3. Settled(options, options')
        BY <3>3, <4>1, <4>2, CheckedAgrees
      <4>4. \A p \in Exclusive : options[p] = Flags(setting, AllOff({p}))[p]
        <5>1. \A g \in {1, 7, 8} : \A p \in ReadOf(g) \intersect Exclusive :
                options[p] = Flags(setting, AllOff({p}))[p]
          <6>1. \A g \in 1 .. 11 : \A p \in ReadOf(g) \intersect Exclusive :
                  options[p] = Flags(setting, AllOff({p}))[p]
            <7>1. 1 .. group - 1 = 1 .. 11
              BY <3>1
            <7>2. \A g \in 1 .. group - 1 : \A p \in ReadOf(g) \intersect Exclusive :
                    options[p] = Flags(setting, AllOff({p}))[p]
              BY <3>1, Zenon DEF GroupsAreSet
            <7> QED  BY <7>1, <7>2, Zenon
          <6>2. 1 \in 1 .. 11 /\ 7 \in 1 .. 11 /\ 8 \in 1 .. 11
            OBVIOUS
          <6> QED  BY <6>1, <6>2, Zenon
        <5>2. \A p \in Exclusive : \E g \in {1, 7, 8} : p \in ReadOf(g)
          BY DEF Exclusive, ReadOf
        <5> QED  BY <5>1, <5>2
      <4>5. Asked' = {p \in Exclusive : IsOn(options[p])}
        BY <3>1, <4>4 DEF Asked
      <4>6. OptionsAgree'
        BY <4>3, <4>5 DEF OptionsAgree, Settled
      <4> QED  BY <3>1, <4>2, <4>6 DEF GroupsAreSet
    <3> QED  BY <3>2, <3>3
  <2> QED  BY <2>1, <2>2, <2>3, <2>4 DEF OptionsNext
<1> QED  BY <1>1, <1>2, PTL DEF OptionsSpec

-----------------------------------------------------------------------------
(* The weights of the lines *)

WeightMaps == UNION {[S -> Lines] : S \in SUBSET Words}

NoWeights == [name \in {} |-> <<>>]

Mapped(w, lines) ==
  FoldLeft(LAMBDA u, line : Only(line[1], Tail(line)) ++ u, w, lines)

AreMaps(total, w, lines) ==
  /\ total \in [0 .. Len(lines) -> WeightMaps]
  /\ total[0] = w
  /\ \A n \in 1 .. Len(lines) :
       total[n] = Only(lines[n][1], Tail(lines[n])) ++ total[n - 1]

LEMMA WithLine ==
  ASSUME NEW w \in WeightMaps, NEW line \in Lines, Len(line) > 0
  PROVE  Only(line[1], Tail(line)) ++ w \in WeightMaps
<1>1. line[1] \in Words /\ Tail(line) \in Lines
  BY DEF Lines
<1>2. PICK S \in SUBSET Words : w \in [S -> Lines]
  BY DEF WeightMaps
<1>3. Only(line[1], Tail(line)) \in [{line[1]} -> Lines]
  BY <1>1, OnlyIsMap
<1>4. Only(line[1], Tail(line)) ++ w \in [{line[1]} \union S -> Lines]
  BY <1>2, <1>3, OverIsMap
<1>5. {line[1]} \union S \in SUBSET Words
  BY <1>1
<1> QED  BY <1>4, <1>5 DEF WeightMaps

LEMMA MappedInSteps ==
  ASSUME NEW w \in WeightMaps, NEW lines \in Seq(Lines),
         \A i \in DOMAIN lines : Len(lines[i]) > 0
  PROVE  \E total : AreMaps(total, w, lines) /\ Mapped(w, lines) = total[Len(lines)]
<1> DEFINE N == Len(lines)
           op(u, line) == Only(line[1], Tail(line)) ++ u
           IsIter(f) == f = [s \in SUBSET (1 .. N) |->
                               IF s = {} THEN w ELSE op(f[s \ {Max(s)}], lines[Max(s)])]
           iter == CHOOSE f : IsIter(f)
<1>1. N \in Nat /\ DOMAIN lines = 1 .. N /\ \A n \in 1 .. N : lines[n] \in Lines
  OBVIOUS
<1>2. Mapped(w, lines) = iter[1 .. N]
  BY <1>1 DEF Mapped, FoldLeft, MapThenFoldSet
<1>3. \A u \in WeightMaps : \A n \in 1 .. N : op(u, lines[n]) \in WeightMaps
  BY <1>1, WithLine
<1> HIDE DEF op, N
<1>4. IsIter(iter)
  <2> DEFINE step == [k \in 1 .. N |-> [x \in WeightMaps |-> op(x, lines[k])]]
  <2>1. step \in [1 .. N -> [WeightMaps -> WeightMaps]]
    BY <1>3
  <2>2. PICK f \in [SUBSET (1 .. N) -> WeightMaps] : IsFold(f, step, w, N)
    <3> HIDE DEF step
    <3> QED  BY <1>1, <2>1, FoldExists
  <2>3. ASSUME NEW s \in SUBSET (1 .. N)
        PROVE  f[s] = IF s = {} THEN w ELSE op(f[s \ {Max(s)}], lines[Max(s)])
    <3>1. CASE s = {}
      BY <2>2, <3>1 DEF IsFold
    <3>2. CASE s # {}
      <4>1. Max(s) \in 1 .. N
        BY <1>1, <3>2, MaxIs
      <4>2. f[s] = step[Max(s)][f[s \ {Max(s)}]] /\ f[s \ {Max(s)}] \in WeightMaps
        <5> HIDE DEF step
        <5> QED  BY <2>2, <3>2 DEF IsFold
      <4> QED  BY <3>2, <4>1, <4>2
    <3> QED  BY <3>1, <3>2
  <2>4. f = [s \in SUBSET (1 .. N) |-> f[s]]
    OBVIOUS
  <2>5. IsIter(f)
    <3> HIDE DEF step
    <3> QED  BY <2>3, <2>4
  <2> HIDE DEF IsIter
  <2> QED  BY <2>5
<1>5. \A s \in SUBSET (1 .. N) :
        iter[s] = IF s = {} THEN w ELSE op(iter[s \ {Max(s)}], lines[Max(s)])
  <2> HIDE DEF iter
  <2> QED  BY <1>4
<1> HIDE DEF iter, IsIter
<1> DEFINE total == [n \in 0 .. N |-> iter[1 .. n]]
<1>6. iter[1 .. 0] = w
  <2>1. 1 .. 0 = {} /\ {} \in SUBSET (1 .. N)
    OBVIOUS
  <2> QED  BY <1>5, <2>1
<1>7. ASSUME NEW k \in 1 .. N
      PROVE  iter[1 .. k] = op(iter[1 .. k - 1], lines[k])
  <2>1. /\ 1 .. k \in SUBSET (1 .. N) /\ 1 .. k # {} /\ Max(1 .. k) = k
        /\ (1 .. k) \ {Max(1 .. k)} = 1 .. k - 1
    BY <1>1, MaxOfPrefix
  <2> QED  BY <1>5, <2>1
<1> DEFINE good == {k \in 0 .. N : iter[1 .. k] \in WeightMaps}
<1>8. 0 \in good
  BY <1>1, <1>6
<1>9. ASSUME NEW k \in 1 .. N, k - 1 \in good
      PROVE  k \in good
  <2>1. iter[1 .. k - 1] \in WeightMaps
    BY <1>9
  <2>2. iter[1 .. k] \in WeightMaps
    BY <1>3, <1>7, <2>1
  <2> QED  BY <1>1, <2>2
<1>10. \A k \in 0 .. N : k \in good
  <2> HIDE DEF good
  <2> QED  BY <1>1, <1>8, <1>9, UpTo
<1>11. total \in [0 .. N -> WeightMaps] /\ total[0] = w /\ total[N] = iter[1 .. N]
  BY <1>1, <1>6, <1>10
<1>12. ASSUME NEW n \in 1 .. N
       PROVE  total[n] = Only(lines[n][1], Tail(lines[n])) ++ total[n - 1]
  <2>1. n \in 0 .. N /\ n - 1 \in 0 .. N
    BY <1>1
  <2> QED  BY <1>7, <2>1 DEF op
<1> HIDE DEF total
<1>13. AreMaps(total, w, lines)
  BY <1>11, <1>12 DEF AreMaps, N
<1> QED  BY <1>2, <1>11, <1>13 DEF N

\* Line i is the last of its name.
IsLast(lines, i) ==
  \A j \in DOMAIN lines : lines[j][1] = lines[i][1] => j <= i

LEMMA MappedIs ==
  ASSUME NEW lines \in Seq(Lines), \A i \in DOMAIN lines : Len(lines[i]) > 0
  PROVE  /\ Mapped(NoWeights, lines) \in WeightMaps
         /\ DOMAIN Mapped(NoWeights, lines) = {lines[i][1] : i \in DOMAIN lines}
         /\ \A i \in DOMAIN lines :
              IsLast(lines, i) => Mapped(NoWeights, lines)[lines[i][1]] = Tail(lines[i])
<1> DEFINE N == Len(lines)
<1>1. NoWeights \in WeightMaps /\ DOMAIN NoWeights = {}
  <2>1. NoWeights \in [{} -> Lines] /\ {} \in SUBSET Words
    BY DEF NoWeights
  <2> QED  BY <2>1 DEF WeightMaps
<1>2. PICK total : AreMaps(total, NoWeights, lines) /\ Mapped(NoWeights, lines) = total[N]
  BY <1>1, MappedInSteps
<1>3. N \in Nat /\ DOMAIN lines = 1 .. N
  OBVIOUS
<1> HIDE DEF N
<1> DEFINE Holds(n) ==
             /\ \A k : k \in DOMAIN total[n] <=> \E i \in 1 .. n : lines[i][1] = k
             /\ \A i \in 1 .. n :
                  (\A j \in 1 .. n : lines[j][1] = lines[i][1] => j <= i)
                    => total[n][lines[i][1]] = Tail(lines[i])
           good == {n \in 0 .. N : Holds(n)}
<1>4. 0 \in good
  BY <1>1, <1>2, <1>3 DEF AreMaps
<1>5. ASSUME NEW n \in 1 .. N, n - 1 \in good
      PROVE  n \in good
  <2> DEFINE entry == Only(lines[n][1], Tail(lines[n]))
  <2>1. total[n] = entry ++ total[n - 1] /\ Holds(n - 1)
    BY <1>2, <1>5 DEF AreMaps, N
  <2>2. /\ \A k : k \in DOMAIN entry <=> k = lines[n][1]
        /\ entry[lines[n][1]] = Tail(lines[n])
    BY OnlyIs
  <2> HIDE DEF entry
  <2>3. /\ \A k : k \in DOMAIN total[n] <=> k = lines[n][1] \/ k \in DOMAIN total[n - 1]
        /\ total[n][lines[n][1]] = Tail(lines[n])
        /\ \A k \in DOMAIN total[n - 1] : k # lines[n][1] => total[n][k] = total[n - 1][k]
    BY <2>1, <2>2, OverIs
  <2>4. \A i : i \in 1 .. n <=> i = n \/ i \in 1 .. n - 1
    BY <1>3
  <2>5. \A k : k \in DOMAIN total[n] <=> \E i \in 1 .. n : lines[i][1] = k
    BY <2>1, <2>3, <2>4
  <2>6. ASSUME NEW i \in 1 .. n, \A j \in 1 .. n : lines[j][1] = lines[i][1] => j <= i
        PROVE  total[n][lines[i][1]] = Tail(lines[i])
    <3>1. CASE i = n
      BY <2>3, <3>1
    <3>2. CASE i # n
      <4>1. i \in 1 .. n - 1 /\ lines[n][1] # lines[i][1]
        BY <1>3, <2>4, <2>6, <3>2
      <4>2. total[n - 1][lines[i][1]] = Tail(lines[i])
        BY <2>1, <2>4, <2>6, <4>1
      <4>3. lines[i][1] \in DOMAIN total[n - 1]
        BY <2>1, <4>1
      <4> QED  BY <2>3, <4>1, <4>2, <4>3
    <3> QED  BY <3>1, <3>2
  <2> QED  BY <1>3, <2>5, <2>6
<1>6. \A n \in 0 .. N : n \in good
  <2> HIDE DEF good
  <2> QED  BY <1>3, <1>4, <1>5, UpTo
<1>7. total[N] \in WeightMaps
  BY <1>2, <1>3 DEF AreMaps, N
<1>8. Holds(N)
  <2>1. N \in good
    <3> HIDE DEF good
    <3> QED  BY <1>3, <1>6
  <2> HIDE DEF Holds
  <2> QED  BY <2>1
<1> QED  BY <1>2, <1>3, <1>7, <1>8 DEF IsLast

-----------------------------------------------------------------------------
(* The words of weight-overwrite *)

Progress == [map : WeightMaps, name : Lines, weights : Lines, old : Lines,
             cnt : Nat, failed : BOOLEAN]

Start(w) == [map |-> w, name |-> <<>>, weights |-> <<>>, old |-> <<>>,
             cnt |-> 0, failed |-> FALSE]

LEMMA SaveIsProgress ==
  ASSUME NEW acc \in Progress
  PROVE  /\ Save(acc) \in Progress
         /\ Save(acc).failed = acc.failed
         /\ acc.name = <<>> => Save(acc) = acc
         /\ acc.name # <<>> =>
              /\ Save(acc).map = Only(acc.name[1], acc.weights) ++ acc.map
              /\ Save(acc).weights = <<>>
<1> DEFINE new == Only(acc.name[1], acc.weights) ++ acc.map
<1>1. acc.name \in Lines /\ acc.weights \in Lines /\ acc.map \in WeightMaps
  BY DEF Progress
<1>2. <<>> \in Lines
  BY DEF Lines
<1>3. CASE acc.name = <<>>
  BY <1>3 DEF Save
<1>4. CASE acc.name # <<>>
  <2>1. acc.name[1] \in Words
    BY <1>1, <1>4 DEF Lines
  <2>2. new \in WeightMaps
    <3>1. PICK S \in SUBSET Words : acc.map \in [S -> Lines]
      BY <1>1 DEF WeightMaps
    <3>2. Only(acc.name[1], acc.weights) \in [{acc.name[1]} -> Lines]
      BY <1>1, OnlyIsMap
    <3>3. new \in [{acc.name[1]} \union S -> Lines]
      BY <3>1, <3>2, OverIsMap
    <3>4. {acc.name[1]} \union S \in SUBSET Words
      BY <2>1
    <3> QED  BY <3>3, <3>4 DEF WeightMaps
  <2>3. Save(acc) = [acc EXCEPT !.map = new, !.weights = <<>>]
    BY <1>4 DEF Save
  <2> HIDE DEF new
  <2>4. /\ Save(acc) \in Progress /\ Save(acc).failed = acc.failed
        /\ Save(acc).map = new /\ Save(acc).weights = <<>>
    BY <1>2, <2>2, <2>3 DEF Progress
  <2> QED  BY <1>4, <2>4 DEF new
<1> QED  BY <1>3, <1>4

LEMMA ReadWordIsProgress ==
  ASSUME NEW acc \in Progress, NEW word \in Words
  PROVE  /\ ReadWord(acc, word) \in Progress
         /\ ReadWord(acc, word).failed \in {acc.failed, TRUE}
<1>0. ~IsName(Keep)
  <2>1. Keep.tag = "keep"
    BY DEF Keep, Word
  <2> QED  BY <2>1 DEF IsName
<1>1. CASE IsName(word)
  <2> DEFINE saved == Save(acc)
             old == IF word \in DOMAIN saved.map THEN saved.map[word] ELSE <<>>
  <2>1. saved \in Progress /\ saved.failed = acc.failed
    BY SaveIsProgress
  <2> HIDE DEF saved
  <2>2. old \in Lines
    <3>1. PICK S \in SUBSET Words : saved.map \in [S -> Lines]
      BY <2>1 DEF Progress, WeightMaps
    <3>2. <<>> \in Lines
      BY DEF Lines
    <3> QED  BY <3>1, <3>2
  <2>3. <<word>> \in Lines
    BY DEF Lines
  <2>4. ReadWord(acc, word) = [saved EXCEPT !.name = <<word>>, !.old = old, !.cnt = 0]
    <3>1. word # Keep
      BY <1>0, <1>1
    <3> QED  BY <1>1, <3>1 DEF ReadWord, saved
  <2> HIDE DEF old
  <2>5. ReadWord(acc, word) \in Progress
    <3>1. ReadWord(acc, word)
            = [map |-> saved.map, name |-> <<word>>, weights |-> saved.weights, old |-> old,
               cnt |-> 0, failed |-> saved.failed]
      BY <2>1, <2>4 DEF Progress
    <3> QED  BY <2>1, <2>2, <2>3, <3>1 DEF Progress
  <2>6. ReadWord(acc, word).failed = saved.failed
    BY <2>1, <2>4 DEF Progress
  <2> QED  BY <2>1, <2>5, <2>6
<1>2. CASE ~IsName(word) /\ word = Keep
  <2>1. CASE acc.cnt < Len(acc.old)
    <3>1. ReadWord(acc, word)
            = [acc EXCEPT !.weights = Append(acc.weights, acc.old[acc.cnt + 1]),
                          !.cnt = acc.cnt + 1]
      BY <1>2, <2>1 DEF ReadWord
    <3>2. Append(acc.weights, acc.old[acc.cnt + 1]) \in Lines
      BY <2>1 DEF Progress, Lines
    <3>3. ReadWord(acc, word) \in Progress
      <4>1. ReadWord(acc, word)
              = [map |-> acc.map, name |-> acc.name,
                 weights |-> Append(acc.weights, acc.old[acc.cnt + 1]), old |-> acc.old,
                 cnt |-> acc.cnt + 1, failed |-> acc.failed]
        BY <3>1 DEF Progress
      <4> QED  BY <3>2, <4>1 DEF Progress
    <3>4. ReadWord(acc, word).failed = acc.failed
      BY <3>1 DEF Progress
    <3> QED  BY <3>3, <3>4
  <2>2. CASE ~(acc.cnt < Len(acc.old))
    <3>1. ReadWord(acc, word) = [acc EXCEPT !.failed = TRUE]
      BY <1>2, <2>2 DEF ReadWord
    <3> QED  BY <3>1 DEF Progress
  <2> QED  BY <2>1, <2>2
<1>3. CASE ~IsName(word) /\ word # Keep
  <2>1. ReadWord(acc, word) = [acc EXCEPT !.weights = Append(acc.weights, word),
                                          !.cnt = acc.cnt + 1]
    BY <1>3 DEF ReadWord
  <2>2. Append(acc.weights, word) \in Lines
    BY DEF Progress, Lines
  <2>3. ReadWord(acc, word) \in Progress
    <3>1. ReadWord(acc, word)
            = [map |-> acc.map, name |-> acc.name, weights |-> Append(acc.weights, word),
               old |-> acc.old, cnt |-> acc.cnt + 1, failed |-> acc.failed]
      BY <2>1 DEF Progress
    <3> QED  BY <2>2, <3>1 DEF Progress
  <2>4. ReadWord(acc, word).failed = acc.failed
    BY <2>1 DEF Progress
  <2> QED  BY <2>3, <2>4
<1> QED  BY <1>1, <1>2, <1>3

ReadAll(start, line) == FoldLeft(ReadWord, start, line)

AreRead(acc, start, line) ==
  /\ acc \in [0 .. Len(line) -> Progress]
  /\ acc[0] = start
  /\ \A n \in 1 .. Len(line) : acc[n] = ReadWord(acc[n - 1], line[n])

LEMMA ReadInSteps ==
  ASSUME NEW start \in Progress, NEW line \in Lines
  PROVE  \E acc : AreRead(acc, start, line) /\ ReadAll(start, line) = acc[Len(line)]
<1> DEFINE N == Len(line)
           op(u, word) == ReadWord(u, word)
           IsIter(f) == f = [s \in SUBSET (1 .. N) |->
                               IF s = {} THEN start ELSE op(f[s \ {Max(s)}], line[Max(s)])]
           iter == CHOOSE f : IsIter(f)
<1>1. N \in Nat /\ DOMAIN line = 1 .. N /\ \A n \in 1 .. N : line[n] \in Words
  BY DEF Lines
<1>2. ReadAll(start, line) = iter[1 .. N]
  BY <1>1 DEF ReadAll, FoldLeft, MapThenFoldSet
<1>3. \A u \in Progress : \A n \in 1 .. N : op(u, line[n]) \in Progress
  BY <1>1, ReadWordIsProgress
<1> HIDE DEF op, N
<1>4. IsIter(iter)
  <2> DEFINE step == [k \in 1 .. N |-> [x \in Progress |-> op(x, line[k])]]
  <2>1. step \in [1 .. N -> [Progress -> Progress]]
    BY <1>3
  <2>2. PICK f \in [SUBSET (1 .. N) -> Progress] : IsFold(f, step, start, N)
    <3> HIDE DEF step
    <3> QED  BY <1>1, <2>1, FoldExists
  <2>3. ASSUME NEW s \in SUBSET (1 .. N)
        PROVE  f[s] = IF s = {} THEN start ELSE op(f[s \ {Max(s)}], line[Max(s)])
    <3>1. CASE s = {}
      BY <2>2, <3>1 DEF IsFold
    <3>2. CASE s # {}
      <4>1. Max(s) \in 1 .. N
        BY <1>1, <3>2, MaxIs
      <4>2. f[s] = step[Max(s)][f[s \ {Max(s)}]] /\ f[s \ {Max(s)}] \in Progress
        <5> HIDE DEF step
        <5> QED  BY <2>2, <3>2 DEF IsFold
      <4> QED  BY <3>2, <4>1, <4>2
    <3> QED  BY <3>1, <3>2
  <2>4. f = [s \in SUBSET (1 .. N) |-> f[s]]
    OBVIOUS
  <2>5. IsIter(f)
    <3> HIDE DEF step
    <3> QED  BY <2>3, <2>4
  <2> HIDE DEF IsIter
  <2> QED  BY <2>5
<1>5. \A s \in SUBSET (1 .. N) :
        iter[s] = IF s = {} THEN start ELSE op(iter[s \ {Max(s)}], line[Max(s)])
  <2> HIDE DEF iter
  <2> QED  BY <1>4
<1> HIDE DEF iter, IsIter
<1> DEFINE acc == [n \in 0 .. N |-> iter[1 .. n]]
<1>6. iter[1 .. 0] = start
  <2>1. 1 .. 0 = {} /\ {} \in SUBSET (1 .. N)
    OBVIOUS
  <2> QED  BY <1>5, <2>1
<1>7. ASSUME NEW k \in 1 .. N
      PROVE  iter[1 .. k] = op(iter[1 .. k - 1], line[k])
  <2>1. /\ 1 .. k \in SUBSET (1 .. N) /\ 1 .. k # {} /\ Max(1 .. k) = k
        /\ (1 .. k) \ {Max(1 .. k)} = 1 .. k - 1
    BY <1>1, MaxOfPrefix
  <2> QED  BY <1>5, <2>1
<1> DEFINE good == {k \in 0 .. N : iter[1 .. k] \in Progress}
<1>8. 0 \in good
  BY <1>1, <1>6
<1>9. ASSUME NEW k \in 1 .. N, k - 1 \in good
      PROVE  k \in good
  <2>1. iter[1 .. k - 1] \in Progress
    BY <1>9
  <2>2. iter[1 .. k] \in Progress
    BY <1>3, <1>7, <2>1
  <2> QED  BY <1>1, <2>2
<1>10. \A k \in 0 .. N : k \in good
  <2> HIDE DEF good
  <2> QED  BY <1>1, <1>8, <1>9, UpTo
<1>11. acc \in [0 .. N -> Progress] /\ acc[0] = start /\ acc[N] = iter[1 .. N]
  BY <1>1, <1>6, <1>10
<1>12. ASSUME NEW n \in 1 .. N
       PROVE  acc[n] = ReadWord(acc[n - 1], line[n])
  <2>1. n \in 0 .. N /\ n - 1 \in 0 .. N
    BY <1>1
  <2> QED  BY <1>7, <2>1 DEF op
<1> HIDE DEF acc
<1>13. AreRead(acc, start, line)
  BY <1>11, <1>12 DEF AreRead, N
<1> QED  BY <1>2, <1>11, <1>13 DEF N

\* The words from q + 1 to e - 1 are all of those for the name at q.
IsSegment(line, q, e) ==
  /\ IsName(line[q]) /\ q < e
  /\ \A i \in q + 1 .. e - 1 : ~IsName(line[i])
  /\ e <= Len(line) => IsName(line[e])

\* What these words give the name at q.
AreGiven(v, w, line, q, e) ==
  /\ v \in Lines /\ Len(v) = e - q - 1
  /\ \A k \in 1 .. e - q - 1 :
       IF line[q + k] = Keep
       THEN line[q] \in DOMAIN w /\ k <= Len(w[line[q]]) /\ v[k] = w[line[q]][k]
       ELSE v[k] = line[q + k]

AreNamesOnce(line) ==
  /\ line # <<>> => IsName(line[1])
  /\ \A i, j \in DOMAIN line : IsName(line[i]) /\ line[i] = line[j] => i = j

\* The map has the weights for the names before p.
IsSavedUpTo(m, w, line, p) ==
  /\ \A k : k \in DOMAIN m <=>
              k \in DOMAIN w \/ \E i \in 1 .. p - 1 : IsName(line[i]) /\ line[i] = k
  /\ \A k \in DOMAIN w :
       (\A i \in 1 .. p - 1 : IsName(line[i]) => line[i] # k) => m[k] = w[k]
  /\ \A q \in 1 .. p - 1 : \A e \in 1 .. p :
       IsSegment(line, q, e) => AreGiven(m[line[q]], w, line, q, e)

\* The name at p is the last of the first n words.
IsOpenAt(acc, w, line, p, n) ==
  /\ IsName(line[p]) /\ \A i \in p + 1 .. n : ~IsName(line[i])
  /\ acc.name = <<line[p]>>
  /\ acc.old = IF line[p] \in DOMAIN w THEN w[line[p]] ELSE <<>>
  /\ acc.cnt = n - p
  /\ AreGiven(acc.weights, w, line, p, n + 1)
  /\ IsSavedUpTo(acc.map, w, line, p)

LEMMA SavesOne ==
  ASSUME NEW w \in WeightMaps, NEW line \in Lines, AreNamesOnce(line),
         NEW n \in 1 .. Len(line), NEW p \in 1 .. n,
         NEW acc \in Progress, IsOpenAt(acc, w, line, p, n)
  PROVE  IsSavedUpTo(Save(acc).map, w, line, n + 1) /\ Save(acc).weights = <<>>
<1> DEFINE entry == Only(line[p], acc.weights)
           m == acc.map
           new == Save(acc).map
<1>1. /\ Len(line) \in Nat /\ DOMAIN line = 1 .. Len(line) /\ n \in Nat /\ p \in Nat
      /\ p <= n /\ n <= Len(line)
  BY DEF Lines
<1>2. new = entry ++ m /\ Save(acc).weights = <<>>
  <2>1. acc.name = <<line[p]>>
    BY DEF IsOpenAt
  <2>2. acc.name # <<>> /\ acc.name[1] = line[p]
    BY <2>1
  <2> QED  BY <2>2, SaveIsProgress
<1>3. (\A k : k \in DOMAIN entry <=> k = line[p]) /\ entry[line[p]] = acc.weights
  BY OnlyIs
<1> HIDE DEF entry, new
<1>4. /\ \A k : k \in DOMAIN new <=> k = line[p] \/ k \in DOMAIN m
      /\ new[line[p]] = acc.weights
      /\ \A k \in DOMAIN m : k # line[p] => new[k] = m[k]
  BY <1>2, <1>3, OverIs
<1>5. /\ IsName(line[p]) /\ \A i \in p + 1 .. n : ~IsName(line[i])
      /\ AreGiven(acc.weights, w, line, p, n + 1)
      /\ IsSavedUpTo(m, w, line, p)
  BY DEF IsOpenAt
<1>6. \A i \in 1 .. n : IsName(line[i]) <=> i = p \/ (i \in 1 .. p - 1 /\ IsName(line[i]))
  BY <1>1, <1>5
<1>7. \A k : k \in DOMAIN new <=>
               k \in DOMAIN w \/ \E i \in 1 .. n : IsName(line[i]) /\ line[i] = k
  <2>1. \A k : k \in DOMAIN m <=>
                 k \in DOMAIN w \/ \E i \in 1 .. p - 1 : IsName(line[i]) /\ line[i] = k
    BY <1>5 DEF IsSavedUpTo
  <2>2. \A k : (\E i \in 1 .. n : IsName(line[i]) /\ line[i] = k) <=>
                 k = line[p] \/ \E i \in 1 .. p - 1 : IsName(line[i]) /\ line[i] = k
    BY <1>1, <1>6
  <2> QED  BY <1>4, <2>1, <2>2
<1>8. ASSUME NEW k \in DOMAIN w, \A i \in 1 .. n : IsName(line[i]) => line[i] # k
      PROVE  new[k] = w[k]
  <2>1. k # line[p] /\ \A i \in 1 .. p - 1 : IsName(line[i]) => line[i] # k
    BY <1>1, <1>5, <1>8
  <2>2. k \in DOMAIN m /\ m[k] = w[k]
    BY <1>5, <2>1 DEF IsSavedUpTo
  <2> QED  BY <1>4, <2>1, <2>2
<1>9. ASSUME NEW q \in 1 .. n, NEW e \in 1 .. n + 1, IsSegment(line, q, e)
      PROVE  AreGiven(new[line[q]], w, line, q, e)
  <2>1. /\ IsName(line[q]) /\ q < e
        /\ \A i \in q + 1 .. e - 1 : ~IsName(line[i])
        /\ e <= Len(line) => IsName(line[e])
    BY <1>9 DEF IsSegment
  <2>2. CASE q = p
    <3>1. e = n + 1
      <4>1. ~ (e \in p + 1 .. n)
        BY <1>1, <1>5, <2>1, <2>2
      <4> QED  BY <1>1, <2>1, <2>2, <4>1
    <3> QED  BY <1>4, <1>5, <2>2, <3>1
  <2>3. CASE q # p
    <3>1. q \in 1 .. p - 1
      BY <1>6, <2>1, <2>3
    <3>2. e \in 1 .. p
      <4>1. ~ (p \in q + 1 .. e - 1)
        BY <1>5, <2>1
      <4> QED  BY <1>1, <2>1, <3>1, <4>1
    <3>3. AreGiven(m[line[q]], w, line, q, e)
      BY <1>5, <1>9, <3>1, <3>2 DEF IsSavedUpTo
    <3>4. line[q] # line[p]
      BY <1>1, <1>5, <2>3, <3>1 DEF AreNamesOnce
    <3>5. line[q] \in DOMAIN m
      BY <1>5, <2>1, <3>1 DEF IsSavedUpTo
    <3> QED  BY <1>4, <3>3, <3>4, <3>5
  <2> QED  BY <2>2, <2>3
<1>10. (n + 1) - 1 = n
  BY <1>1
<1> QED  BY <1>2, <1>7, <1>8, <1>9, <1>10 DEF IsSavedUpTo, new

LEMMA ReadsName ==
  ASSUME NEW w \in WeightMaps, NEW line \in Lines, AreNamesOnce(line),
         NEW n \in 0 .. Len(line) - 1, NEW acc \in Progress,
         IsSavedUpTo(Save(acc).map, w, line, n + 1), Save(acc).weights = <<>>,
         IsName(line[n + 1])
  PROVE  IsOpenAt(ReadWord(acc, line[n + 1]), w, line, n + 1, n + 1)
<1> DEFINE word == line[n + 1]
           saved == Save(acc)
           old == IF word \in DOMAIN saved.map THEN saved.map[word] ELSE <<>>
           new == ReadWord(acc, word)
<1>1. Len(line) \in Nat /\ DOMAIN line = 1 .. Len(line) /\ n \in Nat /\ n + 1 \in 1 .. Len(line)
  BY DEF Lines
<1>2. word # Keep
  <2>1. Keep.tag = "keep"
    BY DEF Keep, Word
  <2> QED  BY <2>1 DEF IsName
<1>3. saved \in Progress /\ saved.weights = <<>> /\ IsSavedUpTo(saved.map, w, line, n + 1)
  BY SaveIsProgress
<1>4. new = [saved EXCEPT !.name = <<word>>, !.old = old, !.cnt = 0]
  BY <1>2 DEF ReadWord
<1>5. old = IF word \in DOMAIN w THEN w[word] ELSE <<>>
  <2>1. \A i \in 1 .. n : IsName(line[i]) => line[i] # word
    BY <1>1 DEF AreNamesOnce
  <2>2. (n + 1) - 1 = n
    BY <1>1
  <2> HIDE DEF saved, word
  <2>3. word \in DOMAIN saved.map <=> word \in DOMAIN w
    BY <1>3, <2>1, <2>2 DEF IsSavedUpTo
  <2>4. word \in DOMAIN w => saved.map[word] = w[word]
    BY <1>3, <2>1, <2>2 DEF IsSavedUpTo
  <2> QED  BY <2>3, <2>4
<1> HIDE DEF saved, old, new
<1>6. /\ new.map = saved.map /\ new.name = <<word>> /\ new.weights = <<>>
      /\ new.old = old /\ new.cnt = 0
  BY <1>3, <1>4 DEF Progress
<1>7. AreGiven(<<>>, w, line, n + 1, n + 2)
  <2>1. <<>> \in Lines /\ Len(<<>>) = 0 /\ (n + 2) - (n + 1) - 1 = 0
    BY <1>1 DEF Lines
  <2> QED  BY <2>1 DEF AreGiven
<1>8. (n + 1) + 1 = n + 2 /\ (n + 1) - (n + 1) = 0 /\ (n + 1) + 1 .. n + 1 = {}
  BY <1>1
<1>9. IsOpenAt(new, w, line, n + 1, n + 1)
  BY <1>3, <1>5, <1>6, <1>7, <1>8 DEF IsOpenAt
<1> QED  BY <1>9 DEF new

LEMMA ReadsWeight ==
  ASSUME NEW w \in WeightMaps, NEW line \in Lines, AreNamesOnce(line),
         NEW n \in 1 .. Len(line) - 1, NEW p \in 1 .. n,
         NEW acc \in Progress, IsOpenAt(acc, w, line, p, n),
         ~IsName(line[n + 1]), ReadWord(acc, line[n + 1]).failed = FALSE
  PROVE  IsOpenAt(ReadWord(acc, line[n + 1]), w, line, p, n + 1)
<1> DEFINE word == line[n + 1]
           new == ReadWord(acc, word)
           kept == IF word = Keep THEN acc.old[acc.cnt + 1] ELSE word
           v == Append(acc.weights, kept)
<1>1. /\ Len(line) \in Nat /\ DOMAIN line = 1 .. Len(line) /\ n \in Nat /\ p \in Nat
      /\ p <= n /\ n + 1 \in 1 .. Len(line) /\ word \in Words
  BY DEF Lines
<1>2. /\ IsName(line[p]) /\ \A i \in p + 1 .. n : ~IsName(line[i])
      /\ acc.name = <<line[p]>>
      /\ acc.old = IF line[p] \in DOMAIN w THEN w[line[p]] ELSE <<>>
      /\ acc.cnt = n - p
      /\ AreGiven(acc.weights, w, line, p, n + 1)
      /\ IsSavedUpTo(acc.map, w, line, p)
  BY DEF IsOpenAt
<1>3. acc.cnt \in Nat /\ acc.old \in Lines /\ acc.weights \in Lines
  BY DEF Progress
<1>4. word = Keep => acc.cnt < Len(acc.old)
  <2>1. word = Keep /\ ~(acc.cnt < Len(acc.old)) => new = [acc EXCEPT !.failed = TRUE]
    BY DEF ReadWord
  <2>2. [acc EXCEPT !.failed = TRUE].failed = TRUE
    BY DEF Progress
  <2> QED  BY <2>1, <2>2
<1>5. new = [acc EXCEPT !.weights = v, !.cnt = acc.cnt + 1]
  <2>1. CASE word = Keep
    BY <1>4, <2>1 DEF ReadWord
  <2>2. CASE word # Keep
    BY <2>2 DEF ReadWord
  <2> QED  BY <2>1, <2>2
<1>6. kept \in Words
  BY <1>1, <1>3, <1>4 DEF Lines
<1> HIDE DEF new, kept
<1>7. /\ v \in Lines /\ Len(v) = Len(acc.weights) + 1
      /\ \A k \in 1 .. Len(acc.weights) : v[k] = acc.weights[k]
      /\ v[Len(acc.weights) + 1] = kept
  BY <1>3, <1>6 DEF Lines
<1> HIDE DEF v
<1>8. /\ new.map = acc.map /\ new.name = acc.name /\ new.weights = v
      /\ new.old = acc.old /\ new.cnt = acc.cnt + 1
  BY <1>5 DEF Progress
<1>9. /\ Len(acc.weights) = n - p
      /\ \A k \in 1 .. n - p :
           IF line[p + k] = Keep
           THEN line[p] \in DOMAIN w /\ k <= Len(w[line[p]])
                  /\ acc.weights[k] = w[line[p]][k]
           ELSE acc.weights[k] = line[p + k]
  <2>1. (n + 1) - p - 1 = n - p
    BY <1>1
  <2> QED  BY <1>2, <2>1 DEF AreGiven
<1>10. AreGiven(v, w, line, p, n + 2)
  <2>1. (n + 2) - p - 1 = n - p + 1 /\ p + (n - p + 1) = n + 1
    BY <1>1
  <2>2. ASSUME NEW k \in 1 .. n - p + 1
        PROVE  IF line[p + k] = Keep
               THEN line[p] \in DOMAIN w /\ k <= Len(w[line[p]]) /\ v[k] = w[line[p]][k]
               ELSE v[k] = line[p + k]
    <3>1. CASE k \in 1 .. n - p
      BY <1>7, <1>9, <3>1
    <3>2. CASE k = n - p + 1
      <4>1. line[p + k] = word /\ v[k] = kept
        BY <1>7, <1>9, <2>1, <3>2
      <4>2. CASE word = Keep
        <5>1. acc.cnt + 1 = k /\ acc.cnt + 1 <= Len(acc.old)
          BY <1>1, <1>2, <1>3, <1>4, <3>2, <4>2 DEF Lines
        <5>2. line[p] \in DOMAIN w /\ acc.old = w[line[p]]
          <6>1. Len(<<>>) = 0
            OBVIOUS
          <6> QED  BY <1>2, <1>3, <5>1, <6>1
        <5>3. kept = acc.old[acc.cnt + 1]
          BY <4>2 DEF kept
        <5> QED  BY <4>1, <4>2, <5>1, <5>2, <5>3
      <4>3. CASE word # Keep
        BY <4>1, <4>3 DEF kept
      <4> QED  BY <4>2, <4>3
    <3> QED  BY <1>1, <3>1, <3>2
  <2>3. Len(v) = (n + 2) - p - 1
    BY <1>7, <1>9, <2>1
  <2> QED  BY <1>7, <2>1, <2>2, <2>3 DEF AreGiven
<1>11. \A i \in p + 1 .. n + 1 : ~IsName(line[i])
  BY <1>1, <1>2
<1>12. (n + 1) + 1 = n + 2 /\ acc.cnt + 1 = (n + 1) - p
  BY <1>1, <1>2
<1>13. IsOpenAt(new, w, line, p, n + 1)
  BY <1>2, <1>8, <1>10, <1>11, <1>12 DEF IsOpenAt
<1> QED  BY <1>13 DEF new

LEMMA OverwrittenIs ==
  ASSUME NEW w \in WeightMaps, NEW line \in Lines, AreNamesOnce(line),
         ReadAll(Start(w), line).failed = FALSE
  PROVE  IsSavedUpTo(Save(ReadAll(Start(w), line)).map, w, line, Len(line) + 1)
<1> DEFINE N == Len(line)
           start == Start(w)
<1>1. N \in Nat /\ DOMAIN line = 1 .. N /\ \A n \in 1 .. N : line[n] \in Words
  BY DEF Lines
<1>2. start \in Progress /\ start.name = <<>> /\ start.weights = <<>> /\ start.map = w
  BY DEF Start, Progress, Lines
<1>3. PICK acc : AreRead(acc, start, line) /\ ReadAll(start, line) = acc[N]
  BY <1>2, ReadInSteps
<1>4. /\ acc \in [0 .. N -> Progress] /\ acc[0] = start
      /\ \A n \in 1 .. N : acc[n] = ReadWord(acc[n - 1], line[n])
  BY <1>3 DEF AreRead
<1>5. IsSavedUpTo(w, w, line, 1)
  BY DEF IsSavedUpTo
<1>6. Save(start) = start
  BY <1>2, SaveIsProgress
<1> DEFINE Holds(n) ==
             acc[n].failed = FALSE =>
               IF n = 0 THEN acc[n] = start
               ELSE \E p \in 1 .. n : IsOpenAt(acc[n], w, line, p, n)
           good == {n \in 0 .. N : Holds(n)}
<1> HIDE DEF N, start
<1>7. 0 \in good
  BY <1>1, <1>4
<1>8. ASSUME NEW n \in 1 .. N, n - 1 \in good
      PROVE  n \in good
  <2>0. n # 0 /\ n \in 0 .. N
    BY <1>1
  <2> SUFFICES Holds(n)
    BY <2>0
  <2> SUFFICES ASSUME acc[n].failed = FALSE
               PROVE  \E p \in 1 .. n : IsOpenAt(acc[n], w, line, p, n)
    BY <2>0
  <2> DEFINE m == n - 1
  <2>1. m \in 0 .. N - 1 /\ n = m + 1 /\ line[n] \in Words
    BY <1>1
  <2>2. acc[m] \in Progress /\ acc[n] = ReadWord(acc[m], line[n])
    BY <1>1, <1>4, <2>1
  <2>3. acc[m].failed = FALSE
    <3>1. acc[n].failed \in {acc[m].failed, TRUE}
      BY <2>1, <2>2, ReadWordIsProgress
    <3> QED  BY <3>1
  <2>4. Holds(m)
    BY <1>8
  <2> HIDE DEF m
  <2>5. CASE m = 0
    <3>1. acc[m] = start
      BY <2>3, <2>4, <2>5
    <3>2. IsName(line[1])
      BY <1>1, <2>1, <2>5 DEF AreNamesOnce, Lines
    <3>3. IsSavedUpTo(Save(acc[m]).map, w, line, m + 1) /\ Save(acc[m]).weights = <<>>
      BY <1>2, <1>5, <1>6, <2>5, <3>1
    <3>4. IsOpenAt(acc[n], w, line, n, n)
      BY <2>1, <2>2, <2>5, <3>2, <3>3, ReadsName DEF N
    <3> QED  BY <1>1, <3>4
  <2>6. CASE m # 0
    <3>1. PICK p \in 1 .. m : IsOpenAt(acc[m], w, line, p, m)
      BY <2>3, <2>4, <2>6
    <3>2. m \in 1 .. N - 1 /\ m \in 1 .. N
      BY <1>1, <2>1, <2>6
    <3>3. CASE IsName(line[n])
      <4>1. IsSavedUpTo(Save(acc[m]).map, w, line, m + 1) /\ Save(acc[m]).weights = <<>>
        BY <2>2, <3>1, <3>2, SavesOne DEF N
      <4>2. IsOpenAt(acc[n], w, line, n, n)
        BY <2>1, <2>2, <3>3, <4>1, ReadsName DEF N
      <4> QED  BY <1>1, <4>2
    <3>4. CASE ~IsName(line[n])
      <4>1. IsOpenAt(acc[n], w, line, p, n)
        BY <2>1, <2>2, <3>1, <3>2, <3>4, ReadsWeight DEF N
      <4>2. p \in 1 .. n
        BY <2>1, <3>2
      <4> QED  BY <4>1, <4>2
    <3> QED  BY <3>3, <3>4
  <2> QED  BY <2>5, <2>6
<1>9. \A n \in 0 .. N : n \in good
  <2> HIDE DEF good
  <2> QED  BY <1>1, <1>7, <1>8, UpTo
<1>10. Holds(N)
  <2>1. N \in good
    <3> HIDE DEF good
    <3> QED  BY <1>1, <1>9
  <2> HIDE DEF Holds
  <2> QED  BY <2>1
<1>11. acc[N] \in Progress /\ acc[N].failed = FALSE
  BY <1>1, <1>3, <1>4 DEF start
<1>12. CASE N = 0
  <2>1. acc[N] = start
    BY <1>10, <1>11, <1>12
  <2> QED  BY <1>2, <1>3, <1>5, <1>6, <1>12, <2>1 DEF N, start
<1>13. CASE N # 0
  <2>1. PICK p \in 1 .. N : IsOpenAt(acc[N], w, line, p, N)
    BY <1>10, <1>11, <1>13
  <2>2. N \in 1 .. N
    BY <1>1, <1>13
  <2>3. IsSavedUpTo(Save(acc[N]).map, w, line, N + 1)
    BY <1>11, <2>1, <2>2, SavesOne DEF N
  <2> QED  BY <1>3, <2>3 DEF N, start
<1> QED  BY <1>12, <1>13

-----------------------------------------------------------------------------
(* Where weights come from *)

LEMMA RangeIs ==
  ASSUME NEW s, NEW x
  PROVE  x \in Range(s) <=> \E i \in DOMAIN s : s[i] = x
BY DEF Range

LEMMA LastForIs ==
  ASSUME NEW lines \in Seq(Lines), NEW name
  PROVE  /\ LastFor(lines, name) = {} <=> \A i \in DOMAIN lines : lines[i][1] # name
         /\ LastFor(lines, name) # {} =>
              \E i \in DOMAIN lines :
                /\ lines[i][1] = name /\ IsLast(lines, i)
                /\ LastFor(lines, name) = {Tail(lines[i])}
<1> DEFINE at == {i \in DOMAIN lines : lines[i][1] = name}
<1>1. DOMAIN lines = 1 .. Len(lines) /\ Len(lines) \in Nat
  OBVIOUS
<1>2. LastFor(lines, name) = IF at = {} THEN {} ELSE {Tail(lines[Max(at)])}
  BY DEF LastFor
<1>3. CASE at = {}
  BY <1>2, <1>3
<1>4. CASE at # {}
  <2>1. Max(at) \in at /\ \A y \in at : Max(at) >= y
    BY <1>1, <1>4, MaxIs
  <2>2. Max(at) \in DOMAIN lines /\ lines[Max(at)][1] = name
    BY <2>1
  <2>3. IsLast(lines, Max(at))
    BY <1>1, <2>1, <2>2 DEF IsLast
  <2>4. LastFor(lines, name) = {Tail(lines[Max(at)])}
    BY <1>2, <1>4
  <2> HIDE DEF at
  <2> QED  BY <2>2, <2>3, <2>4
<1> QED  BY <1>3, <1>4

LEMMA BeforeOverwritingIs ==
  ASSUME Values(setting, "weight") \in Seq(Lines), Values(setting, "weight-add") \in Seq(Lines),
         \A i \in DOMAIN WeightLines(setting) : Len(WeightLines(setting)[i]) > 0,
         NEW name \in DOMAIN Mapped(NoWeights, WeightLines(setting))
  PROVE  BeforeOverwriting(name) = {Mapped(NoWeights, WeightLines(setting))[name]}
<1> DEFINE added == Values(setting, "weight-add")
           given == Values(setting, "weight")
           lines == WeightLines(setting)
           w == Mapped(NoWeights, lines)
<1>1. lines = added \o given
  BY DEF WeightLines
<1>2. added \in Seq(Lines) /\ given \in Seq(Lines)
  OBVIOUS
<1> HIDE DEF added, given, lines
<1>3. /\ lines \in Seq(Lines) /\ Len(added) \in Nat /\ Len(given) \in Nat
      /\ Len(lines) = Len(added) + Len(given)
      /\ DOMAIN lines = 1 .. Len(lines)
      /\ DOMAIN added = 1 .. Len(added) /\ DOMAIN given = 1 .. Len(given)
      /\ \A i \in 1 .. Len(added) : lines[i] = added[i]
      /\ \A j \in 1 .. Len(given) : lines[Len(added) + j] = given[j]
  <2>1. lines \in Seq(Lines)
    BY <1>1, <1>2
  <2>2. /\ Len(lines) = Len(added) + Len(given)
        /\ \A i \in 1 .. Len(added) : lines[i] = added[i]
        /\ \A j \in 1 .. Len(given) : lines[Len(added) + j] = given[j]
    BY <1>1, <1>2, ConcatenationIs
  <2> QED  BY <1>2, <2>1, <2>2
<1>4. /\ DOMAIN w = {lines[i][1] : i \in DOMAIN lines}
      /\ \A i \in DOMAIN lines : IsLast(lines, i) => w[lines[i][1]] = Tail(lines[i])
  <2>1. \A i \in DOMAIN lines : Len(lines[i]) > 0
    BY DEF lines
  <2> QED  BY <1>3, <2>1, MappedIs
<1>5. name \in DOMAIN w
  BY DEF lines
<1> HIDE DEF w
<1>6. BeforeOverwriting(name) = IF LastFor(given, name) # {} THEN LastFor(given, name)
                                ELSE LastFor(added, name)
  BY DEF BeforeOverwriting, given, added
<1>7. CASE LastFor(given, name) # {}
  <2>1. PICK j \in DOMAIN given : /\ given[j][1] = name /\ IsLast(given, j)
                                  /\ LastFor(given, name) = {Tail(given[j])}
    BY <1>2, <1>7, LastForIs
  <2> DEFINE i == Len(added) + j
  <2>2. i \in DOMAIN lines /\ lines[i] = given[j]
    BY <1>3
  <2>3. IsLast(lines, i)
    <3>1. ASSUME NEW k \in DOMAIN lines, lines[k][1] = lines[i][1]
          PROVE  k <= i
      <4>1. CASE k <= Len(added)
        BY <1>3, <4>1
      <4>2. CASE ~ (k <= Len(added))
        <5> DEFINE l == k - Len(added)
        <5>1. l \in DOMAIN given /\ k = Len(added) + l
          BY <1>3, <4>2
        <5>2. given[l] = lines[k]
          BY <1>3, <5>1
        <5>3. l <= j
          BY <2>1, <2>2, <3>1, <5>1, <5>2 DEF IsLast
        <5> QED  BY <1>3, <5>1, <5>3
      <4> QED  BY <4>1, <4>2
    <3> QED  BY <3>1 DEF IsLast
  <2>4. w[name] = Tail(given[j])
    <3> HIDE DEF i
    <3> QED  BY <1>4, <2>1, <2>2, <2>3
  <2> QED  BY <1>6, <1>7, <2>1, <2>4 DEF w, lines
<1>8. CASE LastFor(given, name) = {}
  <2>1. \A j \in DOMAIN given : given[j][1] # name
    BY <1>2, <1>8, LastForIs
  <2>2. \A k \in DOMAIN lines : lines[k][1] = name => k \in DOMAIN added
    <3>1. ASSUME NEW k \in DOMAIN lines, k \notin DOMAIN added
          PROVE  lines[k][1] # name
      <4> DEFINE l == k - Len(added)
      <4>1. l \in DOMAIN given /\ k = Len(added) + l
        BY <1>3, <3>1
      <4>2. given[l] = lines[k]
        BY <1>3, <4>1
      <4> HIDE DEF l
      <4> QED  BY <2>1, <4>1, <4>2
    <3> QED  BY <3>1
  <2>3. PICK k \in DOMAIN lines : lines[k][1] = name
    BY <1>4, <1>5
  <2>4. k \in DOMAIN added /\ added[k][1] = name
    BY <1>3, <2>2, <2>3
  <2>5. LastFor(added, name) # {}
    BY <1>2, <2>4, LastForIs
  <2>6. PICK i \in DOMAIN added : /\ added[i][1] = name /\ IsLast(added, i)
                                  /\ LastFor(added, name) = {Tail(added[i])}
    BY <1>2, <2>5, LastForIs
  <2>7. i \in DOMAIN lines /\ lines[i] = added[i]
    BY <1>3
  <2>8. IsLast(lines, i)
    BY <1>3, <2>2, <2>6, <2>7 DEF IsLast
  <2>9. w[name] = Tail(added[i])
    BY <1>4, <2>6, <2>7, <2>8
  <2> QED  BY <1>6, <1>8, <2>6, <2>9 DEF w, lines
<1> QED  BY <1>7, <1>8

LEMMA WordsForIs ==
  ASSUME NEW name, OverwriteWords \in Lines, PlainOverwrite
  PROVE  /\ WordsFor(name) = {} =>
              \A i \in DOMAIN OverwriteWords :
                IsName(OverwriteWords[i]) => OverwriteWords[i] # name
         /\ WordsFor(name) # {} =>
              \E q \in DOMAIN OverwriteWords : \E e \in 1 .. Len(OverwriteWords) + 1 :
                /\ OverwriteWords[q] = name /\ IsSegment(OverwriteWords, q, e)
                /\ WordsFor(name) = {SubSeq(OverwriteWords, q + 1, e - 1)}
<1> DEFINE words == OverwriteWords
           N == Len(words)
           at == {i \in DOMAIN words : IsName(words[i]) /\ words[i] = name}
           end == {i \in DOMAIN words : i > Max(at) /\ IsName(words[i])} \union {N + 1}
<1>1. N \in Nat /\ DOMAIN words = 1 .. N
  BY DEF Lines
<1>2. WordsFor(name) = IF at = {} THEN {} ELSE {SubSeq(words, Max(at) + 1, Min(end) - 1)}
  BY DEF WordsFor
<1>3. CASE at = {}
  BY <1>2, <1>3
<1>4. CASE at # {}
  <2> DEFINE q == Max(at)
             e == Min(end)
  <2>1. q \in at
    BY <1>1, <1>4, MaxIs
  <2>2. end \in SUBSET (1 .. N + 1) /\ end # {} /\ N + 1 \in Nat
    BY <1>1
  <2>3. e \in end /\ \A y \in end : e <= y
    <3> HIDE DEF end
    <3> QED  BY <2>2, MinIs
  <2>4. q \in DOMAIN words /\ words[q] = name /\ IsName(words[q]) /\ e \in 1 .. N + 1
    BY <2>1, <2>2, <2>3
  <2>5. IsSegment(words, q, e)
    <3>1. q < e
      BY <1>1, <2>3, <2>4
    <3>2. \A i \in q + 1 .. e - 1 : ~IsName(words[i])
      <4>1. ASSUME NEW i \in q + 1 .. e - 1, IsName(words[i])
            PROVE  FALSE
        <5>1. i \in 1 .. N /\ i > q /\ i < e
          BY <1>1, <2>4
        <5>2. i \in end
          BY <1>1, <4>1, <5>1
        <5>3. e <= i
          BY <2>3, <5>2
        <5> QED  BY <1>1, <2>4, <5>1, <5>3
      <4> QED  BY <4>1
    <3>3. e <= N => IsName(words[e])
      BY <1>1, <2>3
    <3> QED  BY <2>4, <3>1, <3>2, <3>3 DEF IsSegment
  <2>6. WordsFor(name) = {SubSeq(words, q + 1, e - 1)}
    BY <1>2, <1>4
  <2> HIDE DEF q, e, at, end
  <2> QED  BY <2>4, <2>5, <2>6
<1> QED  BY <1>3, <1>4

LEMMA PrecedenceHolds ==
  ASSUME Values(setting, "weight") \in Seq(Lines), Values(setting, "weight-add") \in Seq(Lines),
         \A i \in DOMAIN WeightLines(setting) : Len(WeightLines(setting)[i]) > 0,
         OverwriteWords \in Lines,
         PlainOverwrite =>
           IsSavedUpTo(weights, Mapped(NoWeights, WeightLines(setting)),
                       OverwriteWords, Len(OverwriteWords) + 1)
  PROVE  WeightsPrecedence
<1> SUFFICES ASSUME PlainOverwrite
             PROVE  /\ DOMAIN weights =
                         {line[1] : line \in Range(WeightLines(setting))}
                           \union {word \in Range(OverwriteWords) : IsName(word)}
                    /\ \A name \in DOMAIN weights :
                         IF WordsFor(name) = {}
                         THEN BeforeOverwriting(name) = {weights[name]}
                         ELSE \A words \in WordsFor(name) :
                                /\ Len(weights[name]) = Len(words)
                                /\ \A i \in DOMAIN words :
                                     IF words[i] = Keep
                                     THEN \E kept \in BeforeOverwriting(name) :
                                            weights[name][i] = kept[i]
                                     ELSE weights[name][i] = words[i]
  BY DEF WeightsPrecedence
<1> DEFINE lines == WeightLines(setting)
           w == Mapped(NoWeights, lines)
           line == OverwriteWords
           N == Len(line)
<1>1. lines \in Seq(Lines)
  BY DEF WeightLines
<1>2. w \in WeightMaps /\ DOMAIN w = {lines[i][1] : i \in DOMAIN lines}
  BY <1>1, MappedIs
<1>3. N \in Nat /\ DOMAIN line = 1 .. N /\ (N + 1) - 1 = N
  BY DEF Lines
<1>4. IsSavedUpTo(weights, w, line, N + 1)
  OBVIOUS
<1> HIDE DEF w, lines, N
<1>5. /\ \A k : k \in DOMAIN weights <=>
                 k \in DOMAIN w \/ \E i \in 1 .. N : IsName(line[i]) /\ line[i] = k
      /\ \A k \in DOMAIN w :
           (\A i \in 1 .. N : IsName(line[i]) => line[i] # k) => weights[k] = w[k]
      /\ \A q \in 1 .. N : \A e \in 1 .. N + 1 :
           IsSegment(line, q, e) => AreGiven(weights[line[q]], w, line, q, e)
  <2> HIDE DEF line
  <2> QED  BY <1>3, <1>4 DEF IsSavedUpTo
<1>6. DOMAIN weights = {l[1] : l \in Range(lines)} \union {word \in Range(line) : IsName(word)}
  <2>1. \A k : k \in DOMAIN w <=> \E l \in Range(lines) : l[1] = k
    BY <1>2, RangeIs
  <2>2. \A k : (\E i \in 1 .. N : IsName(line[i]) /\ line[i] = k)
                <=> k \in Range(line) /\ IsName(k)
    <3> HIDE DEF line
    <3> QED  BY <1>3, RangeIs
  <2> DEFINE named == {l[1] : l \in Range(lines)}
             overwritten == {word \in Range(line) : IsName(word)}
             all == DOMAIN weights
  <2>3. \A k : k \in named <=> \E l \in Range(lines) : l[1] = k
    OBVIOUS
  <2>4. \A k : k \in overwritten <=> k \in Range(line) /\ IsName(k)
    OBVIOUS
  <2>5. \A k : k \in all <=> k \in named \/ k \in overwritten
    <3> HIDE DEF line, named, overwritten
    <3> QED  BY <1>5, <2>1, <2>2, <2>3, <2>4
  <2> HIDE DEF line, named, overwritten, all
  <2>6. all = named \union overwritten
    BY <2>5
  <2> QED  BY <2>6 DEF line, named, overwritten, all
<1>7. ASSUME NEW name \in DOMAIN weights, WordsFor(name) = {}
      PROVE  BeforeOverwriting(name) = {weights[name]}
  <2>1. \A i \in 1 .. N : IsName(line[i]) => line[i] # name
    BY <1>3, <1>7, WordsForIs
  <2>2. name \in DOMAIN w /\ weights[name] = w[name]
    <3> HIDE DEF line
    <3> QED  BY <1>5, <2>1
  <2>3. BeforeOverwriting(name) = {w[name]}
    BY <2>2, BeforeOverwritingIs DEF w, lines
  <2> QED  BY <2>2, <2>3
<1>8. ASSUME NEW name \in DOMAIN weights, NEW words \in WordsFor(name)
      PROVE  /\ Len(weights[name]) = Len(words)
             /\ \A i \in DOMAIN words :
                  IF words[i] = Keep
                  THEN \E kept \in BeforeOverwriting(name) : weights[name][i] = kept[i]
                  ELSE weights[name][i] = words[i]
  <2>1. PICK q \in DOMAIN line, e \in 1 .. N + 1 :
          /\ line[q] = name /\ IsSegment(line, q, e)
          /\ WordsFor(name) = {SubSeq(line, q + 1, e - 1)}
    BY <1>8, WordsForIs DEF N
  <2>2. AreGiven(weights[name], w, line, q, e)
    <3> HIDE DEF line
    <3> QED  BY <1>3, <1>5, <2>1
  <2>3. words = SubSeq(line, q + 1, e - 1) /\ q < e
    BY <1>8, <2>1 DEF IsSegment
  <2>4. /\ Len(words) = e - q - 1 /\ DOMAIN words = 1 .. e - q - 1
        /\ \A i \in 1 .. e - q - 1 : words[i] = line[q + i]
    <3> HIDE DEF line
    <3>1. line \in Seq(Words)
      BY DEF line, Lines
    <3>2. q \in 1 .. N /\ e - 1 \in 0 .. N /\ q + 1 \in 1 .. N + 1 /\ q + 1 <= e - 1 + 1
      BY <1>3, <2>1, <2>3
    <3>3. Len(words) = e - q - 1 /\ words \in Seq(Words)
      BY <1>3, <2>3, <3>1, <3>2 DEF N
    <3>4. \A i \in 1 .. e - q - 1 : words[i] = line[q + i]
      <4>1. q + 1 \in Int /\ e - 1 \in Int /\ \A i \in q + 1 .. e - 1 : line[i] \in Words
        BY <1>3, <3>1, <3>2 DEF N
      <4>2. \A i \in 1 .. (e - 1) - (q + 1) + 1 : words[i] = line[(q + 1) + i - 1]
        BY <2>3, <4>1, SubSeqProperties
      <4>3. ASSUME NEW i \in 1 .. e - q - 1
            PROVE  words[i] = line[q + i]
        <5>0. q \in Int /\ e \in Int /\ i \in Int /\ 1 <= i /\ i <= e - q - 1
          BY <1>3, <3>2
        <5>1. i \in 1 .. (e - 1) - (q + 1) + 1 /\ (q + 1) + i - 1 = q + i
          BY <5>0
        <5> QED  BY <4>2, <5>1
      <4> QED  BY <4>3
    <3> QED  BY <3>3, <3>4
  <2>5. Len(weights[name]) = Len(words)
    BY <2>2, <2>4 DEF AreGiven
  <2>6. ASSUME NEW i \in DOMAIN words
        PROVE  IF words[i] = Keep
               THEN \E kept \in BeforeOverwriting(name) : weights[name][i] = kept[i]
               ELSE weights[name][i] = words[i]
    <3>1. IF words[i] = Keep
          THEN name \in DOMAIN w /\ weights[name][i] = w[name][i]
          ELSE weights[name][i] = words[i]
      <4> HIDE DEF line
      <4> QED  BY <2>1, <2>2, <2>4 DEF AreGiven
    <3>2. name \in DOMAIN w => BeforeOverwriting(name) = {w[name]}
      BY BeforeOverwritingIs DEF w, lines
    <3> QED  BY <3>1, <3>2
  <2> QED  BY <2>5, <2>6
<1> QED  BY <1>6, <1>7, <1>8 DEF lines

-----------------------------------------------------------------------------
(* Settings *)

\* Parameters whose lines have fields that a conversion reads.
Tabled == {"generation-file", "distortion-file", "ttable-file", "lmodel-oov-feature"}

LEMMA LinesAre ==
  ASSUME NEW param
  PROVE  LinesFor(param) \subseteq Lines /\ (param \notin Tabled => LinesFor(param) = Lines)
BY DEF LinesFor, Tabled

LEMMA ValuesAre ==
  ASSUME NEW s, IsSetting(s), NEW param
  PROVE  Values(s, param) \in Seq(LinesFor(param)) /\ Values(s, param) \in Seq(Lines)
<1> DEFINE X == LinesFor(param)
<1>1. X \subseteq Lines
  BY LinesAre
<1>2. Values(s, param) \in Seq(X)
  <2>1. <<>> \in Seq(X)
    <3> HIDE DEF X
    <3> QED  OBVIOUS
  <2> QED  BY <2>1 DEF IsSetting, Values, Defined
<1> HIDE DEF X
<1>3. Values(s, param) \in Seq(Lines)
  <2> DEFINE v == Values(s, param)
  <2>1. Len(v) \in Nat /\ v \in [1 .. Len(v) -> X]
    BY <1>2
  <2>2. v \in [1 .. Len(v) -> Lines]
    BY <1>1, <2>1
  <2> HIDE DEF v
  <2> QED  BY <2>1, <2>2 DEF v
<1> QED  BY <1>2, <1>3 DEF X

LEMMA LongerSeq ==
  ASSUME NEW X, NEW v \in Seq(X)
  PROVE  /\ \A x \in X : Append(v, x) \in Seq(X)
         /\ \A w \in Seq(X) : v \o w \in Seq(X)
OBVIOUS

\* A setting by its values.
LEMMA SettingIs ==
  ASSUME NEW D, NEW s, s = [param \in D |-> s[param]],
         \A param \in D : s[param] \in Seq(LinesFor(param))
  PROVE  IsSetting(s)
<1>1. DOMAIN s = D
  OBVIOUS
<1> QED  BY <1>1 DEF IsSetting

\* Parameter param gets these lines, and the others keep theirs.
LEMMA GivenLines ==
  ASSUME NEW s, IsSetting(s), NEW param, NEW lines \in Seq(LinesFor(param))
  PROVE  IsSetting(Only(param, lines) ++ s)
<1> DEFINE t == Only(param, lines) ++ s
           D == DOMAIN s \union {param}
<1>1. /\ \A k : k \in DOMAIN Only(param, lines) <=> k = param
      /\ Only(param, lines)[param] = lines
  BY OnlyIs
<1>2. /\ t[param] = lines
      /\ \A k \in DOMAIN s : k # param => t[k] = s[k]
      /\ \A k : k \in DOMAIN t <=> k \in D
  <2> DEFINE f == Only(param, lines)
  <2> HIDE DEF f
  <2>1. /\ \A k : k \in DOMAIN f <=> k = param
        /\ f[param] = lines
    BY <1>1 DEF f
  <2>2. t = f ++ s
    BY DEF f
  <2> HIDE DEF t
  <2>3. /\ \A k : k \in DOMAIN t <=> k \in DOMAIN f \/ k \in DOMAIN s
        /\ \A k \in DOMAIN f : t[k] = f[k]
        /\ \A k \in DOMAIN s : k \notin DOMAIN f => t[k] = s[k]
    BY <2>2, OverIs
  <2> QED  BY <2>1, <2>3
<1>3. t = [k \in DOMAIN t |-> t[k]]
  BY DEF ++
<1> HIDE DEF t
<1>4. DOMAIN t = D
  BY <1>2
<1>5. t = [k \in D |-> t[k]]
  BY <1>3, <1>4
<1>7. \A k \in D : t[k] \in Seq(LinesFor(k))
  BY <1>2 DEF IsSetting
<1> HIDE DEF D
<1>8. IsSetting(t)
  BY <1>5, <1>7, SettingIs
<1> QED  BY <1>8 DEF t

LEMMA PushIsSetting ==
  ASSUME NEW s, IsSetting(s), NEW param, NEW line \in LinesFor(param)
  PROVE  IsSetting(Push(s, param, line))
<1> DEFINE X == LinesFor(param)
<1>1. Values(s, param) \in Seq(X) /\ line \in X
  BY ValuesAre
<1>2. Append(Values(s, param), line) \in Seq(X)
  <2> HIDE DEF X
  <2> QED  BY <1>1, LongerSeq
<1> QED  BY <1>2, GivenLines DEF Push

LEMMA PushAllIsSetting ==
  ASSUME NEW s, IsSetting(s), NEW param, NEW lines \in Seq(LinesFor(param))
  PROVE  IsSetting(PushAll(s, param, lines))
<1> DEFINE X == LinesFor(param)
<1>1. Values(s, param) \in Seq(X) /\ lines \in Seq(X)
  BY ValuesAre
<1>2. Values(s, param) \o lines \in Seq(X)
  <2> HIDE DEF X
  <2> QED  BY <1>1, LongerSeq
<1>3. IsSetting(Only(param, Values(s, param) \o lines) ++ s)
  BY <1>2, GivenLines
<1> QED  BY <1>3 DEF PushAll

LEMMA EraseIsSetting ==
  ASSUME NEW s, IsSetting(s), NEW params
  PROVE  IsSetting(Erase(s, params))
<1> DEFINE D == DOMAIN s \ params
           t == Erase(s, params)
<1>1. t = [k \in D |-> s[k]]
  BY DEF Erase, Restrict
<1>2. \A k \in D : s[k] \in Seq(LinesFor(k))
  BY DEF IsSetting
<1> HIDE DEF t, D
<1>3. t = [k \in D |-> t[k]] /\ \A k \in D : t[k] = s[k]
  BY <1>1
<1>4. IsSetting(t)
  BY <1>2, <1>3, SettingIs
<1> QED  BY <1>4 DEF t

LEMMA TouchIsSetting ==
  ASSUME NEW s, IsSetting(s), NEW params
  PROVE  IsSetting(Touch(s, params))
<1> DEFINE D == DOMAIN s \union params
           t == Touch(s, params)
<1>1. t = [k \in D |-> Values(s, k)]
  BY DEF Touch
<1> HIDE DEF t, D
<1>3. t = [k \in D |-> t[k]] /\ \A k \in D : t[k] = Values(s, k)
  BY <1>1
<1>4. \A k \in D : t[k] \in Seq(LinesFor(k))
  BY <1>3, ValuesAre
<1>5. IsSetting(t)
  BY <1>3, <1>4, SettingIs
<1> QED  BY <1>5 DEF t

LEMMA NoSettingsIsSetting == IsSetting(NoSettings)
BY DEF NoSettings, IsSetting

-----------------------------------------------------------------------------
(* The conversion of the old format *)

LEMMA NumbersAre ==
  ASSUME NEW s, IsSetting(s), NEW param
  PROVE  Numbers(s, param) \in Lines
<1>1. Values(s, param) \in Seq(Seq(Words))
  BY ValuesAre DEF Lines
<1>2. <<>> \in Seq(Words)
  OBVIOUS
<1>3. FlattenSeq(Values(s, param)) \in Seq(Words)
  BY <1>1, <1>2, JoinedWithOneMore
<1> QED  BY <1>3 DEF Numbers, Lines

LEMMA SumIs ==
  ASSUME NEW X \in {Nat, Int}, NEW sizes \in Seq(X)
  PROVE  /\ SumTo(sizes, 0) = 0
         /\ \A k \in 0 .. Len(sizes) : SumTo(sizes, k) \in X
         /\ \A k \in 1 .. Len(sizes) : SumTo(sizes, k) = SumTo(sizes, k - 1) + sizes[k]
<1> DEFINE N == Len(sizes)
           IsSum(f) == f = [i \in 0 .. N |-> IF i = 0 THEN 0 ELSE f[i - 1] + sizes[i]]
           sum == CHOOSE f : IsSum(f)
           step == [k \in 1 .. N |-> [x \in X |-> x + sizes[k]]]
<1>1. N \in Nat /\ 0 \in X /\ X \subseteq Int /\ \A k \in 1 .. N : sizes[k] \in X
  OBVIOUS
<1>0. \A x, y \in X : x + y \in X
  <2>1. CASE X = Nat
    BY <2>1
  <2>2. CASE X = Int
    BY <2>2
  <2> QED  BY <2>1, <2>2
<1>2. \A k \in 1 .. N : \A x \in X : step[k][x] = x + sizes[k] /\ step[k][x] \in X
  <2> HIDE DEF N
  <2> QED  BY <1>0, <1>1
<1>3. PICK f \in [0 .. N -> X] : IsRecursion(f, N, 0, step)
  <2> HIDE DEF step, N
  <2> QED  BY <1>1, <1>2, RecursionExists
<1>4. IsSum(f)
  <2>1. f = [k \in 0 .. N |-> f[k]]
    OBVIOUS
  <2>2. ASSUME NEW k \in 0 .. N
        PROVE  f[k] = IF k = 0 THEN 0 ELSE f[k - 1] + sizes[k]
    <3>1. f[k] = IF k = 0 THEN 0 ELSE step[k][f[k - 1]]
      <4> HIDE DEF step, N
      <4> QED  BY <1>3 DEF IsRecursion
    <3>2. k # 0 => k \in 1 .. N /\ f[k - 1] \in X
      BY <1>1
    <3> HIDE DEF step, N
    <3> QED  BY <1>2, <3>1, <3>2
  <2> HIDE DEF N
  <2> QED  BY <2>1, <2>2
<1>5. IsSum(sum)
  <2> HIDE DEF IsSum
  <2> QED  BY <1>4
<1>6. \A k : SumTo(sizes, k) = sum[k]
  BY DEF SumTo
<1> HIDE DEF sum, N
<1>7. /\ sum[0] = 0
      /\ \A k \in 1 .. N : sum[k] = sum[k - 1] + sizes[k]
  <2>1. \A k \in 0 .. N : sum[k] = IF k = 0 THEN 0 ELSE sum[k - 1] + sizes[k]
    BY <1>5
  <2> QED  BY <1>1, <2>1
<1>8. \A k \in 0 .. N : sum[k] \in X
  <2> DEFINE good == {k \in 0 .. N : sum[k] \in X}
  <2>1. 0 \in good
    BY <1>1, <1>7
  <2>2. ASSUME NEW k \in 1 .. N, k - 1 \in good
        PROVE  k \in good
    <3>1. sum[k - 1] \in X /\ sizes[k] \in X /\ sum[k] = sum[k - 1] + sizes[k]
      BY <1>1, <1>7, <2>2
    <3>2. sum[k] \in X
      BY <1>0, <3>1
    <3> QED  BY <1>1, <3>2
  <2>3. \A k \in 0 .. N : k \in good
    <3> HIDE DEF good
    <3> QED  BY <1>1, <2>1, <2>2, UpTo
  <2> QED  BY <2>3
<1>9. /\ \A k \in 0 .. N : SumTo(sizes, k) \in X
      /\ \A k \in 1 .. N : SumTo(sizes, k) = SumTo(sizes, k - 1) + sizes[k]
      /\ SumTo(sizes, 0) = 0
  BY <1>6, <1>7, <1>8
<1> QED  BY <1>9 DEF N

LEMMA SumGrows ==
  ASSUME NEW sizes \in Seq(Nat)
  PROVE  \A k \in 0 .. Len(sizes) : SumTo(sizes, k) <= SumTo(sizes, Len(sizes))
<1> DEFINE N == Len(sizes)
           rest == {k \in 0 .. N : SumTo(sizes, N - k) <= SumTo(sizes, N)}
<1>1. N \in Nat /\ \A k \in 1 .. N : sizes[k] \in Nat
  OBVIOUS
<1>2. /\ \A k \in 0 .. N : SumTo(sizes, k) \in Nat
      /\ \A k \in 1 .. N : SumTo(sizes, k) = SumTo(sizes, k - 1) + sizes[k]
  BY SumIs
<1> HIDE DEF N
<1>3. 0 \in rest
  <2>1. N - 0 = N /\ N \in 0 .. N
    BY <1>1
  <2> QED  BY <1>1, <1>2, <2>1
<1>4. ASSUME NEW k \in 1 .. N, k - 1 \in rest
      PROVE  k \in rest
  <2> DEFINE j == N - k
  <2>1. j \in 0 .. N /\ j + 1 \in 1 .. N /\ N - (k - 1) = j + 1 /\ (j + 1) - 1 = j
    BY <1>1
  <2>2. SumTo(sizes, j + 1) = SumTo(sizes, j) + sizes[j + 1]
    BY <1>2, <2>1
  <2>3. SumTo(sizes, j + 1) <= SumTo(sizes, N)
    BY <1>4, <2>1
  <2>4. SumTo(sizes, j) \in Nat /\ sizes[j + 1] \in Nat /\ SumTo(sizes, N) \in Nat
    BY <1>1, <1>2, <2>1
  <2>5. SumTo(sizes, j) <= SumTo(sizes, N)
    BY <2>2, <2>3, <2>4
  <2> QED  BY <1>1, <2>5
<1>5. \A k \in 0 .. N : k \in rest
  <2> HIDE DEF rest
  <2> QED  BY <1>1, <1>3, <1>4, UpTo
<1>6. ASSUME NEW k \in 0 .. N
      PROVE  SumTo(sizes, k) <= SumTo(sizes, N)
  <2>1. N - k \in 0 .. N /\ N - (N - k) = k
    BY <1>1
  <2> QED  BY <1>5, <2>1
<1> QED  BY <1>6 DEF N

LEMMA DealIs ==
  ASSUME NEW weights_ \in Lines, NEW sizes \in Seq(Nat), ~TooFew(weights_, sizes)
  PROVE  Deal(weights_, sizes) \in [1 .. Len(sizes) -> Lines]
<1> DEFINE N == Len(sizes)
           M == Len(weights_)
<1>1. N \in Nat /\ M \in Nat /\ weights_ \in Seq(Words) /\ DOMAIN sizes = 1 .. N
  BY DEF Lines
<1>2. ASSUME NEW k \in 1 .. N
      PROVE  SubSeq(weights_, SumTo(sizes, k - 1) + 1, SumTo(sizes, k)) \in Lines
  <2> DEFINE a == SumTo(sizes, k - 1)
             b == SumTo(sizes, k)
  <2>1. k - 1 \in 0 .. N /\ k \in 0 .. N /\ N \in 0 .. N
    BY <1>1
  <2>2. a \in Nat /\ b \in Nat /\ SumTo(sizes, N) \in Nat
    BY <2>1, SumIs
  <2>3. b <= M
    BY <1>1, <2>1, <2>2, SumGrows DEF TooFew
  <2> HIDE DEF a, b, M, N
  <2>4. \A i \in a + 1 .. b : weights_[i] \in Words
    BY <1>1, <2>2, <2>3 DEF M
  <2>5. SubSeq(weights_, a + 1, b) \in Seq(Words)
    <3>1. a + 1 \in Int /\ b \in Int
      BY <2>2
    <3> QED  BY <2>4, <3>1, SubSeqProperties
  <2> QED  BY <2>5 DEF Lines, a, b
<1> QED  BY <1>1, <1>2 DEF Deal

LEMMA OwnTextsAreTexts == OwnTexts \subseteq Texts
BY DEF Texts

LEMMA WordsAre ==
  /\ \A tag, text \in Texts : \A n \in Int : Word(tag, text, n) \in Words
  /\ \A feature \in Texts : \A n \in Int :
       /\ Name(feature, n) \in Words /\ Number(n) \in Words
       /\ Kind(feature) \in Words /\ NumFeatures(n) \in Words
<1>1. ASSUME NEW tag \in Texts, NEW text \in Texts, NEW n \in Int
      PROVE  Word(tag, text, n) \in Words
  BY DEF Word, Words
<1>2. ASSUME NEW feature \in Texts, NEW n \in Int
      PROVE  /\ Name(feature, n) \in Words /\ Number(n) \in Words
             /\ Kind(feature) \in Words /\ NumFeatures(n) \in Words
  <2>1. /\ "name" \in Texts /\ "number" \in Texts /\ "kind" \in Texts
        /\ "num-features" \in Texts /\ "" \in Texts
    <3>1. /\ "name" \in OwnTexts /\ "number" \in OwnTexts /\ "kind" \in OwnTexts
          /\ "num-features" \in OwnTexts /\ "" \in OwnTexts
      BY DEF OwnTexts
    <3> QED  BY <3>1, OwnTextsAreTexts
  <2>2. Name(feature, n) \in Words
    BY <1>1, <2>1 DEF Name
  <2>3. Number(n) \in Words
    BY <1>1, <2>1 DEF Number
  <2>4. Kind(feature) \in Words
    <3>1. 0 \in Int
      OBVIOUS
    <3> QED  BY <1>1, <2>1, <3>1 DEF Kind
  <2>5. NumFeatures(n) \in Words
    BY <1>1, <2>1 DEF NumFeatures
  <2> QED  BY <2>2, <2>3, <2>4, <2>5
<1> QED  BY <1>1, <1>2

LEMMA ShortLines ==
  /\ \A x \in Words : <<x>> \in Lines
  /\ \A x, y \in Words : <<x, y>> \in Lines
  /\ \A x \in Words : \A line \in Lines : <<x>> \o line \in Lines
BY DEF Lines

\* Functions on the first numbers are sequences.
LEMMA NumberedSeq ==
  ASSUME NEW X, NEW n \in Nat, NEW f \in [1 .. n -> X]
  PROVE  f \in Seq(X) /\ Len(f) = n
OBVIOUS

LEMMA FreeParams ==
  \A param \in {"weight", "feature", "input-scores"} : LinesFor(param) = Lines
BY LinesAre DEF Tabled

LEMMA FreePush ==
  ASSUME NEW s, IsSetting(s), NEW param \in {"weight", "feature", "input-scores"}
  PROVE  /\ \A line \in Lines : IsSetting(Push(s, param, line))
         /\ \A lines \in Seq(Lines) : IsSetting(PushAll(s, param, lines))
<1>1. LinesFor(param) = Lines
  BY FreeParams
<1>2. ASSUME NEW line \in Lines
      PROVE  IsSetting(Push(s, param, line))
  <2>1. line \in LinesFor(param)
    BY <1>1
  <2> QED  BY <1>1, <2>1, PushIsSetting
<1>3. ASSUME NEW lines \in Seq(Lines)
      PROVE  IsSetting(PushAll(s, param, lines))
  <2>1. lines \in Seq(LinesFor(param))
    BY <1>1
  <2> QED  BY <1>1, <2>1, PushAllIsSetting
<1> QED  BY <1>2, <1>3

LEMMA SetWeightsIsSetting ==
  ASSUME NEW s, IsSetting(s), NEW n \in Nat,
         NEW features \in [1 .. n -> Texts], NEW given \in [1 .. n -> Lines]
  PROVE  IsSetting(SetWeights(s, features, given))
<1> DEFINE new == [k \in 1 .. n |-> <<Name(features[k], k - 1)>> \o given[k]]
<1>1. new \in [1 .. n -> Lines]
  <2>1. ASSUME NEW k \in 1 .. n
        PROVE  <<Name(features[k], k - 1)>> \o given[k] \in Lines
    <3>1. features[k] \in Texts /\ k - 1 \in Int /\ given[k] \in Lines
      OBVIOUS
    <3> QED  BY <3>1, WordsAre, ShortLines
  <2> QED  BY <2>1
<1>2. new \in Seq(Lines)
  <2> HIDE DEF new
  <2> QED  BY <1>1, NumberedSeq
<1>3. SetWeights(s, features, given) = PushAll(s, "weight", new)
  BY DEF SetWeights
<1> HIDE DEF new
<1> QED  BY <1>2, <1>3, FreePush

LEMMA AddTablesIsSetting ==
  ASSUME NEW s, IsSetting(s), NEW n \in Nat, NEW kinds \in [1 .. n -> Texts],
         NEW sizes \in [1 .. n -> Nat], NEW given \in Lines, ~TooFew(given, sizes)
  PROVE  IsSetting(AddTables(s, kinds, sizes, given))
<1> DEFINE new == [k \in 1 .. n |-> <<Kind(kinds[k]), NumFeatures(sizes[k])>>]
           first == SetWeights(s, kinds, Deal(given, sizes))
<1>1. new \in [1 .. n -> Lines]
  <2>1. ASSUME NEW k \in 1 .. n
        PROVE  <<Kind(kinds[k]), NumFeatures(sizes[k])>> \in Lines
    <3>1. kinds[k] \in Texts /\ sizes[k] \in Int
      OBVIOUS
    <3> QED  BY <3>1, WordsAre, ShortLines
  <2> QED  BY <2>1
<1>2. new \in Seq(Lines)
  <2> HIDE DEF new
  <2> QED  BY <1>1, NumberedSeq
<1>3. sizes \in Seq(Nat) /\ Len(sizes) = n
  BY NumberedSeq
<1>4. Deal(given, sizes) \in [1 .. n -> Lines]
  BY <1>3, DealIs
<1>5. IsSetting(first)
  BY <1>4, SetWeightsIsSetting
<1>6. AddTables(s, kinds, sizes, given) = PushAll(first, "feature", new)
  BY DEF AddTables
<1> HIDE DEF new, first
<1> QED  BY <1>2, <1>5, <1>6, FreePush

LEMMA SetWeightIsSetting ==
  ASSUME NEW s, IsSetting(s), NEW feature \in Texts, NEW ind \in Int, NEW given \in Lines
  PROVE  IsSetting(SetWeight(s, feature, ind, given))
<1>1. <<Name(feature, ind)>> \o given \in Lines
  BY WordsAre, ShortLines
<1> QED  BY <1>1, FreePush DEF SetWeight

LEMMA AddFeatureIsSetting ==
  ASSUME NEW s, IsSetting(s), NEW line \in Lines
  PROVE  IsSetting(AddFeature(s, line))
BY FreePush DEF AddFeature

LEMMA AddWeightIsSetting ==
  ASSUME NEW s, IsSetting(s), NEW feature \in Texts, NEW ind \in Int, NEW given \in Lines
  PROVE  IsSetting(AddWeight(s, feature, ind, given))
<1> DEFINE lines == Values(s, "weight")
           same  == {i \in DOMAIN lines : lines[i][1] = Name(feature, ind)}
           m     == Min(same)
           t     == [s EXCEPT !["weight"] = [lines EXCEPT ![m] = lines[m] \o given]]
<1>1. AddWeight(s, feature, ind, given)
        = IF same = {} THEN SetWeight(s, feature, ind, given)
          ELSE [s EXCEPT !["weight"][m] = @ \o given]
  BY DEF AddWeight
<1>2. CASE same = {}
  BY <1>1, <1>2, SetWeightIsSetting
<1>3. CASE same # {}
  <2>1. lines \in Seq(Lines) /\ Len(lines) \in Nat /\ DOMAIN lines = 1 .. Len(lines)
    BY ValuesAre
  <2>2. same \in SUBSET (1 .. Len(lines))
    BY <2>1
  <2>3. m \in same
    <3> HIDE DEF same
    <3> QED  BY <1>3, <2>1, <2>2, MinIs
  <2>4. m \in 1 .. Len(lines)
    BY <2>2, <2>3
  <2>5. "weight" \in DOMAIN s /\ lines = s["weight"]
    <3>1. "weight" \notin DOMAIN s => Len(lines) = 0
      BY DEF Values, Defined
    <3> QED  BY <2>1, <2>4, <3>1 DEF Values, Defined
  <2>6. [s EXCEPT !["weight"][m] = @ \o given] = t
    <3> HIDE DEF m
    <3> QED  BY <2>5
  <2> HIDE DEF m, same
  <2>7. lines[m] \o given \in Lines
    <3>1. lines[m] \in Seq(Words) /\ given \in Seq(Words)
      BY <2>1, <2>4 DEF Lines
    <3> HIDE DEF lines
    <3> QED  BY <3>1 DEF Lines
  <2> DEFINE new == [lines EXCEPT ![m] = lines[m] \o given]
  <2>8. new \in Seq(Lines)
    <3> HIDE DEF lines
    <3>1. lines \in [1 .. Len(lines) -> Lines]
      BY <2>1
    <3>2. new \in [1 .. Len(lines) -> Lines]
      BY <2>4, <2>7, <3>1
    <3> HIDE DEF new
    <3> QED  BY <2>1, <3>2, NumberedSeq
  <2>9. t = [s EXCEPT !["weight"] = new]
    OBVIOUS
  <2> HIDE DEF new, lines
  <2>10. t = [k \in DOMAIN s |-> t[k]] /\ \A k \in DOMAIN s : t[k] = IF k = "weight" THEN new ELSE s[k]
    BY <2>9
  <2>11. \A k \in DOMAIN s : t[k] \in Seq(LinesFor(k))
    BY <2>8, <2>10, FreeParams DEF IsSetting
  <2> HIDE DEF t
  <2>13. IsSetting(t)
    BY <2>10, <2>11, SettingIs
  <2> QED  BY <1>1, <1>3, <2>6, <2>13
<1> QED  BY <1>2, <1>3

\* A conversion that does not fail leaves settings.
Keeps(result) == ~result.failed => IsSetting(result.settings)

LEMMA OutcomesAre ==
  /\ Failure.failed
  /\ \A s : ~Success(s).failed /\ Success(s).settings = s
BY DEF Failure, Success

LEMMA FailureKeeps == Keeps(Failure)
BY OutcomesAre DEF Keeps

LEMMA SuccessKeeps ==
  ASSUME NEW s, IsSetting(s), NEW params
  PROVE  Keeps(Success(s)) /\ Keeps(Success(Erase(s, params)))
BY OutcomesAre, EraseIsSetting DEF Keeps

LEMMA RescaledIsWord ==
  ASSUME NEW s, NEW word \in Words
  PROVE  Rescaled(s, word) \in Words
<1>1. "rescaled" \in Texts
  <2>1. "rescaled" \in OwnTexts
    BY DEF OwnTexts
  <2> QED  BY <2>1, OwnTextsAreTexts
<1>2. [word EXCEPT !.text = "rescaled"] \in Words
  BY <1>1 DEF Words
<1> QED  BY <1>2 DEF Rescaled

LEMMA WordPenaltyKeeps ==
  ASSUME NEW s, IsSetting(s)
  PROVE  Keeps(ConvertWeightArgsWordPenalty(s))
<1> DEFINE old == Numbers(s, "weight-w")
           n == Len(old)
           features == [i \in DOMAIN old |-> "WordPenalty"]
           given == [i \in DOMAIN old |-> <<Rescaled(s, old[i])>>]
<1>1. old \in Lines
  BY NumbersAre
<1> HIDE DEF old
<1>2. n \in Nat /\ DOMAIN old = 1 .. n /\ \A i \in 1 .. n : old[i] \in Words
  BY <1>1 DEF Lines
<1>3. "WordPenalty" \in Texts
  <2>1. "WordPenalty" \in OwnTexts
    BY DEF OwnTexts
  <2> QED  BY <2>1, OwnTextsAreTexts
<1>4. features \in [1 .. n -> Texts]
  <2> HIDE DEF n
  <2> QED  BY <1>2, <1>3
<1>5. given \in [1 .. n -> Lines]
  <2>1. ASSUME NEW i \in 1 .. n
        PROVE  <<Rescaled(s, old[i])>> \in Lines
    BY <1>2, RescaledIsWord, ShortLines
  <2> HIDE DEF n
  <2> QED  BY <1>2, <2>1
<1> HIDE DEF features, given, n
<1>6. IsSetting(SetWeights(s, features, given))
  BY <1>2, <1>4, <1>5, SetWeightsIsSetting
<1>7. Keeps(Success(Erase(SetWeights(s, features, given), {"weight-w"})))
  BY <1>6, SuccessKeeps
<1> QED  BY <1>7 DEF ConvertWeightArgsWordPenalty, features, given, old

LEMMA LMKindIs ==
  \A k \in DOMAIN LMKind : LMKind[k] \in Texts
<1>1. "SRILM" \in Texts /\ "IRSTLM" \in Texts /\ "KENLM" \in Texts
  <2>1. "SRILM" \in OwnTexts /\ "IRSTLM" \in OwnTexts /\ "KENLM" \in OwnTexts
    BY DEF OwnTexts
  <2> QED  BY <2>1, OwnTextsAreTexts
<1> DEFINE a == Only(0, "SRILM")
           b == Only(1, "IRSTLM")
           c == Only(8, "KENLM")
           d == Only(9, "KENLM")
<1>2. /\ a \in [{0} -> Texts] /\ b \in [{1} -> Texts]
      /\ c \in [{8} -> Texts] /\ d \in [{9} -> Texts]
  BY <1>1, OnlyIsMap
<1>3. LMKind = ((a ++ b) ++ c) ++ d
  BY DEF LMKind
<1> HIDE DEF a, b, c, d
<1>4. a ++ b \in [{0} \union {1} -> Texts]
  BY <1>2, OverIsMap
<1>5. (a ++ b) ++ c \in [({0} \union {1}) \union {8} -> Texts]
  BY <1>2, <1>4, OverIsMap
<1>6. LMKind \in [(({0} \union {1}) \union {8}) \union {9} -> Texts]
  BY <1>2, <1>3, <1>5, OverIsMap
<1> QED  BY <1>6

LEMMA OOVFeaturesAre ==
  ASSUME NEW s, IsSetting(s)
  PROVE  LET oov == Numbers(s, "lmodel-oov-feature")
         IN  oov \in Lines /\ \A k \in DOMAIN oov : oov[k].num \in Nat
<1> DEFINE oov == Numbers(s, "lmodel-oov-feature")
           X == {word \in Words : word.num \in Nat}
           lines == Values(s, "lmodel-oov-feature")
<1>1. LinesFor("lmodel-oov-feature") \subseteq Seq(X)
  <2>1. ASSUME NEW line \in LinesFor("lmodel-oov-feature")
        PROVE  line \in Seq(X)
    <3>1. line \in Seq(Words) /\ \A i \in DOMAIN line : line[i].num \in Nat
      BY DEF LinesFor, Lines
    <3>2. Len(line) \in Nat /\ line \in [1 .. Len(line) -> X]
      BY <3>1
    <3> HIDE DEF X
    <3> QED  BY <3>2, NumberedSeq
  <2> QED  BY <2>1
<1>2. lines \in Seq(Seq(X))
  <2> DEFINE L == LinesFor("lmodel-oov-feature")
             LX == Seq(X)
  <2>1. lines \in Seq(L) /\ L \subseteq LX
    BY <1>1, ValuesAre
  <2> HIDE DEF L, LX, lines
  <2>2. Len(lines) \in Nat /\ lines \in [1 .. Len(lines) -> LX]
    BY <2>1
  <2>3. lines \in Seq(LX)
    BY <2>2, NumberedSeq
  <2> QED  BY <2>3 DEF LX
<1>3. FlattenSeq(lines) \in Seq(X)
  <2>1. <<>> \in Seq(X)
    <3> HIDE DEF X
    <3> QED  OBVIOUS
  <2> HIDE DEF X, lines
  <2> QED  BY <1>2, <2>1, JoinedWithOneMore
<1>4. \A k \in DOMAIN oov : oov[k] \in X
  <2> HIDE DEF X
  <2> QED  BY <1>3 DEF Numbers
<1>5. oov \in Lines
  BY NumbersAre
<1> QED  BY <1>4, <1>5

LEMMA LMKeeps ==
  ASSUME NEW s, IsSetting(s)
  PROVE  Keeps(ConvertWeightArgsLM(s))
<1> DEFINE models == Values(s, "lmodel-file")
           n == Len(models)
           types == [k \in DOMAIN models |-> models[k][1].num]
           oov == Numbers(s, "lmodel-oov-feature")
           sizes == [k \in DOMAIN models |-> 1 + (IF k \in DOMAIN oov THEN oov[k].num ELSE 0)]
           old == Numbers(s, "weight-l")
           given == [i \in DOMAIN old |-> Rescaled(s, old[i])]
           kinds == [k \in DOMAIN types |-> LMKind[types[k]]]
<1>1. n \in Nat /\ DOMAIN models = 1 .. n
  BY ValuesAre
<1>2. sizes \in [1 .. n -> Nat]
  <2>1. \A k \in DOMAIN oov : oov[k].num \in Nat
    BY OOVFeaturesAre
  <2> HIDE DEF oov, models, n
  <2> QED  BY <1>1, <2>1
<1>3. given \in Lines
  <2>1. old \in Seq(Words)
    BY NumbersAre DEF Lines
  <2> HIDE DEF old
  <2>2. Len(old) \in Nat /\ DOMAIN old = 1 .. Len(old) /\ \A i \in 1 .. Len(old) : old[i] \in Words
    BY <2>1
  <2>3. given \in [1 .. Len(old) -> Words]
    BY <2>2, RescaledIsWord
  <2> HIDE DEF given
  <2> QED  BY <2>2, <2>3, NumberedSeq DEF Lines
<1>4. Range(types) \subseteq DOMAIN LMKind => kinds \in [1 .. n -> Texts]
  <2> SUFFICES ASSUME Range(types) \subseteq DOMAIN LMKind
               PROVE  kinds \in [1 .. n -> Texts]
    OBVIOUS
  <2>1. DOMAIN types = 1 .. n
    BY <1>1
  <2> HIDE DEF types, n
  <2>2. \A k \in 1 .. n : types[k] \in DOMAIN LMKind
    BY <2>1 DEF Range
  <2> QED  BY <2>1, <2>2, LMKindIs
<1> HIDE DEF models, n, types, oov, sizes, old, given, kinds
<1>5. /\ Range(types) \subseteq DOMAIN LMKind /\ ~TooFew(given, sizes)
           => Keeps(Success(Erase(AddTables(s, kinds, sizes, given),
                                  {"weight-l", "lmodel-file"})))
      /\ Keeps(Success(Erase(s, {"lmodel-file"})))
  BY <1>1, <1>2, <1>3, <1>4, AddTablesIsSetting, SuccessKeeps
<1>6. ConvertWeightArgsLM(s) =
        IF ~Defined(s, "weight-l")
        THEN Success(Erase(s, {"lmodel-file"}))
        ELSE IF Range(types) \subseteq DOMAIN LMKind /\ ~TooFew(given, sizes)
             THEN Success(Erase(AddTables(s, kinds, sizes, given), {"weight-l", "lmodel-file"}))
             ELSE Failure
  BY DEF ConvertWeightArgsLM, models, types, oov, sizes, old, given, kinds
<1> QED  BY <1>5, <1>6, FailureKeeps

LEMMA SingleWeightKeeps ==
  ASSUME NEW s, IsSetting(s), NEW old_, NEW new_ \in Texts
  PROVE  Keeps(ConvertWeightArgsSingleWeight(s, old_, new_))
<1> DEFINE old == Numbers(s, old_)
           lines == [i \in DOMAIN old |-> <<Name(new_, 0), old[i]>>]
<1>1. old \in Lines
  BY NumbersAre
<1> HIDE DEF old
<1>2. Len(old) \in Nat /\ DOMAIN old = 1 .. Len(old) /\ \A i \in 1 .. Len(old) : old[i] \in Words
  BY <1>1 DEF Lines
<1>3. 0 \in Int
  OBVIOUS
<1>4. lines \in [1 .. Len(old) -> Lines]
  <2>1. \A i \in 1 .. Len(old) : <<Name(new_, 0), old[i]>> \in Lines
    BY <1>2, <1>3, WordsAre, ShortLines
  <2> QED  BY <1>2, <2>1
<1>5. lines \in Seq(Lines)
  <2> HIDE DEF lines
  <2> QED  BY <1>2, <1>4, NumberedSeq
<1> HIDE DEF lines
<1>6. Keeps(Success(Erase(PushAll(s, "weight", lines), {old_})))
  BY <1>5, FreePush, SuccessKeeps
<1> QED  BY <1>6 DEF ConvertWeightArgsSingleWeight, lines, old

\* The sizes of tables, in the third field.
LEMMA TableSizes ==
  ASSUME NEW s, IsSetting(s), NEW param \in {"generation-file", "distortion-file"}
  PROVE  LET tables == Values(s, param)
         IN  /\ Len(tables) \in Nat /\ DOMAIN tables = 1 .. Len(tables)
             /\ [k \in DOMAIN tables |-> tables[k][3].num] \in [1 .. Len(tables) -> Nat]
<1> DEFINE tables == Values(s, param)
           L == LinesFor(param)
<1>1. \A line \in L : line[3].num \in Nat
  BY DEF LinesFor
<1>2. tables \in Seq(L)
  BY ValuesAre
<1> HIDE DEF tables, L
<1>3. Len(tables) \in Nat /\ DOMAIN tables = 1 .. Len(tables) /\ \A k \in 1 .. Len(tables) : tables[k] \in L
  BY <1>2
<1>4. [k \in DOMAIN tables |-> tables[k][3].num] \in [1 .. Len(tables) -> Nat]
  BY <1>1, <1>3
<1> QED  BY <1>3, <1>4 DEF tables

LEMMA SameKind ==
  ASSUME NEW kind \in Texts, NEW n \in Nat, NEW D, D = 1 .. n
  PROVE  [k \in D |-> kind] \in [1 .. n -> Texts]
OBVIOUS

LEMMA OwnKinds ==
  /\ "Generation" \in Texts /\ "LexicalReordering" \in Texts /\ "Distortion" \in Texts
  /\ "PhrasePenalty" \in Texts /\ "WordPenalty" \in Texts /\ "UnknownWordPenalty" \in Texts
  /\ "PhraseDictionaryBinary" \in Texts
<1>1. /\ "Generation" \in OwnTexts /\ "LexicalReordering" \in OwnTexts
      /\ "Distortion" \in OwnTexts /\ "PhrasePenalty" \in OwnTexts
      /\ "WordPenalty" \in OwnTexts /\ "UnknownWordPenalty" \in OwnTexts
      /\ "PhraseDictionaryBinary" \in OwnTexts
  BY DEF OwnTexts
<1> QED  BY <1>1, OwnTextsAreTexts

LEMMA GenerationKeeps ==
  ASSUME NEW s, IsSetting(s)
  PROVE  Keeps(ConvertWeightArgsGeneration(s))
<1> DEFINE models == Values(s, "generation-file")
           n == Len(models)
           sizes == [k \in DOMAIN models |-> models[k][3].num]
           given == Numbers(s, "weight-generation")
           erased == {"weight-generation", "generation-file"}
           kinds == [k \in DOMAIN models |-> "Generation"]
<1>1. n \in Nat /\ DOMAIN models = 1 .. n /\ sizes \in [1 .. n -> Nat]
  BY TableSizes
<1>2. given \in Lines
  BY NumbersAre
<1>3. kinds \in [1 .. n -> Texts]
  <2> HIDE DEF models, n
  <2> QED  BY <1>1, OwnKinds, SameKind
<1>4. ConvertWeightArgsGeneration(s) =
        IF given = <<>> THEN Success(Erase(s, erased))
        ELSE IF TooFew(given, sizes) THEN Failure
        ELSE Success(Erase(AddTables(s, kinds, sizes, given), erased))
  BY DEF ConvertWeightArgsGeneration
<1> HIDE DEF models, n, sizes, given, erased, kinds
<1>5. ~TooFew(given, sizes) => Keeps(Success(Erase(AddTables(s, kinds, sizes, given), erased)))
  BY <1>1, <1>2, <1>3, AddTablesIsSetting, SuccessKeeps
<1>6. Keeps(Success(Erase(s, erased)))
  BY SuccessKeeps
<1> QED  BY <1>4, <1>5, <1>6, FailureKeeps

LEMMA PartOfLine ==
  ASSUME NEW line \in Lines, NEW a \in Nat \ {0}, NEW b \in Nat, b <= Len(line)
  PROVE  SubSeq(line, a, b) \in Lines
<1>1. line \in Seq(Words) /\ Len(line) \in Nat /\ DOMAIN line = 1 .. Len(line)
  BY DEF Lines
<1>2. a \in Int /\ b \in Int /\ \A i \in a .. b : line[i] \in Words
  BY <1>1
<1>3. SubSeq(line, a, b) \in Seq(Words)
  BY <1>2, SubSeqProperties
<1> QED  BY <1>3 DEF Lines

LEMMA DistortionKeeps ==
  ASSUME NEW s, IsSetting(s)
  PROVE  Keeps(ConvertWeightArgsDistortion(s))
<1> DEFINE tables == Values(s, "distortion-file")
           n == Len(tables)
           badFactors == \E k \in DOMAIN tables : tables[k][1].num # 2
           sizes == [k \in DOMAIN tables |-> tables[k][3].num]
           given == Numbers(s, "weight-d")
           others == SubSeq(given, 2, Len(given))
           first == SubSeq(given, 1, 1)
           erased == {"weight-d", "distortion-file"}
           distance == IF IsPhraseBased(s)
                       THEN SetWeight(AddFeature(s, <<Kind("Distortion")>>),
                                      "Distortion", 0, first)
                       ELSE s
           kinds == [k \in DOMAIN tables |-> "LexicalReordering"]
<1>1. n \in Nat /\ DOMAIN tables = 1 .. n /\ sizes \in [1 .. n -> Nat]
  BY TableSizes
<1>2. given \in Lines /\ Len(given) \in Nat
  <2>1. given \in Lines
    BY NumbersAre
  <2> HIDE DEF given
  <2> QED  BY <2>1 DEF Lines
<1>3. kinds \in [1 .. n -> Texts]
  <2> HIDE DEF tables, n
  <2> QED  BY <1>1, OwnKinds, SameKind
<1>4. ConvertWeightArgsDistortion(s) =
        IF ~Defined(s, "weight-d") THEN Success(Erase(s, erased))
        ELSE IF \/ given = <<>> /\ IsPhraseBased(s)
                \/ TooFew(others, sizes) \/ badFactors THEN Failure
        ELSE Success(Erase(AddTables(distance, kinds, sizes, others), erased))
  BY DEF ConvertWeightArgsDistortion
<1>5. others \in Lines
  <2> HIDE DEF given
  <2> QED  BY <1>2, PartOfLine
<1>6. ~(given = <<>> /\ IsPhraseBased(s)) => IsSetting(distance)
  <2> SUFFICES ASSUME given # <<>>, IsPhraseBased(s)
               PROVE  IsSetting(SetWeight(AddFeature(s, <<Kind("Distortion")>>),
                                          "Distortion", 0, first))
    OBVIOUS
  <2>1. first \in Lines
    <3> HIDE DEF given
    <3>1. 1 <= Len(given)
      BY <1>2 DEF Lines
    <3> QED  BY <1>2, <3>1, PartOfLine
  <2>2. <<Kind("Distortion")>> \in Lines
    BY OwnKinds, WordsAre, ShortLines
  <2> HIDE DEF first
  <2>3. IsSetting(AddFeature(s, <<Kind("Distortion")>>))
    BY <2>2, AddFeatureIsSetting
  <2>4. 0 \in Int
    OBVIOUS
  <2> QED  BY <2>1, <2>3, <2>4, OwnKinds, SetWeightIsSetting
<1> HIDE DEF tables, n, badFactors, sizes, given, others, first, erased, distance, kinds
<1>7. ~(given = <<>> /\ IsPhraseBased(s)) /\ ~TooFew(others, sizes)
        => Keeps(Success(Erase(AddTables(distance, kinds, sizes, others), erased)))
  BY <1>1, <1>3, <1>5, <1>6, AddTablesIsSetting, SuccessKeeps
<1>8. Keeps(Success(Erase(s, erased)))
  BY SuccessKeeps
<1> QED  BY <1>4, <1>7, <1>8, FailureKeeps

LEMMA PhrasePenaltyKeeps ==
  ASSUME NEW s, IsSetting(s)
  PROVE  Keeps(ConvertPhrasePenalty(s))
<1> DEFINE given == Numbers(s, "weight-p")
           t == SetWeight(AddFeature(s, <<Kind("PhrasePenalty")>>), "PhrasePenalty", 0, given)
<1>1. given \in Lines
  BY NumbersAre
<1>2. <<Kind("PhrasePenalty")>> \in Lines /\ 0 \in Int
  BY OwnKinds, WordsAre, ShortLines
<1> HIDE DEF given
<1>3. IsSetting(t)
  BY <1>1, <1>2, OwnKinds, AddFeatureIsSetting, SetWeightIsSetting
<1> HIDE DEF t
<1>4. Keeps(Success(Erase(t, {"weight-p"}))) /\ Keeps(Success(s))
  BY <1>3, SuccessKeeps
<1> QED  BY <1>4, FailureKeeps DEF ConvertPhrasePenalty, given, t

LEMMA PenaltiesKeep ==
  ASSUME NEW s, IsSetting(s)
  PROVE  Keeps(Success(PushAll(s, "feature", <<<<Kind("WordPenalty")>>,
                                               <<Kind("UnknownWordPenalty")>>>>)))
<1> DEFINE a == <<Kind("WordPenalty")>>
           b == <<Kind("UnknownWordPenalty")>>
<1>1. a \in Lines /\ b \in Lines
  BY OwnKinds, WordsAre, ShortLines
<1> HIDE DEF a, b
<1>2. <<a, b>> \in Seq(Lines)
  BY <1>1
<1>3. IsSetting(PushAll(s, "feature", <<a, b>>))
  BY <1>2, FreePush
<1>4. Keeps(Success(PushAll(s, "feature", <<a, b>>)))
  BY <1>3, SuccessKeeps
<1> QED  BY <1>4 DEF a, b

-----------------------------------------------------------------------------
(* Phrase tables of the old format *)

LEMMA InputWeightsAreSetting ==
  ASSUME NEW s, IsSetting(s)
  PROVE  IsSetting(WithInputWeights(s))
<1> DEFINE given == Numbers(s, "weight-i")
           scores == IF Len(given) \in {1, 2} THEN <<1, Len(given) - 1>> ELSE <<>>
           lines == [i \in DOMAIN scores |-> <<Number(scores[i])>>]
           t == Only("input-scores", Values(s, "input-scores")) ++ s
           u == PushAll(t, "input-scores", lines)
<1>1. given \in Lines /\ Len(given) \in Nat
  <2>1. given \in Lines
    BY NumbersAre
  <2> HIDE DEF given
  <2> QED  BY <2>1 DEF Lines
<1> HIDE DEF given
<1>2. scores \in Seq(Int)
  BY <1>1
<1> HIDE DEF scores
<1>3. lines \in Seq(Lines)
  <2>1. Len(scores) \in Nat /\ DOMAIN scores = 1 .. Len(scores)
        /\ \A i \in 1 .. Len(scores) : scores[i] \in Int
    BY <1>2
  <2>2. "" \in Texts
    <3>1. "" \in OwnTexts
      BY DEF OwnTexts
    <3> QED  BY <3>1, OwnTextsAreTexts
  <2>3. \A i \in 1 .. Len(scores) : <<Number(scores[i])>> \in Lines
    BY <2>1, <2>2, WordsAre, ShortLines
  <2>4. lines \in [1 .. Len(scores) -> Lines]
    BY <2>1, <2>3
  <2> HIDE DEF lines
  <2> QED  BY <2>1, <2>4, NumberedSeq
<1> HIDE DEF lines
<1>4. IsSetting(t)
  <2>1. Values(s, "input-scores") \in Seq(LinesFor("input-scores"))
    BY ValuesAre
  <2> QED  BY <2>1, GivenLines
<1> HIDE DEF t
<1>5. IsSetting(u)
  BY <1>3, <1>4, FreePush
<1> HIDE DEF u
<1>6. IsSetting(SetWeight(u, "PhraseDictionaryBinary", 0, given))
  <2>1. 0 \in Int
    OBVIOUS
  <2> QED  BY <1>1, <1>5, <2>1, OwnKinds, SetWeightIsSetting
<1> QED  BY <1>6 DEF WithInputWeights, u, t, lines, scores, given

LEMMA InputScoresAre ==
  ASSUME NEW s, IsSetting(s)
  PROVE  NumInputScores(s) \in Int
<1> DEFINE scores == Numbers(s, "input-scores")
           nums == [i \in DOMAIN scores |-> scores[i].num]
           n == Len(scores)
           k == Min({2, n})
<1>1. scores \in Lines
  BY NumbersAre
<1>2. NumInputScores(s) = SumTo(nums, k)
  BY DEF NumInputScores
<1> HIDE DEF scores
<1>3. n \in Nat /\ DOMAIN scores = 1 .. n /\ \A i \in 1 .. n : scores[i].num \in Int
  <2>1. \A word \in Words : word.num \in Int
    BY DEF Words
  <2>2. n \in Nat /\ DOMAIN scores = 1 .. n /\ \A i \in 1 .. n : scores[i] \in Words
    BY <1>1 DEF Lines
  <2> QED  BY <2>1, <2>2
<1>4. nums \in Seq(Int) /\ Len(nums) = n
  <2>1. nums \in [1 .. n -> Int]
    BY <1>3
  <2> HIDE DEF nums
  <2> QED  BY <1>3, <2>1, NumberedSeq
<1>5. k \in 0 .. n
  <2>1. \E x \in {2, n} : \A y \in {2, n} : x <= y
    BY <1>3
  <2>2. k \in {2, n} /\ \A y \in {2, n} : k <= y
    BY <2>1 DEF Min
  <2> QED  BY <1>3, <2>2
<1> HIDE DEF nums, n, k
<1>6. SumTo(nums, k) \in Int
  BY <1>4, <1>5, SumIs
<1> QED  BY <1>2, <1>6

LEMMA PTKindsAre ==
  \A implementation : PTKind(implementation) \in Texts
<1>1. \A implementation : PTKind(implementation) \in OwnTexts
  BY DEF PTKind, OwnTexts
<1> QED  BY <1>1, OwnTextsAreTexts

LEMMA PTIndexIs ==
  ASSUME NEW kinds, NEW k \in Nat
  PROVE  PTIndex(kinds, k) \in Int
<1> DEFINE same == {j \in 1 .. k - 1 : kinds[j] = kinds[k]}
<1>1. IsFiniteSet(1 .. k - 1)
  BY FS_Interval
<1>2. IsFiniteSet(same)
  <2>1. same \subseteq 1 .. k - 1
    OBVIOUS
  <2> QED  BY <1>1, <2>1, FS_Subset
<1>3. Cardinality(same) \in Nat
  <2> HIDE DEF same
  <2> QED  BY <1>2, FS_CardinalityType
<1> QED  BY <1>3 DEF PTIndex

\* Settings of parameters in P.
SettingsOn(P) ==
  {s \in UNION {[D -> Seq(Lines)] : D \in SUBSET P} : IsSetting(s)}

LEMMA SettingsOnAre ==
  ASSUME NEW P, NEW s
  PROVE  s \in SettingsOn(P) <=> IsSetting(s) /\ DOMAIN s \subseteq P
<1>1. ASSUME IsSetting(s), DOMAIN s \subseteq P
      PROVE  s \in SettingsOn(P)
  <2> DEFINE D == DOMAIN s
  <2>1. s = [k \in D |-> s[k]] /\ D \in SUBSET P
    BY <1>1 DEF IsSetting
  <2>2. ASSUME NEW k \in D  PROVE s[k] \in Seq(Lines)
    <3>1. Values(s, k) = s[k]
      BY DEF Values, Defined
    <3> QED  BY <1>1, <3>1, ValuesAre
  <2> HIDE DEF D
  <2>3. s \in [D -> Seq(Lines)]
    BY <2>1, <2>2
  <2>4. s \in UNION {[E -> Seq(Lines)] : E \in SUBSET P}
    BY <2>1, <2>3
  <2> QED  BY <1>1, <2>4 DEF SettingsOn
<1>2. ASSUME s \in SettingsOn(P)
      PROVE  IsSetting(s) /\ DOMAIN s \subseteq P
  <2>1. IsSetting(s)
    BY <1>2 DEF SettingsOn
  <2>2. PICK D \in SUBSET P : s \in [D -> Seq(Lines)]
    BY <1>2 DEF SettingsOn
  <2> QED  BY <2>1, <2>2
<1> QED  BY <1>1, <1>2

LEMMA PushedDomain ==
  ASSUME NEW s, NEW param, NEW lines
  PROVE  /\ DOMAIN (Only(param, lines) ++ s) = {param} \union DOMAIN s
<1> DEFINE t == Only(param, lines) ++ s
<1>1. \A k : k \in DOMAIN t <=> k \in {param} \/ k \in DOMAIN s
  BY OnlyIs, OverIs
<1> HIDE DEF t
<1>2. DOMAIN t = {param} \union DOMAIN s
  BY <1>1
<1> QED  BY <1>2 DEF t

LEMMA AddWeightDomain ==
  ASSUME NEW s, NEW feature, NEW ind, NEW given
  PROVE  DOMAIN AddWeight(s, feature, ind, given) \subseteq DOMAIN s \union {"weight"}
<1> DEFINE lines == Values(s, "weight")
           same  == {i \in DOMAIN lines : lines[i][1] = Name(feature, ind)}
           m     == Min(same)
<1>1. AddWeight(s, feature, ind, given)
        = IF same = {} THEN SetWeight(s, feature, ind, given)
          ELSE [s EXCEPT !["weight"][m] = @ \o given]
  BY DEF AddWeight
<1>2. DOMAIN SetWeight(s, feature, ind, given) = {"weight"} \union DOMAIN s
  BY PushedDomain DEF SetWeight, Push
<1> HIDE DEF lines, same, m
<1>3. DOMAIN [s EXCEPT !["weight"][m] = @ \o given] = DOMAIN s
  OBVIOUS
<1> QED  BY <1>1, <1>2, <1>3

LEMMA AddPhraseTablesIsSetting ==
  ASSUME NEW s, IsSetting(s),
         \A k \in DOMAIN Values(s, "ttable-file") : Len(Values(s, "ttable-file")[k]) >= 5,
         ~TooFew(Numbers(s, "weight-t"),
                 [k \in DOMAIN Values(s, "ttable-file") |-> Values(s, "ttable-file")[k][4].num])
  PROVE  IsSetting(AddPhraseTables(s))
<1> DEFINE tables == Values(s, "ttable-file")
           N == Len(tables)
           kinds == [k \in DOMAIN tables |-> PTKind(tables[k][1].num)]
           sizes == [k \in DOMAIN tables |-> tables[k][4].num]
           old == Numbers(s, "weight-t")
           given == Deal(old, sizes)
           more == NumInputScores(s)
           op(acc, k) ==
             AddFeature(AddWeight(acc, kinds[k], PTIndex(kinds, k), given[k]),
                        <<Kind(kinds[k]),
                          NumFeatures(sizes[k] + (IF k = 1 THEN more ELSE 0))>>)
           steps == [k \in DOMAIN tables |-> k]
           P == DOMAIN s \union {"weight", "feature"}
           X == SettingsOn(P)
           IsIter(f) == f = [u \in SUBSET (1 .. N) |->
                               IF u = {} THEN s ELSE op(f[u \ {Max(u)}], steps[Max(u)])]
           iter == CHOOSE f : IsIter(f)
<1>1. N \in Nat /\ DOMAIN tables = 1 .. N
  BY ValuesAre
<1>2. kinds \in [1 .. N -> Texts]
  <2> HIDE DEF tables, N
  <2> QED  BY <1>1, PTKindsAre
<1>3. sizes \in [1 .. N -> Nat]
  <2> DEFINE L == LinesFor("ttable-file")
  <2>1. \A line \in L : Len(line) > 3 => line[4].num \in Nat
    BY DEF LinesFor
  <2>2. tables \in Seq(L)
    BY ValuesAre
  <2>3. \A k \in 1 .. N : Len(tables[k]) \in Nat /\ Len(tables[k]) >= 5
    <3>1. tables \in Seq(Seq(Words))
      BY ValuesAre DEF Lines
    <3>2. \A k \in 1 .. N : Len(tables[k]) >= 5
      BY <1>1
    <3> HIDE DEF tables
    <3> QED  BY <1>1, <3>1, <3>2
  <2> HIDE DEF tables, L
  <2>4. \A k \in 1 .. N : tables[k] \in L
    BY <2>2
  <2>5. \A k \in 1 .. N : tables[k][4].num \in Nat
    BY <2>1, <2>3, <2>4
  <2> QED  BY <1>1, <2>5
<1>4. given \in [1 .. N -> Lines]
  <2>1. old \in Lines
    BY NumbersAre
  <2>2. sizes \in Seq(Nat) /\ Len(sizes) = N
    <3> HIDE DEF sizes
    <3> QED  BY <1>1, <1>3, NumberedSeq
  <2>3. ~TooFew(old, sizes)
    OBVIOUS
  <2> HIDE DEF old, sizes, N
  <2> QED  BY <2>1, <2>2, <2>3, DealIs
<1>5. more \in Int
  BY InputScoresAre
<1>6. AddPhraseTables(s) = FoldLeft(LAMBDA acc, k : op(acc, k), s, steps)
  BY DEF AddPhraseTables
<1>7. Len(steps) = N /\ DOMAIN steps = 1 .. N /\ \A k \in 1 .. N : steps[k] = k
  <2> HIDE DEF tables, N
  <2>1. steps \in [1 .. N -> Nat] /\ \A k \in 1 .. N : steps[k] = k
    BY <1>1
  <2> HIDE DEF steps
  <2> QED  BY <1>1, <2>1, NumberedSeq
<1> HIDE DEF steps
<1>8. AddPhraseTables(s) = iter[1 .. N]
  <2> HIDE DEF op, tables, N
  <2> QED  BY <1>6, <1>7 DEF FoldLeft, MapThenFoldSet
<1> HIDE DEF tables, N, kinds, sizes, old, given, more
<1>9. \A u \in X : \A k \in 1 .. N : op(u, k) \in X
  <2> SUFFICES ASSUME NEW u \in X, NEW k \in 1 .. N
               PROVE  op(u, k) \in X
    OBVIOUS
  <2> DEFINE w == AddWeight(u, kinds[k], PTIndex(kinds, k), given[k])
             line == <<Kind(kinds[k]), NumFeatures(sizes[k] + (IF k = 1 THEN more ELSE 0))>>
  <2>1. k \in Nat /\ kinds[k] \in Texts /\ sizes[k] \in Nat /\ given[k] \in Lines
    BY <1>1, <1>2, <1>3, <1>4
  <2>2. IsSetting(u) /\ DOMAIN u \subseteq P
    <3> HIDE DEF P
    <3> QED  BY SettingsOnAre
  <2>3. PTIndex(kinds, k) \in Int
    BY <2>1, PTIndexIs
  <2>4. IsSetting(w)
    BY <2>1, <2>2, <2>3, AddWeightIsSetting
  <2>5. DOMAIN w \subseteq P
    <3>1. DOMAIN w \subseteq DOMAIN u \union {"weight"}
      BY AddWeightDomain
    <3> HIDE DEF w
    <3> QED  BY <2>2, <3>1
  <2>6. line \in Lines
    <3>1. sizes[k] + (IF k = 1 THEN more ELSE 0) \in Int
      BY <1>5, <2>1
    <3> QED  BY <2>1, <3>1, WordsAre, ShortLines
  <2> HIDE DEF w, line
  <2>7. IsSetting(AddFeature(w, line))
    BY <2>4, <2>6, AddFeatureIsSetting
  <2>8. DOMAIN AddFeature(w, line) = {"feature"} \union DOMAIN w
    BY PushedDomain DEF AddFeature, Push
  <2>9. DOMAIN AddFeature(w, line) \subseteq P
    BY <2>5, <2>8
  <2>10. AddFeature(w, line) \in X
    <3> HIDE DEF P
    <3> QED  BY <2>7, <2>9, SettingsOnAre
  <2> QED  BY <2>10 DEF w, line
<1>10. s \in X
  <2>1. DOMAIN s \subseteq P
    OBVIOUS
  <2> HIDE DEF P
  <2> QED  BY <2>1, SettingsOnAre
<1> HIDE DEF op, X
<1>11. \E f \in [SUBSET (1 .. N) -> X] : IsIter(f)
  <2> DEFINE step == [k \in 1 .. N |-> [x \in X |-> op(x, steps[k])]]
  <2>1. step \in [1 .. N -> [X -> X]]
    BY <1>7, <1>9
  <2>2. PICK f \in [SUBSET (1 .. N) -> X] : IsFold(f, step, s, N)
    <3> HIDE DEF step
    <3> QED  BY <1>1, <1>10, <2>1, FoldExists
  <2>3. ASSUME NEW u \in SUBSET (1 .. N)
        PROVE  f[u] = IF u = {} THEN s ELSE op(f[u \ {Max(u)}], steps[Max(u)])
    <3>1. CASE u = {}
      BY <2>2, <3>1 DEF IsFold
    <3>2. CASE u # {}
      <4>1. Max(u) \in 1 .. N
        BY <1>1, <3>2, MaxIs
      <4>2. f[u] = step[Max(u)][f[u \ {Max(u)}]] /\ f[u \ {Max(u)}] \in X
        <5> HIDE DEF step
        <5> QED  BY <2>2, <3>2 DEF IsFold
      <4> QED  BY <3>2, <4>1, <4>2
    <3> QED  BY <3>1, <3>2
  <2>4. f = [u \in SUBSET (1 .. N) |-> f[u]]
    OBVIOUS
  <2>5. IsIter(f)
    <3> HIDE DEF step
    <3> QED  BY <2>3, <2>4
  <2> QED  BY <2>5
<1>12. IsIter(iter)
  <2> HIDE DEF IsIter
  <2> QED  BY <1>11
<1>13. \A u \in SUBSET (1 .. N) :
         iter[u] = IF u = {} THEN s ELSE op(iter[u \ {Max(u)}], steps[Max(u)])
  <2> HIDE DEF iter
  <2> QED  BY <1>12
<1> HIDE DEF iter, IsIter
<1> DEFINE good == {k \in 0 .. N : iter[1 .. k] \in X}
<1>14. 0 \in good
  <2>1. 1 .. 0 = {} /\ {} \in SUBSET (1 .. N) /\ 0 \in 0 .. N
    BY <1>1
  <2> QED  BY <1>10, <1>13, <2>1
<1>15. ASSUME NEW k \in 1 .. N, k - 1 \in good
       PROVE  k \in good
  <2>1. /\ 1 .. k \in SUBSET (1 .. N) /\ 1 .. k # {} /\ Max(1 .. k) = k
        /\ (1 .. k) \ {Max(1 .. k)} = 1 .. k - 1
    BY <1>1, MaxOfPrefix
  <2>2. iter[1 .. k] = op(iter[1 .. k - 1], steps[k])
    BY <1>13, <2>1
  <2>3. steps[k] = k /\ iter[1 .. k - 1] \in X
    BY <1>7, <1>15
  <2>4. iter[1 .. k] \in X
    BY <1>9, <2>2, <2>3
  <2> QED  BY <1>1, <2>4
<1>16. \A k \in 0 .. N : k \in good
  <2> HIDE DEF good
  <2> QED  BY <1>1, <1>14, <1>15, UpTo
<1>17. iter[1 .. N] \in X
  <2>1. N \in 0 .. N
    BY <1>1
  <2> QED  BY <1>16, <2>1
<1>18. IsSetting(iter[1 .. N])
  <2> HIDE DEF P
  <2> QED  BY <1>17, SettingsOnAre DEF X
<1> QED  BY <1>8, <1>18

LEMMA PhraseModelKeeps ==
  ASSUME NEW s, IsSetting(s)
  PROVE  Keeps(ConvertWeightArgsPhraseModel(s))
<1> DEFINE input == WithInputWeights(s)
           tables == Values(input, "ttable-file")
           sizes == [k \in DOMAIN tables |-> tables[k][4].num]
           isOlder == tables # <<>> /\ Len(tables[1]) = 4
           erased == {"weight-i", "weight-t", "ttable-file", "ttable-limit"}
<1>1. ConvertWeightArgsPhraseModel(s) =
        IF \/ InputScoresClash(s)
           \/ Defined(input, "input-scores") /\ Values(input, "input-scores") = <<>>
        THEN Failure
        ELSE IF LimitsMissing(s) \/ isOlder THEN Success(input)
        ELSE IF \/ \E k \in DOMAIN tables : Len(tables[k]) < 5
                \/ TooFew(Numbers(input, "weight-t"), sizes)
        THEN Failure
        ELSE Success(Erase(AddPhraseTables(input), erased))
  BY DEF ConvertWeightArgsPhraseModel
<1>2. IsSetting(input)
  BY InputWeightsAreSetting
<1>3. \A k \in DOMAIN tables : Len(tables[k]) \in Nat
  <2>1. tables \in Seq(Seq(Words))
    BY <1>2, ValuesAre DEF Lines
  <2> HIDE DEF tables
  <2> QED  BY <2>1
<1>4. (~ \E k \in DOMAIN tables : Len(tables[k]) < 5) /\ ~TooFew(Numbers(input, "weight-t"), sizes)
        => IsSetting(AddPhraseTables(input))
  <2> SUFFICES ASSUME ~ \E k \in DOMAIN tables : Len(tables[k]) < 5,
                      ~TooFew(Numbers(input, "weight-t"), sizes)
               PROVE  IsSetting(AddPhraseTables(input))
    OBVIOUS
  <2>1. \A k \in DOMAIN tables : Len(tables[k]) >= 5
    BY <1>3
  <2> HIDE DEF input
  <2> QED  BY <1>2, <2>1, AddPhraseTablesIsSetting
<1> HIDE DEF input, tables, sizes, isOlder, erased
<1>5. (~ \E k \in DOMAIN tables : Len(tables[k]) < 5) /\ ~TooFew(Numbers(input, "weight-t"), sizes)
        => Keeps(Success(Erase(AddPhraseTables(input), erased)))
  BY <1>4, SuccessKeeps
<1>6. Keeps(Success(input))
  BY <1>2, SuccessKeeps
<1> QED  BY <1>1, <1>5, <1>6, FailureKeeps

LEMMA NewNamesAre ==
  ASSUME NEW old \in {"weight-slm", "weight-u", "weight-lr", "weight-bl", "weight-glm",
                             "weight-wt", "weight-pp", "weight-pb", "weight-e", "weight-lex"}
  PROVE  NewName(old) \in Texts
<1>1. NewName(old) \in OwnTexts
  BY DEF NewName, OwnTexts
<1> QED  BY <1>1, OwnTextsAreTexts

LEMMA ConvertedKeeps ==
  ASSUME NEW s, IsSetting(s), NEW k \in 1 .. Len(Conversions)
  PROVE  Keeps(Converted(s, Conversions[k]))
<1> DEFINE singles == {"weight-slm", "weight-u", "weight-lr", "weight-bl", "weight-glm",
                       "weight-wt", "weight-pp", "weight-pb", "weight-e", "weight-lex"}
           others == {"WordPenalty", "LM", "Generation", "Distortion", "PhrasePenalty",
                      "features", "PhraseModel"}
           c == Conversions[k]
<1>1. c \in singles \union others
  <2>1. k \in 1 .. 17
    BY DEF Conversions
  <2> QED  BY <2>1 DEF Conversions
<1> HIDE DEF c
<1>2. CASE c \in singles
  <2>1. Converted(s, c) = ConvertWeightArgsSingleWeight(s, c, NewName(c))
    BY <1>2 DEF Converted
  <2> QED  BY <1>2, <2>1, NewNamesAre, SingleWeightKeeps DEF c
<1>3. CASE c \in others
  <2>1. /\ c = "WordPenalty" => Converted(s, c) = ConvertWeightArgsWordPenalty(s)
        /\ c = "LM" => Converted(s, c) = ConvertWeightArgsLM(s)
        /\ c = "Generation" => Converted(s, c) = ConvertWeightArgsGeneration(s)
        /\ c = "Distortion" => Converted(s, c) = ConvertWeightArgsDistortion(s)
        /\ c = "PhrasePenalty" => Converted(s, c) = ConvertPhrasePenalty(s)
        /\ c = "features" =>
             Converted(s, c) = Success(PushAll(s, "feature", <<<<Kind("WordPenalty")>>,
                                                              <<Kind("UnknownWordPenalty")>>>>))
        /\ c = "PhraseModel" => Converted(s, c) = ConvertWeightArgsPhraseModel(s)
    BY DEF Converted
  <2>2. Keeps(Converted(s, c))
    BY <1>3, <2>1, WordPenaltyKeeps, LMKeeps, GenerationKeeps, DistortionKeeps,
       PhrasePenaltyKeeps, PenaltiesKeep, PhraseModelKeeps
  <2> QED  BY <2>2 DEF c
<1> QED  BY <1>1, <1>2, <1>3

-----------------------------------------------------------------------------
(* The types *)

LEMMA ArgumentsAre ==
  ASSUME argv \in Seq(Lines), NEW name, Occurs(name)
  PROVE  Given(name) \in Seq(Lines)
<1> DEFINE N == Len(argv)
           at == {i \in DOMAIN argv : argv[i] = Switch(name)}
           end == {i \in DOMAIN argv : i > Min(at) /\ isOption(argv[i])}
           a == Min(at)
           e == Min(end \union {N + 1})
<1>1. N \in Nat /\ DOMAIN argv = 1 .. N /\ \A i \in 1 .. N : argv[i] \in Lines
  OBVIOUS
<1>2. at \in SUBSET (1 .. N) /\ at # {}
  BY <1>1 DEF Occurs
<1>3. a \in 1 .. N
  <2> HIDE DEF at
  <2>1. a \in at
    BY <1>1, <1>2, MinIs
  <2> QED  BY <1>2, <2>1
<1>4. e \in 1 .. N + 1
  <2> DEFINE all == end \union {N + 1}
  <2>1. all \in SUBSET (1 .. N + 1) /\ all # {} /\ N + 1 \in Nat
    BY <1>1
  <2> HIDE DEF all
  <2>2. Min(all) \in all
    BY <2>1, MinIs
  <2>3. Min(all) \in 1 .. N + 1
    BY <2>1, <2>2
  <2> QED  BY <2>3 DEF all
<1>5. Given(name) = SubSeq(argv, a + 1, e - 1)
  BY DEF Given
<1> HIDE DEF a, e, N
<1>6. a + 1 \in Int /\ e - 1 \in Int /\ \A i \in a + 1 .. e - 1 : argv[i] \in Lines
  BY <1>1, <1>3, <1>4
<1>7. SubSeq(argv, a + 1, e - 1) \in Seq(Lines)
  BY <1>6, SubSeqProperties
<1> QED  BY <1>5, <1>7

\* What is left of a sequence after its first elements.
LEMMA RestIs ==
  ASSUME NEW X, NEW v \in Seq(X), NEW n \in Nat
  PROVE  SubSeq(v, n + 1, Len(v)) \in Seq(X)
<1>1. Len(v) \in Nat /\ \A i \in 1 .. Len(v) : v[i] \in X
  OBVIOUS
<1>2. n + 1 \in Int /\ Len(v) \in Int /\ \A i \in n + 1 .. Len(v) : v[i] \in X
  BY <1>1
<1> QED  BY <1>2, SubSeqProperties

LEMMA OverwriteParamsIsSetting ==
  ASSUME NEW s, IsSetting(s), argv \in Seq(Lines),
         NEW switches, DOMAIN switches \intersect Tabled = {}
  PROVE  IsSetting(OverwriteParams(s, switches))
<1> DEFINE switched == {param \in DOMAIN switches : Occurs(switches[param])}
           D == DOMAIN s \union switched
           new(param) == Given(switches[param])
           old(param) == Values(s, param)
           t == OverwriteParams(s, switches)
<1>1. t = [param \in D |-> IF param \in switched
                            THEN new(param) \o SubSeq(old(param), Len(new(param)) + 1, Len(old(param)))
                            ELSE old(param)]
  BY DEF OverwriteParams
<1>2. ASSUME NEW param \in D
      PROVE  (IF param \in switched
              THEN new(param) \o SubSeq(old(param), Len(new(param)) + 1, Len(old(param)))
              ELSE old(param)) \in Seq(LinesFor(param))
  <2>1. old(param) \in Seq(LinesFor(param)) /\ old(param) \in Seq(Lines)
    BY ValuesAre
  <2>2. CASE param \in switched
    <3>1. LinesFor(param) = Lines
      BY <2>2, LinesAre
    <3>2. new(param) \in Seq(Lines)
      BY <2>2, ArgumentsAre
    <3> HIDE DEF new, old
    <3>3. Len(new(param)) \in Nat
      BY <3>2
    <3>4. SubSeq(old(param), Len(new(param)) + 1, Len(old(param))) \in Seq(Lines)
      BY <2>1, <3>3, RestIs
    <3>5. new(param) \o SubSeq(old(param), Len(new(param)) + 1, Len(old(param))) \in Seq(Lines)
      BY <3>2, <3>4, LongerSeq
    <3> QED  BY <2>2, <3>1, <3>5
  <2>3. CASE param \notin switched
    BY <2>1, <2>3
  <2> QED  BY <2>2, <2>3
<1> HIDE DEF D, switched, new, old, t
<1>3. t = [param \in D |-> t[param]] /\ \A param \in D : t[param] \in Seq(LinesFor(param))
  BY <1>1, <1>2
<1>4. IsSetting(t)
  BY <1>3, SettingIs
<1> QED  BY <1>4 DEF t

ReadAllValues(values) ==
  FoldLeft(LAMBDA s, value : Push(s, value.section, value.line), NoSettings, values)

FileValue == {v \in [section : STRING, line : Lines] : v.line \in LinesFor(v.section)}

LEMMA ReadIsSetting ==
  ASSUME NEW values \in Seq(FileValue)
  PROVE  IsSetting(ReadAllValues(values))
<1> DEFINE N == Len(values)
           op(s, value) == Push(s, value.section, value.line)
           X == SettingsOn(STRING)
           IsIter(f) == f = [u \in SUBSET (1 .. N) |->
                               IF u = {} THEN NoSettings
                               ELSE op(f[u \ {Max(u)}], values[Max(u)])]
           iter == CHOOSE f : IsIter(f)
<1>1. N \in Nat /\ DOMAIN values = 1 .. N /\ \A n \in 1 .. N : values[n] \in FileValue
  <2> HIDE DEF FileValue
  <2> QED  OBVIOUS
<1>2. ReadAllValues(values) = iter[1 .. N]
  BY <1>1 DEF ReadAllValues, FoldLeft, MapThenFoldSet
<1>3. \A u \in X : \A k \in 1 .. N : op(u, values[k]) \in X
  <2> SUFFICES ASSUME NEW u \in X, NEW k \in 1 .. N
               PROVE  op(u, values[k]) \in X
    OBVIOUS
  <2> DEFINE section == values[k].section
             line == values[k].line
             t == Push(u, section, line)
  <2>1. section \in STRING /\ line \in LinesFor(section)
    <3>1. values[k] \in FileValue
      BY <1>1
    <3> QED  BY <3>1 DEF FileValue
  <2>2. IsSetting(u) /\ DOMAIN u \subseteq STRING
    BY SettingsOnAre
  <2> HIDE DEF section, line
  <2>3. IsSetting(t)
    BY <2>1, <2>2, PushIsSetting
  <2>4. DOMAIN t = {section} \union DOMAIN u
    BY PushedDomain DEF Push
  <2>5. DOMAIN t \subseteq STRING
    BY <2>1, <2>2, <2>4
  <2> HIDE DEF t
  <2>6. t \in X
    BY <2>3, <2>5, SettingsOnAre
  <2> QED  BY <2>6 DEF t, section, line
<1>4. NoSettings \in X
  <2>1. DOMAIN NoSettings \subseteq STRING
    BY DEF NoSettings
  <2> QED  BY <2>1, NoSettingsIsSetting, SettingsOnAre
<1> HIDE DEF op, X, N
<1>5. \E f \in [SUBSET (1 .. N) -> X] : IsIter(f)
  <2> DEFINE step == [k \in 1 .. N |-> [x \in X |-> op(x, values[k])]]
  <2>1. step \in [1 .. N -> [X -> X]]
    BY <1>3
  <2>2. PICK f \in [SUBSET (1 .. N) -> X] : IsFold(f, step, NoSettings, N)
    <3> HIDE DEF step
    <3> QED  BY <1>1, <1>4, <2>1, FoldExists
  <2>3. ASSUME NEW u \in SUBSET (1 .. N)
        PROVE  f[u] = IF u = {} THEN NoSettings ELSE op(f[u \ {Max(u)}], values[Max(u)])
    <3>1. CASE u = {}
      BY <2>2, <3>1 DEF IsFold
    <3>2. CASE u # {}
      <4>1. Max(u) \in 1 .. N
        BY <1>1, <3>2, MaxIs
      <4>2. f[u] = step[Max(u)][f[u \ {Max(u)}]] /\ f[u \ {Max(u)}] \in X
        <5> HIDE DEF step
        <5> QED  BY <2>2, <3>2 DEF IsFold
      <4> QED  BY <3>2, <4>1, <4>2
    <3> QED  BY <3>1, <3>2
  <2>4. f = [u \in SUBSET (1 .. N) |-> f[u]]
    OBVIOUS
  <2>5. IsIter(f)
    <3> HIDE DEF step
    <3> QED  BY <2>3, <2>4
  <2> QED  BY <2>5
<1>6. IsIter(iter)
  <2> HIDE DEF IsIter
  <2> QED  BY <1>5
<1>7. \A u \in SUBSET (1 .. N) :
        iter[u] = IF u = {} THEN NoSettings ELSE op(iter[u \ {Max(u)}], values[Max(u)])
  <2> HIDE DEF iter
  <2> QED  BY <1>6
<1> HIDE DEF iter, IsIter
<1> DEFINE good == {k \in 0 .. N : iter[1 .. k] \in X}
<1>8. 0 \in good
  <2>1. 1 .. 0 = {} /\ {} \in SUBSET (1 .. N) /\ 0 \in 0 .. N
    BY <1>1
  <2> QED  BY <1>4, <1>7, <2>1
<1>9. ASSUME NEW k \in 1 .. N, k - 1 \in good
      PROVE  k \in good
  <2>1. /\ 1 .. k \in SUBSET (1 .. N) /\ 1 .. k # {} /\ Max(1 .. k) = k
        /\ (1 .. k) \ {Max(1 .. k)} = 1 .. k - 1
    BY <1>1, MaxOfPrefix
  <2>2. iter[1 .. k] = op(iter[1 .. k - 1], values[k])
    BY <1>7, <2>1
  <2>3. iter[1 .. k - 1] \in X
    BY <1>9
  <2>4. iter[1 .. k] \in X
    BY <1>3, <2>2, <2>3
  <2> QED  BY <1>1, <2>4
<1>10. \A k \in 0 .. N : k \in good
  <2> HIDE DEF good
  <2> QED  BY <1>1, <1>8, <1>9, UpTo
<1>11. iter[1 .. N] \in X
  <2>1. N \in 0 .. N
    BY <1>1
  <2> QED  BY <1>10, <2>1
<1> QED  BY <1>2, <1>11, SettingsOnAre DEF X, N

LEMMA NoneTabled ==
  Described \intersect Tabled = {} /\ Abbreviated \intersect Tabled = {}
<1>1. ASSUME NEW param \in Tabled
      PROVE  /\ param \notin MainParams /\ param \notin FactorParams /\ param \notin SearchParams
             /\ param \notin TuneParams /\ param \notin DistortionParams
             /\ param \notin CubeParams /\ param \notin UnknownWordParams
             /\ param \notin InputParams /\ param \notin OutputParams
             /\ param \notin NBestParams /\ param \notin ServerParams
             /\ param \notin OtherParams /\ param \notin Abbreviated
  BY DEF Tabled, MainParams, FactorParams, SearchParams, TuneParams, DistortionParams,
         CubeParams, UnknownWordParams, InputParams, OutputParams, NBestParams,
         ServerParams, OtherParams, Abbreviated
<1>2. ASSUME NEW param \in Tabled
      PROVE  param \notin Described
  BY <1>1 DEF Described
<1> QED  BY <1>1, <1>2

\* The weights are a map from words to lines.
LEMMA MapsAre ==
  ASSUME NEW w
  PROVE  w \in WeightMaps <=> DOMAIN w \subseteq Words /\ w \in [DOMAIN w -> Lines]
<1>1. ASSUME w \in WeightMaps
      PROVE  DOMAIN w \subseteq Words /\ w \in [DOMAIN w -> Lines]
  <2>1. PICK S \in SUBSET Words : w \in [S -> Lines]
    BY <1>1 DEF WeightMaps
  <2> QED  BY <2>1
<1>2. ASSUME DOMAIN w \subseteq Words, w \in [DOMAIN w -> Lines]
      PROVE  w \in WeightMaps
  BY <1>2 DEF WeightMaps
<1> QED  BY <1>1, <1>2

LEMMA OverwrittenIsMap ==
  ASSUME weights \in WeightMaps, NEW line \in Lines
  PROVE  /\ Overwritten(line) = Save(ReadAll(Start(weights), line))
         /\ Overwritten(line).map \in WeightMaps
         /\ Overwritten(line).failed = ReadAll(Start(weights), line).failed
         /\ Overwritten(line).failed \in BOOLEAN
<1>1. Overwritten(line) = Save(ReadAll(Start(weights), line))
  BY DEF Overwritten, ReadAll, Start
<1>2. Start(weights) \in Progress
  BY DEF Start, Progress, Lines
<1>3. PICK acc : AreRead(acc, Start(weights), line) /\ ReadAll(Start(weights), line) = acc[Len(line)]
  BY <1>2, ReadInSteps
<1>4. ReadAll(Start(weights), line) \in Progress
  <2>1. Len(line) \in Nat
    BY DEF Lines
  <2> QED  BY <1>3, <2>1 DEF AreRead
<1>5. /\ Save(ReadAll(Start(weights), line)) \in Progress
      /\ Save(ReadAll(Start(weights), line)).failed = ReadAll(Start(weights), line).failed
  BY <1>4, SaveIsProgress
<1> QED  BY <1>1, <1>5 DEF Progress

LEMMA InputsAre ==
  ASSUME TypeOK
  PROVE  file \in Seq(FileValue) /\ argv \in Seq(Lines)
BY InputAssumption DEF TypeOK, FileValue

\* The steps before the weights are made a map.
BeforeMap == {"find", "read", "switches", "shortcuts", "features", "mix", "convert", "map"}

\* What has not been done yet.
InOrder ==
  /\ pc \in {"find", "read"} => setting = NoSettings
  /\ pc \in BeforeMap \ {"convert", "map"} => conversion = 1
  /\ pc = "convert" => conversion \in 1 .. Len(Conversions)
  /\ pc \in BeforeMap => weights = NoWeights

LEMMA LinesHaveNames ==
  ASSUME NEW lines \in Seq(Lines), \A line \in Range(lines) : Len(line) >= 2
  PROVE  \A i \in DOMAIN lines : Len(lines[i]) > 0
<1> SUFFICES ASSUME NEW i \in DOMAIN lines  PROVE Len(lines[i]) > 0
  OBVIOUS
<1>1. lines[i] \in Range(lines)
  BY RangeIs
<1>2. Len(lines[i]) \in Nat
  BY DEF Lines
<1> QED  BY <1>1, <1>2

LEMMA InitTypes == Init => TypeOK /\ InOrder
<1> SUFFICES ASSUME Init  PROVE TypeOK /\ InOrder
  OBVIOUS
<1>1. IsSetting(setting)
  BY NoSettingsIsSetting DEF Init
<1>2. conversion \in 1 .. (Len(Conversions) + 1)
  BY DEF Init, Conversions
<1>3. DOMAIN weights = {} /\ weights \in [DOMAIN weights -> Lines]
  BY DEF Init
<1> QED  BY <1>1, <1>2, <1>3 DEF Init, TypeOK, InOrder, NoWeights

LEMMA NextTypes ==
  TypeOK /\ InOrder /\ [Next]_vars => TypeOK'
<1> SUFFICES ASSUME TypeOK, InOrder, [Next]_vars  PROVE TypeOK'
  OBVIOUS
<1>0. /\ file \in Files /\ argv \in CommandLines /\ conversion \in 1 .. (Len(Conversions) + 1)
      /\ IsSetting(setting) /\ weights \in WeightMaps /\ accepted \in BOOLEAN
  BY MapsAre DEF TypeOK
<1>1. ASSUME UNCHANGED <<file, argv>>, conversion' \in 1 .. (Len(Conversions) + 1),
             IsSetting(setting'), weights' \in WeightMaps, accepted' \in BOOLEAN,
             pc' \in {"find", "read", "switches", "shortcuts", "features", "mix", "convert",
                      "map", "overwrite", "validate", "done", "no config", "exit", "exception"}
      PROVE  TypeOK'
  <2>1. IsSetting(setting)'
    BY <1>1 DEF IsSetting
  <2>2. DOMAIN weights' \subseteq Words /\ weights' \in [DOMAIN weights' -> Lines]
    BY <1>1, MapsAre
  <2> QED  BY <1>0, <1>1, <2>1, <2>2 DEF TypeOK
<1>2. CASE UNCHANGED vars
  <2>1. IsSetting(setting') /\ weights' \in WeightMaps
    BY <1>0, <1>2 DEF vars
  <2> QED  BY <1>0, <1>1, <1>2, <2>1 DEF vars, TypeOK
<1>3. CASE FindConfig
  <2>1. UNCHANGED <<file, argv, conversion, setting, weights, accepted>>
    BY <1>3 DEF FindConfig
  <2>2. pc' \in {"no config", "read", "exit"}
    BY <1>3 DEF FindConfig
  <2> QED  BY <1>0, <1>1, <2>1, <2>2
<1>4. CASE ReadConfigFile
  <2>1. pc = "read" /\ pc' = "switches" /\ UNCHANGED <<file, argv, conversion, weights, accepted>>
    BY <1>4 DEF ReadConfigFile
  <2>2. setting' = ReadAllValues(file)
    <3>1. setting' = FoldLeft(LAMBDA s, value : Push(s, value.section, value.line),
                              setting, file)
      BY <1>4 DEF ReadConfigFile
    <3>2. setting = NoSettings
      BY <2>1 DEF InOrder
    <3> QED  BY <3>1, <3>2 DEF ReadAllValues
  <2>3. IsSetting(setting')
    BY <2>2, InputsAre, ReadIsSetting
  <2> QED  BY <1>0, <1>1, <2>1, <2>3
<1>5. CASE OverwriteBySwitches
  <2>1. /\ pc' = "shortcuts" /\ UNCHANGED <<file, argv, conversion, weights, accepted>>
        /\ setting' = OverwriteParams(setting, [param \in Described |-> param])
    BY <1>5 DEF OverwriteBySwitches
  <2>2. DOMAIN [param \in Described |-> param] = Described
    OBVIOUS
  <2>3. IsSetting(OverwriteParams(setting, [param \in Described |-> param]))
    BY <1>0, <2>2, NoneTabled, InputsAre, OverwriteParamsIsSetting
  <2> QED  BY <1>0, <1>1, <2>1, <2>3
<1>6. CASE OverwriteByShortcuts
  <2>1. /\ pc' = "features" /\ UNCHANGED <<file, argv, conversion, weights, accepted>>
        /\ setting' = OverwriteParams(setting, Abbreviation)
    BY <1>6 DEF OverwriteByShortcuts
  <2>2. DOMAIN Abbreviation = Abbreviated
    BY DEF Abbreviation
  <2>3. IsSetting(OverwriteParams(setting, Abbreviation))
    BY <1>0, <2>2, NoneTabled, InputsAre, OverwriteParamsIsSetting
  <2> QED  BY <1>0, <1>1, <2>1, <2>3
<1>7. CASE AddFeaturesCmd
  <2> DEFINE s == PushAll(setting, "feature", Values(setting, "feature-add"))
  <2>1. /\ pc' = "mix" /\ UNCHANGED <<file, argv, conversion, weights, accepted>>
        /\ setting' = Erase(s, {"feature-add"})
    BY <1>7 DEF AddFeaturesCmd
  <2>2. Values(setting, "feature-add") \in Seq(Lines)
    BY <1>0, ValuesAre
  <2>3. IsSetting(s)
    BY <1>0, <2>2, FreePush
  <2> HIDE DEF s
  <2>4. IsSetting(setting')
    BY <2>1, <2>3, EraseIsSetting
  <2> QED  BY <1>0, <1>1, <2>1, <2>4
<1>8. CASE CheckMix
  <2>1. UNCHANGED <<file, argv, conversion, setting, weights, accepted>>
    BY <1>8 DEF CheckMix
  <2>2. pc' \in {"exception", "map", "convert"}
    BY <1>8 DEF CheckMix
  <2> QED  BY <1>0, <1>1, <2>1, <2>2
<1>9. CASE ConvertWeightArgs
  <2>1. UNCHANGED <<file, argv, weights, accepted>> /\ pc = "convert"
    BY <1>9 DEF ConvertWeightArgs
  <2> DEFINE result == Converted(setting, Conversions[conversion])
  <2>2. \/ pc' = "exception" /\ UNCHANGED <<setting, conversion>>
        \/ /\ ~result.failed /\ setting' = result.settings /\ conversion' = conversion + 1
           /\ pc' \in {"convert", "map"}
    BY <1>9 DEF ConvertWeightArgs
  <2>3. conversion \in 1 .. Len(Conversions) /\ Len(Conversions) \in Nat
    BY <2>1 DEF InOrder, Conversions
  <2>4. Keeps(result)
    BY <1>0, <2>3, ConvertedKeeps
  <2> HIDE DEF result
  <2>5. IsSetting(setting') /\ conversion' \in 1 .. (Len(Conversions) + 1)
    BY <1>0, <2>2, <2>3, <2>4 DEF Keeps
  <2> QED  BY <1>0, <1>1, <2>1, <2>2, <2>5
<1>10. CASE CreateWeightsMap
  <2>1. UNCHANGED <<file, argv, conversion, accepted>>
    BY <1>10 DEF CreateWeightsMap
  <2> DEFINE lines == WeightLines(setting)
             all == \A line \in Range(lines) : Len(line) >= 2
  <2>2. \/ pc' = "exception" /\ UNCHANGED <<setting, weights>>
        \/ /\ pc' = "overwrite" /\ all /\ weights' = Mapped(weights, lines)
           /\ setting' = Touch(setting, {"weight-add", "weight"})
    BY <1>10 DEF CreateWeightsMap, Mapped
  <2>3. weights = NoWeights
    BY <1>10 DEF CreateWeightsMap, InOrder, BeforeMap
  <2>4. lines \in Seq(Lines)
    BY <1>0, ValuesAre, LongerSeq DEF WeightLines
  <2>5. all => Mapped(NoWeights, lines) \in WeightMaps
    BY <2>4, LinesHaveNames, MappedIs
  <2>6. IsSetting(Touch(setting, {"weight-add", "weight"}))
    BY <1>0, TouchIsSetting
  <2> HIDE DEF lines, all
  <2> QED  BY <1>0, <1>1, <2>1, <2>2, <2>3, <2>5, <2>6
<1>11. CASE WeightOverwrite
  <2> DEFINE lines  == Values(setting, "weight-overwrite")
             result == Overwritten(lines[1])
  <2>1. /\ UNCHANGED <<file, argv, conversion, accepted>>
        /\ setting' = Touch(setting, {"weight-overwrite"})
        /\ pc' \in {"validate", "exception"}
        /\ \/ UNCHANGED weights
           \/ Len(lines) = 1 /\ weights' = result.map
    BY <1>11 DEF WeightOverwrite
  <2>2. IsSetting(setting')
    BY <1>0, <2>1, TouchIsSetting
  <2>3. Len(lines) = 1 => result.map \in WeightMaps
    <3>1. lines \in Seq(Lines)
      BY <1>0, ValuesAre
    <3>2. Len(lines) = 1 => lines[1] \in Lines
      <4> HIDE DEF lines
      <4> QED  BY <3>1
    <3> QED  BY <1>0, <3>2, OverwrittenIsMap
  <2> HIDE DEF lines, result
  <2> QED  BY <1>0, <1>1, <2>1, <2>2, <2>3
<1>12. CASE Validate
  <2>1. /\ pc' = "done" /\ UNCHANGED <<file, argv, conversion, weights>>
        /\ \E params : setting' = Touch(setting, params)
        /\ accepted' \in BOOLEAN
    BY <1>12 DEF Validate, ValidateSettings
  <2>2. IsSetting(setting')
    BY <1>0, <2>1, TouchIsSetting
  <2> QED  BY <1>0, <1>1, <2>1, <2>2
<1> QED  BY <1>2, <1>3, <1>4, <1>5, <1>6, <1>7, <1>8, <1>9, <1>10, <1>11, <1>12 DEF Next

LEMMA NextInOrder ==
  TypeOK /\ InOrder /\ [Next]_vars => InOrder'
<1> SUFFICES ASSUME TypeOK, InOrder, [Next]_vars  PROVE InOrder'
  OBVIOUS
<1>1. CASE UNCHANGED vars
  BY <1>1 DEF vars, InOrder
<1>2. CASE FindConfig
  BY <1>2 DEF FindConfig, InOrder, BeforeMap
<1>3. CASE ReadConfigFile
  BY <1>3 DEF ReadConfigFile, InOrder, BeforeMap
<1>4. CASE OverwriteBySwitches
  BY <1>4 DEF OverwriteBySwitches, InOrder, BeforeMap
<1>5. CASE OverwriteByShortcuts
  BY <1>5 DEF OverwriteByShortcuts, InOrder, BeforeMap
<1>6. CASE AddFeaturesCmd
  BY <1>6 DEF AddFeaturesCmd, InOrder, BeforeMap
<1>7. CASE CheckMix
  <2>1. Len(Conversions) = 17
    BY DEF Conversions
  <2> QED  BY <1>7, <2>1 DEF CheckMix, InOrder, BeforeMap
<1>8. CASE ConvertWeightArgs
  <2>1. Len(Conversions) = 17
    BY DEF Conversions
  <2>2. /\ pc = "convert" /\ UNCHANGED weights
        /\ \/ pc' = "exception"
           \/ /\ conversion' = conversion + 1
              /\ pc' = IF conversion < Len(Conversions) THEN "convert" ELSE "map"
    BY <1>8 DEF ConvertWeightArgs
  <2> QED  BY <2>1, <2>2 DEF InOrder, BeforeMap
<1>9. CASE CreateWeightsMap
  <2>1. pc' \in {"exception", "overwrite"}
    BY <1>9 DEF CreateWeightsMap
  <2> QED  BY <2>1 DEF InOrder, BeforeMap
<1>10. CASE WeightOverwrite
  <2>1. pc' \in {"exception", "validate"}
    BY <1>10 DEF WeightOverwrite
  <2> QED  BY <2>1 DEF InOrder, BeforeMap
<1>11. CASE Validate
  BY <1>11 DEF Validate, InOrder, BeforeMap
<1> QED  BY <1>1, <1>2, <1>3, <1>4, <1>5, <1>6, <1>7, <1>8, <1>9, <1>10, <1>11 DEF Next

LEMMA TouchKeepsValues ==
  ASSUME NEW s, NEW params, NEW param
  PROVE  Values(Touch(s, params), param) = Values(s, param)
<1> DEFINE t == Touch(s, params)
<1>1. DOMAIN t = DOMAIN s \union params /\ \A k \in DOMAIN s \union params : t[k] = Values(s, k)
  BY DEF Touch
<1> HIDE DEF t
<1>2. Values(t, param) = Values(s, param)
  BY <1>1 DEF Values, Defined
<1> QED  BY <1>2 DEF t

\* The lines that weights come from, and what has been made of them.
HaveNames == \A i \in DOMAIN WeightLines(setting) : Len(WeightLines(setting)[i]) > 0

WeightsAreMapped ==
  /\ pc = "overwrite" =>
       HaveNames /\ weights = Mapped(NoWeights, WeightLines(setting))
  /\ pc \in {"validate", "done"} =>
       /\ HaveNames
       /\ PlainOverwrite =>
            IsSavedUpTo(weights, Mapped(NoWeights, WeightLines(setting)),
                        OverwriteWords, Len(OverwriteWords) + 1)

\* More parameters with no values change neither.
LEMMA SameLines ==
  ASSUME NEW params, setting' = Touch(setting, params)
  PROVE  /\ WeightLines(setting') = WeightLines(setting)
         /\ OverwriteWords' = OverwriteWords
         /\ PlainOverwrite' <=> PlainOverwrite
         /\ HaveNames' <=> HaveNames
<1>1. \A param : Values(setting', param) = Values(setting, param)
  BY TouchKeepsValues
<1>2. WeightLines(setting') = WeightLines(setting)
  BY <1>1 DEF WeightLines
<1>3. OverwriteWords' = OverwriteWords
  BY <1>1 DEF OverwriteWords
<1>4. PlainOverwrite' <=> PlainOverwrite
  BY <1>3 DEF PlainOverwrite
<1>5. HaveNames' <=> HaveNames
  BY <1>2 DEF HaveNames
<1> QED  BY <1>2, <1>3, <1>4, <1>5

LEMMA NextMapped ==
  TypeOK /\ InOrder /\ WeightsAreMapped /\ [Next]_vars => WeightsAreMapped'
<1> SUFFICES ASSUME TypeOK, InOrder, WeightsAreMapped, [Next]_vars
             PROVE  WeightsAreMapped'
  OBVIOUS
<1>1. /\ IsSetting(setting) /\ weights \in WeightMaps
  BY MapsAre DEF TypeOK
<1>2. CASE UNCHANGED vars
  <2>1. /\ pc' = pc /\ WeightLines(setting') = WeightLines(setting) /\ OverwriteWords' = OverwriteWords
        /\ weights' = weights /\ (PlainOverwrite' <=> PlainOverwrite) /\ (HaveNames' <=> HaveNames)
    BY <1>2 DEF vars, OverwriteWords, PlainOverwrite, HaveNames
  <2> QED  BY <2>1 DEF WeightsAreMapped
<1>3. CASE pc' \notin {"overwrite", "validate", "done"}
  BY <1>3 DEF WeightsAreMapped
<1>4. CASE CreateWeightsMap /\ pc' \in {"overwrite", "validate", "done"}
  <2> DEFINE lines == WeightLines(setting)
             all == \A line \in Range(lines) : Len(line) >= 2
  <2>1. /\ pc' = "overwrite" /\ all /\ weights' = Mapped(weights, lines)
        /\ setting' = Touch(setting, {"weight-add", "weight"})
    BY <1>4 DEF CreateWeightsMap, Mapped
  <2>2. weights = NoWeights
    BY <1>4 DEF CreateWeightsMap, InOrder, BeforeMap
  <2>3. lines \in Seq(Lines)
    BY <1>1, ValuesAre, LongerSeq DEF WeightLines
  <2>4. HaveNames
    BY <2>1, <2>3, LinesHaveNames DEF HaveNames
  <2>5. HaveNames' /\ WeightLines(setting') = lines
    BY <2>1, <2>4, SameLines
  <2> HIDE DEF lines
  <2> QED  BY <2>1, <2>2, <2>5 DEF WeightsAreMapped
<1>5. CASE WeightOverwrite /\ pc' \in {"overwrite", "validate", "done"}
  <2> DEFINE given == Values(setting, "weight-overwrite")
             result == Overwritten(given[1])
             w == Mapped(NoWeights, WeightLines(setting))
             line == OverwriteWords
  <2>1. /\ pc = "overwrite" /\ pc' = "validate"
        /\ setting' = Touch(setting, {"weight-overwrite"})
        /\ \/ given = <<>> /\ weights' = weights
           \/ Len(given) = 1 /\ ~result.failed /\ weights' = result.map
    BY <1>5 DEF WeightOverwrite
  <2>2. HaveNames /\ weights = w
    BY <2>1 DEF WeightsAreMapped
  <2>3. /\ WeightLines(setting') = WeightLines(setting) /\ OverwriteWords' = line
        /\ (PlainOverwrite' <=> PlainOverwrite) /\ HaveNames'
    BY <2>1, <2>2, SameLines
  <2>4. ASSUME PlainOverwrite
        PROVE  IsSavedUpTo(weights', w, line, Len(line) + 1)
    <3>1. CASE given = <<>>
      <4>1. line = <<>> /\ weights' = w
        <5>1. Len(given) = 0
          BY <3>1
        <5> QED  BY <2>1, <2>2, <3>1, <5>1 DEF OverwriteWords
      <4>2. Len(line) + 1 = 1
        BY <4>1
      <4>3. IsSavedUpTo(w, w, line, 1)
        <5> HIDE DEF w, line
        <5> QED  BY DEF IsSavedUpTo
      <4> QED  BY <4>1, <4>2, <4>3
    <3>2. CASE given # <<>>
      <4>1. Len(given) = 1 /\ ~result.failed /\ weights' = result.map
        BY <2>1, <3>2
      <4>2. given \in Seq(Lines)
        BY <1>1, ValuesAre
      <4>3. line = given[1]
        BY <3>2 DEF OverwriteWords
      <4>4. line \in Lines
        <5>1. given[1] \in Lines
          <6>1. Len(given) = 1
            BY <4>1
          <6> HIDE DEF given
          <6> QED  BY <4>2, <6>1
        <5> QED  BY <4>3, <5>1
      <4>5. AreNamesOnce(line)
        BY <2>4 DEF AreNamesOnce, PlainOverwrite
      <4>6. /\ result = Save(ReadAll(Start(weights), line))
            /\ result.failed = ReadAll(Start(weights), line).failed
            /\ result.failed \in BOOLEAN
        BY <1>1, <4>3, <4>4, OverwrittenIsMap
      <4>7. ReadAll(Start(weights), line).failed = FALSE
        <5> HIDE DEF result, line
        <5> QED  BY <4>1, <4>6
      <4>8. IsSavedUpTo(Save(ReadAll(Start(weights), line)).map, weights, line, Len(line) + 1)
        BY <1>1, <4>4, <4>5, <4>7, OverwrittenIs
      <4> HIDE DEF result, line, w, given
      <4> QED  BY <2>2, <4>1, <4>6, <4>8
    <3> QED  BY <3>1, <3>2
  <2> HIDE DEF w, line
  <2>5. w = Mapped(NoWeights, WeightLines(setting'))
    BY <2>3 DEF w
  <2> QED  BY <2>1, <2>3, <2>4, <2>5 DEF WeightsAreMapped
<1>6. CASE Validate
  <2>1. /\ pc = "validate" /\ pc' = "done" /\ weights' = weights
        /\ \E params : setting' = Touch(setting, params)
    BY <1>6 DEF Validate, ValidateSettings
  <2>2. /\ WeightLines(setting') = WeightLines(setting) /\ OverwriteWords' = OverwriteWords
        /\ (PlainOverwrite' <=> PlainOverwrite) /\ (HaveNames' <=> HaveNames)
    BY <2>1, SameLines
  <2> QED  BY <2>1, <2>2 DEF WeightsAreMapped
<1>7. CASE \/ FindConfig \/ ReadConfigFile \/ OverwriteBySwitches \/ OverwriteByShortcuts
           \/ AddFeaturesCmd \/ CheckMix \/ ConvertWeightArgs
  <2>1. pc' \notin {"overwrite", "validate", "done"}
    BY <1>7 DEF FindConfig, ReadConfigFile, OverwriteBySwitches, OverwriteByShortcuts,
                AddFeaturesCmd, CheckMix, ConvertWeightArgs
  <2> QED  BY <1>3, <2>1
<1> QED  BY <1>2, <1>3, <1>4, <1>5, <1>6, <1>7 DEF Next

LEMMA MappedIsPrecedence ==
  TypeOK /\ WeightsAreMapped => WeightsPrecedence
<1> SUFFICES ASSUME TypeOK, WeightsAreMapped  PROVE WeightsPrecedence
  OBVIOUS
<1>1. CASE pc \notin {"validate", "done"}
  BY <1>1 DEF WeightsPrecedence
<1>2. CASE pc \in {"validate", "done"}
  <2>1. IsSetting(setting)
    BY DEF TypeOK
  <2>2. /\ Values(setting, "weight") \in Seq(Lines) /\ Values(setting, "weight-add") \in Seq(Lines)
        /\ Values(setting, "weight-overwrite") \in Seq(Lines)
    BY <2>1, ValuesAre
  <2>3. OverwriteWords \in Lines
    <3> DEFINE given == Values(setting, "weight-overwrite")
    <3>1. given \in Seq(Lines)
      BY <2>2
    <3>2. OverwriteWords = IF given = <<>> THEN <<>> ELSE given[1]
      BY DEF OverwriteWords
    <3>3. <<>> \in Lines
      BY DEF Lines
    <3> HIDE DEF given
    <3> QED  BY <3>1, <3>2, <3>3
  <2>4. HaveNames
    BY <1>2 DEF WeightsAreMapped
  <2>5. PlainOverwrite =>
          IsSavedUpTo(weights, Mapped(NoWeights, WeightLines(setting)),
                      OverwriteWords, Len(OverwriteWords) + 1)
    BY <1>2 DEF WeightsAreMapped
  <2> QED  BY <2>2, <2>3, <2>4, <2>5, PrecedenceHolds DEF HaveNames
<1> QED  BY <1>1, <1>2

(***************************************************************************)
(* For every configuration file and command line, settings and weights keep*)
(* their types through every step of LoadParam, whichever of the seventeen *)
(* conversions of the old format succeed (Parameter.cpp:567-765).          *)
(***************************************************************************)
THEOREM ConfigurationTypeOK ==
  OptionsSpec => []TypeOK
<1>1. OptionsInit => TypeOK /\ InOrder
  BY InitTypes DEF OptionsInit
<1>2. TypeOK /\ InOrder /\ [OptionsNext]_systemVars => (TypeOK /\ InOrder)'
  <2>1. [OptionsNext]_systemVars => [Next]_vars
    BY DEF OptionsNext, LoadParam, InitOptions, SanityCheck, systemVars
  <2> QED  BY <2>1, NextTypes, NextInOrder
<1> QED  BY <1>1, <1>2, PTL DEF OptionsSpec

(***************************************************************************)
(* For every configuration file and command line, the weights that a       *)
(* feature ends up with are those of weight-overwrite if it names the      *)
(* feature, an "x" keeping what would hold without it, else those of the   *)
(* last line of weight, else of the last of weight-add                     *)
(* (Parameter.cpp:1235-1316): the map has, when the words of               *)
(* weight-overwrite are read, the last line of each name, and after each   *)
(* word what the names before it were given.                               *)
(***************************************************************************)
THEOREM WeightsTakePrecedence ==
  OptionsSpec => []WeightsPrecedence
<1> DEFINE IInv == TypeOK /\ InOrder /\ WeightsAreMapped
<1>1. OptionsInit => IInv
  <2>1. Init => WeightsAreMapped
    BY DEF Init, WeightsAreMapped
  <2> QED  BY <2>1, InitTypes DEF OptionsInit
<1>2. IInv /\ [OptionsNext]_systemVars => IInv'
  <2>1. [OptionsNext]_systemVars => [Next]_vars
    BY DEF OptionsNext, LoadParam, InitOptions, SanityCheck, systemVars
  <2> QED  BY <2>1, NextTypes, NextInOrder, NextMapped
<1>3. IInv => WeightsPrecedence
  BY MappedIsPrecedence
<1> QED  BY <1>1, <1>2, <1>3, PTL DEF OptionsSpec

=============================================================================
