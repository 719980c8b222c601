--------------------------- MODULE Configuration ----------------------------
(***************************************************************************)
(* Parameter::LoadParam: the settings and the weights that the decoder     *)
(* gets from a configuration file and a command line (Parameter.cpp), step *)
(* by step.                                                                *)
(*                                                                         *)
(* An item of the command line is a line as in Settings, with a single     *)
(* word of tag "switch" for a switch. A file is its values, each with the  *)
(* section it is in.                                                       *)
(***************************************************************************)
EXTENDS Settings

CONSTANTS Files,                  \* the files: sequences of values
          CommandLines,           \* the arguments after the program's name
          ConfigPath              \* the path of the file

VARIABLES file, argv,
          pc,                     \* the step to come, or how it ended
          conversion,             \* the next of the conversions
          setting,                \* m_setting
          weights,                \* m_weights
          accepted                \* what LoadParam returns

\* The names that the program gives itself are spelled out: the provers cannot tell
\* that a literal is in STRING.
OwnTexts == {
  "", "name", "number", "kind", "num-features", "rescaled", "WordPenalty", "SRILM",
  "IRSTLM", "KENLM", "SyntacticLM", "UnknownWordPenalty", "LexicalReordering",
  "BleuScoreFeature", "GlobalLexicalModel", "WordTranslationFeature",
  "PhrasePairFeature", "PhraseBoundaryFeature", "WordDeletion",
  "GlobalLexicalReordering", "Generation", "Distortion", "PhrasePenalty",
  "PhraseDictionaryMemory", "PhraseDictionaryBinary", "PhraseDictionaryOnDisk",
  "PhraseDictionarySuffixArray", "PhraseDictionaryCompact",
  "PhraseDictionaryDynSuffixArray", "PhraseDictionaryDynamicCacheBased"}

Texts == STRING \union OwnTexts

\* The words of lines. The lines that a parameter may have: those of a table in the
\* old format have the fields that its conversion reads, with sizes that are naturals.
Words == [tag : Texts, text : Texts, num : Int]

Lines == Seq(Words)

LinesFor(param) ==
  {line \in Lines :
     /\ param \in {"generation-file", "distortion-file"} =>
          Len(line) > 2 /\ line[3].num \in Nat
     /\ param = "ttable-file" /\ Len(line) > 3 => line[4].num \in Nat
     /\ param = "lmodel-oov-feature" => \A i \in DOMAIN line : line[i].num \in Nat}

ASSUME InputAssumption ==
  /\ \A f \in Files :
       f \in Seq({v \in [section : STRING, line : Lines] : v.line \in LinesFor(v.section)})
  /\ CommandLines \subseteq Seq(Lines)

vars == <<file, argv, pc, conversion, setting, weights, accepted>>

IsSetting(s) ==
  /\ s = [param \in DOMAIN s |-> s[param]]
  /\ \A param \in DOMAIN s : s[param] \in Seq(LinesFor(param))

TypeOK ==
  /\ file \in Files /\ argv \in CommandLines
  /\ pc \in {"find", "read", "switches", "shortcuts", "features", "mix", "convert", "map",
            "overwrite", "validate", "done", "no config", "exit", "exception"}
  /\ conversion \in 1 .. (Len(Conversions) + 1)
  /\ IsSetting(setting)
  /\ DOMAIN weights \subseteq Words /\ weights \in [DOMAIN weights -> Lines]
  /\ accepted \in BOOLEAN

-----------------------------------------------------------------------------
(***************************************************************************)
(* The parameters that the constructor of Parameter declares: their names  *)
(* by group, and the short names that some of them have.                   *)
(***************************************************************************)

MainParams == {"config", "input-file", "verbose", "show-weights"}

FactorParams == {"mapping", "placeholder-factor"}

SearchParams == {"search-algorithm", "beam-threshold", "stack", "weight",
                 "max-phrase-length", "threads"}

TuneParams == {"weight-overwrite", "feature-add", "weight-add"}

DistortionParams == {"distortion-limit", "monotone-at-punctuation"}

CubeParams == {"cube-pruning-pop-limit", "cube-pruning-diversity",
               "cube-pruning-lazy-scoring"}

UnknownWordParams == {"drop-unknown", "mark-unknown", "unknown-word-prefix",
                      "unknown-word-suffix"}

InputParams == {"input-factors", "inputtype", "xml-input"}

OutputParams == {"output-factors", "translation-details", "output-hypo-score",
                 "report-segmentation", "report-segmentation-enriched"}

NBestParams == {"n-best-list", "n-best-factor"}

ServerParams == {"server", "server-port", "server-log", "serial", "server-maxconn",
                 "server-maxconn-backlog", "server-keepalive-maxconn",
                 "server-keepalive-timeout", "server-timeout"}

OtherParams == {"max-chart-span", "non-terminals", "decoding-graph-backoff", "feature",
                "cpu-affinity-offset", "cpu-affinity-increment"}

\* m_description
Described ==
  UNION {MainParams, FactorParams, SearchParams, TuneParams, DistortionParams, CubeParams,
         UnknownWordParams, InputParams, OutputParams, NBestParams, ServerParams,
         OtherParams}

\* m_abbreviation
Abbreviated == {
  "config", "input-file", "verbose", "beam-threshold", "stack", "threads",
  "distortion-limit", "monotone-at-punctuation", "cube-pruning-pop-limit",
  "cube-pruning-diversity", "cube-pruning-lazy-scoring", "drop-unknown", "mark-unknown",
  "xml-input", "translation-details", "report-segmentation",
  "report-segmentation-enriched", "decoding-graph-backoff"}

Abbreviation ==
  [param \in Abbreviated |->
     CASE param = "config"                  -> "f"   [] param = "input-file"     -> "i"
       [] param = "verbose"                 -> "v"   [] param = "beam-threshold" -> "b"
       [] param = "stack"                   -> "s"   [] param = "threads"        -> "th"
       [] param = "distortion-limit"        -> "dl"  [] param = "drop-unknown"   -> "du"
       [] param = "mark-unknown"            -> "mu"  [] param = "xml-input"      -> "xi"
       [] param = "monotone-at-punctuation" -> "mp"
       [] param = "cube-pruning-pop-limit"  -> "cbp"
       [] param = "cube-pruning-diversity"  -> "cbd"
       [] param = "cube-pruning-lazy-scoring"    -> "cbls"
       [] param = "translation-details"          -> "T"
       [] param = "report-segmentation"          -> "t"
       [] param = "report-segmentation-enriched" -> "tt"
       [] param = "decoding-graph-backoff"       -> "dpb"]

\* m_valid
Valid == Described \union Range(Abbreviation)

-----------------------------------------------------------------------------
(* LoadParam *)

Switch(name) == <<Word("switch", name, 0)>>

isOption(item) == item # <<>> /\ item[1].tag = "switch"

Init ==
  /\ file \in Files
  /\ argv \in CommandLines
  /\ pc = "find"
  /\ conversion = 1
  /\ setting = NoSettings
  /\ weights = [name \in {} |-> <<>>]
  /\ accepted = FALSE

-----------------------------------------------------------------------------
\* The first switch of that name with something after it.
FindParam(name) ==
  LET at == {i \in 1 .. (Len(argv) - 1) : argv[i] = Switch(name)}
  IN  IF at = {} THEN {} ELSE {argv[Min(at) + 1]}

\* -f or else -config; a file that cannot be read ends the program.
FindConfig ==
  /\ pc = "find"
  /\ LET found == IF FindParam("f") # {} THEN FindParam("f") ELSE FindParam("config")
     IN  pc' = CASE found = {}           -> "no config"
                 [] found = {ConfigPath} -> "read"
                 [] OTHER                -> "exit"
  /\ UNCHANGED <<file, argv, conversion, setting, weights, accepted>>

ReadConfigFile ==
  /\ pc = "read"
  /\ setting' = FoldLeft(LAMBDA s, value : Push(s, value.section, value.line),
                         setting, file)
  /\ pc' = "switches"
  /\ UNCHANGED <<file, argv, conversion, weights, accepted>>

\* What the first such switch has after it, up to the next switch.
Given(name) ==
  LET at  == {i \in DOMAIN argv : argv[i] = Switch(name)}
      end == {i \in DOMAIN argv : i > Min(at) /\ isOption(argv[i])}
  IN  SubSeq(argv, Min(at) + 1, Min(end \union {Len(argv) + 1}) - 1)

Occurs(name) == \E i \in DOMAIN argv : argv[i] = Switch(name)

\* Mutant: the values of a switch are added to those of the file.
OverwriteParamsAppended(s, switches) ==
  [param \in DOMAIN s \union {p \in DOMAIN switches : Occurs(switches[p])} |->
     IF param \in DOMAIN switches /\ Occurs(switches[param])
     THEN Values(s, param) \o Given(switches[param])
     ELSE s[param]]

\* Values given replace those at the same index, and leave the rest; switches
\* takes the parameters to the names of their switches.
OverwriteParams(s, switches) ==
  LET switched == {param \in DOMAIN switches : Occurs(switches[param])}
  IN  [param \in DOMAIN s \union switched |->
         LET old == Values(s, param)
             new == Given(switches[param])
         IN  IF param \in switched
             THEN new \o SubSeq(old, Len(new) + 1, Len(old))
             ELSE old]

OverwriteBySwitches ==
  /\ pc = "switches"
  /\ setting' = OverwriteParams(setting, [param \in Described |-> param])
  /\ pc' = "shortcuts"
  /\ UNCHANGED <<file, argv, conversion, weights, accepted>>

OverwriteByShortcuts ==
  /\ pc = "shortcuts"
  /\ setting' = OverwriteParams(setting, Abbreviation)
  /\ pc' = "features"
  /\ UNCHANGED <<file, argv, conversion, weights, accepted>>

AddFeaturesCmd ==
  /\ pc = "features"
  /\ setting' = Erase(PushAll(setting, "feature", Values(setting, "feature-add")),
                      {"feature-add"})
  /\ pc' = "mix"
  /\ UNCHANGED <<file, argv, conversion, weights, accepted>>

OldParams == {
  "weight-slm", "weight-bl", "weight-d", "weight-dlm", "weight-lrl",
  "weight-generation", "weight-i", "weight-l", "weight-lex", "weight-glm",
  "weight-wt", "weight-pp", "weight-pb", "weight-t", "weight-w", "weight-p",
  "weight-u", "weight-e", "dlm-mode", "generation-file", "global-lexical-file",
  "glm-feature", "lmodel-file", "lmodel-dub", "slmodel-file", "slmodel-factor",
  "slmodel-beam", "ttable-file", "phrase-pair-feature",
  "phrase-boundary-source-feature", "phrase-boundary-target-feature",
  "phrase-length-feature", "target-word-insertion-feature",
  "source-word-deletion-feature", "word-translation-feature"}

IsMixed(s) ==
  (Defined(s, "feature") \/ Defined(s, "weight")) /\ DOMAIN s \intersect OldParams # {}

\* Old and new format must not be mixed; only the old one is converted.
CheckMix ==
  /\ pc = "mix"
  /\ pc' = CASE IsMixed(setting) \/ (~Defined(setting, "feature")
                                     /\ Defined(setting, "weight-dlm")) -> "exception"
             [] ~IsMixed(setting) /\ Defined(setting, "feature")        -> "map"
             [] OTHER                                                   -> "convert"
  /\ UNCHANGED <<file, argv, conversion, setting, weights, accepted>>

ConvertWeightArgs ==
  /\ pc = "convert"
  /\ LET result == Converted(setting, Conversions[conversion])
     IN  \/ /\ result.failed
            /\ pc' = "exception"
            /\ UNCHANGED <<setting, conversion>>
         \/ /\ ~result.failed
            /\ setting' = result.settings
            /\ conversion' = conversion + 1
            /\ pc' = IF conversion < Len(Conversions) THEN "convert" ELSE "map"
  /\ UNCHANGED <<file, argv, weights, accepted>>

-----------------------------------------------------------------------------
\* Mutant: what is to be added comes last.
WeightLinesAddedLast(s) == Values(s, "weight") \o Values(s, "weight-add")

\* Weights to be added come first, so that later lines override them.
WeightLines(s) == Values(s, "weight-add") \o Values(s, "weight")

\* operator[] of the map defines a parameter that it is asked for.
Touch(s, params) == [param \in DOMAIN s \union params |-> Values(s, param)]

\* A line with a name only is an exception.
CreateWeightsMap ==
  /\ pc = "map"
  /\ \/ /\ \E line \in Range(WeightLines(setting)) : Len(line) < 2
        /\ pc' = "exception"
        /\ UNCHANGED <<setting, weights>>
     \/ /\ \A line \in Range(WeightLines(setting)) : Len(line) >= 2
        /\ weights' = FoldLeft(LAMBDA w, line : Only(line[1], Tail(line)) ++ w,
                               weights, WeightLines(setting))
        /\ setting' = Touch(setting, {"weight-add", "weight"})
        /\ pc' = "overwrite"
  /\ UNCHANGED <<file, argv, conversion, accepted>>

\* The words of weight-overwrite, one after the other: the weights so far, the
\* name they are for, and the weights that an "x" keeps.
Save(acc) ==
  IF acc.name = <<>> THEN acc
  ELSE [acc EXCEPT !.map = Only(acc.name[1], acc.weights) ++ @, !.weights = <<>>]

ReadWord(acc, word) ==
  CASE IsName(word) ->
         LET saved == Save(acc)
         IN  [saved EXCEPT !.name = <<word>>,
                           !.old  = IF word \in DOMAIN saved.map
                                    THEN saved.map[word] ELSE <<>>,
                           !.cnt  = 0]
    [] word = Keep ->
         IF acc.cnt < Len(acc.old)
         THEN [acc EXCEPT !.weights = Append(@, acc.old[acc.cnt + 1]), !.cnt = @ + 1]
         ELSE [acc EXCEPT !.failed = TRUE]
    [] OTHER -> [acc EXCEPT !.weights = Append(@, word), !.cnt = @ + 1]

Overwritten(line) ==
  Save(FoldLeft(ReadWord,
                [map |-> weights, name |-> <<>>, weights |-> <<>>, old |-> <<>>,
                 cnt |-> 0, failed |-> FALSE],
                line))

WeightOverwrite ==
  /\ pc = "overwrite"
  /\ LET lines  == Values(setting, "weight-overwrite")
         result == Overwritten(lines[1])
     IN  CASE lines = <<>> ->
                pc' = "validate" /\ UNCHANGED weights
           [] Len(lines) = 1 /\ ~result.failed ->
                pc' = "validate" /\ weights' = result.map
           [] OTHER ->
                pc' = "exception" /\ UNCHANGED weights
  /\ setting' = Touch(setting, {"weight-overwrite"})
  /\ UNCHANGED <<file, argv, conversion, accepted>>

\* Each table has its path in the fourth place, and the file is there.
FilesExist(s, param, exist) ==
  \A line \in Range(Values(s, param)) : Len(line) >= 4 /\ exist

\* Unknown parameters are reported, as are files that are missing.
ValidateSettings(s, exist) ==
  LET dubs   == Values(s, "lmodel-dub")
      known  == /\ DOMAIN s \subseteq Valid
                /\ dubs # <<>> => Len(Values(s, "lmodel-file")) = Len(dubs)
      asked  == {"lmodel-dub"} \union (IF dubs # <<>> THEN {"lmodel-file"} ELSE {})
                              \union (IF known THEN {"input-file"} ELSE {})
  IN  [settings |-> Touch(s, asked),
       valid    |-> /\ known
                    /\ Len(Values(s, "input-file")) = 1 => exist
                    /\ FilesExist(s, "generation-file", exist)
                    /\ FilesExist(s, "distortion-file", exist)]

\* Unknown switches are reported too.
Validate ==
  /\ pc = "validate"
  /\ \E exist \in BOOLEAN :
       LET result == ValidateSettings(setting, exist)
       IN  /\ setting' = result.settings
           /\ accepted' = ( /\ result.valid
                            /\ \A item \in Range(argv) :
                                 isOption(item) => item[1].text \in Valid )
  /\ pc' = "done"
  /\ UNCHANGED <<file, argv, conversion, weights>>

Next ==
  \/ FindConfig \/ ReadConfigFile \/ OverwriteBySwitches \/ OverwriteByShortcuts
  \/ AddFeaturesCmd \/ CheckMix \/ ConvertWeightArgs \/ CreateWeightsMap
  \/ WeightOverwrite \/ Validate

Spec == Init /\ [][Next]_vars

-----------------------------------------------------------------------------
\* The weights of the last line with that name, if any.
LastFor(lines, name) ==
  LET at == {i \in DOMAIN lines : lines[i][1] = name}
  IN  IF at = {} THEN {} ELSE {Tail(lines[Max(at)])}

BeforeOverwriting(name) ==
  IF LastFor(Values(setting, "weight"), name) # {}
  THEN LastFor(Values(setting, "weight"), name)
  ELSE LastFor(Values(setting, "weight-add"), name)

\* The words for that name in the line of weight-overwrite.
OverwriteWords == IF Values(setting, "weight-overwrite") = <<>> THEN <<>>
                  ELSE Values(setting, "weight-overwrite")[1]

\* It begins with a name, and names each feature once.
PlainOverwrite ==
  /\ OverwriteWords # <<>> => IsName(OverwriteWords[1])
  /\ \A i, j \in DOMAIN OverwriteWords :
       IsName(OverwriteWords[i]) /\ OverwriteWords[i] = OverwriteWords[j] => i = j

WordsFor(name) ==
  LET words == OverwriteWords
      at    == {i \in DOMAIN words : IsName(words[i]) /\ words[i] = name}
      end   == {i \in DOMAIN words : i > Max(at) /\ IsName(words[i])}
  IN  IF at = {} THEN {}
      ELSE {SubSeq(words, Max(at) + 1, Min(end \union {Len(words) + 1}) - 1)}

(***************************************************************************)
(* Where the weights of a feature come from: weight-overwrite if it names  *)
(* the feature, an "x" standing for what would hold without it, or else the*)
(* last line of weight, or else the last of weight-add (the descriptions   *)
(* at Parameter.cpp:93-105; the code at 1235-1316).  Words of              *)
(* weight-overwrite before its first name would go to that name, and an x  *)
(* for a feature named again would keep what the first mention gave.       *)
(***************************************************************************)
WeightsPrecedence ==
  pc \in {"validate", "done"} /\ PlainOverwrite =>
    /\ DOMAIN weights =
         {line[1] : line \in Range(WeightLines(setting))}
           \union {word \in Range(OverwriteWords) : IsName(word)}
    /\ \A name \in DOMAIN weights :
         IF WordsFor(name) = {}
         THEN BeforeOverwriting(name) = {weights[name]}
         ELSE \A words \in WordsFor(name) :
                /\ Len(weights[name]) = Len(words)
                /\ \A i \in DOMAIN words :
                     IF words[i] = Keep
                     THEN \E kept \in BeforeOverwriting(name) :
                            weights[name][i] = kept[i]
                     ELSE weights[name][i] = words[i]

-----------------------------------------------------------------------------
WasConverted == pc = "map" /\ conversion > Len(Conversions)

\* The old weights, as the file has them.
OldNumbers(section) ==
  FlattenSeq([i \in DOMAIN file |-> IF file[i].section = section
                                    THEN file[i].line ELSE <<>>])

Numerals(words) == [i \in DOMAIN words |-> words[i].num]

\* Features that stand for a table, and the weights for features of these kinds.
TablesOf(kinds) ==
  SelectSeq(Values(setting, "feature"),
            LAMBDA line : line[1].text \in kinds /\ Len(line) > 1)

LinesOf(kinds) ==
  SelectSeq(Values(setting, "weight"), LAMBDA line : line[1].text \in kinds)

LMs == {"SRILM", "IRSTLM", "KENLM"}

PhraseTables == {PTKind(i) : i \in 0 .. 15}

(***************************************************************************)
(* The conversion of the old format deals each list of weights out to the  *)
(* tables in order, every weight once: each table gets a line of its own   *)
(* name with as many weights as it has scores, those of the input counted  *)
(* in when the first table is a binary one (Parameter.cpp:765-945, 953-1012,*)
(* 1015-1102, 1105-1143).                                                  *)
(***************************************************************************)
OldWeightsDealt ==
  WasConverted =>
    \A kinds \in {LMs, PhraseTables, {"Generation"}, {"LexicalReordering"}} :
      LET tables == TablesOf(kinds)
          lines  == LinesOf(kinds)
          old    == CASE kinds = LMs            -> OldNumbers("weight-l")
                      [] kinds = PhraseTables   -> OldNumbers("weight-i")
                                                   \o OldNumbers("weight-t")
                      [] kinds = {"Generation"} -> OldNumbers("weight-generation")
                      [] OTHER                  -> Tail(OldNumbers("weight-d"))
      IN  tables # <<>> =>
            /\ Len(lines) = Len(tables)
            /\ \A k \in DOMAIN tables :
                 /\ lines[k][1].text = tables[k][1].text
                 /\ Len(lines[k]) - 1 = tables[k][2].num
            /\ \A j, k \in DOMAIN lines : lines[j][1] = lines[k][1] => j = k
            /\ IsPrefix(Numerals(FlattenSeq([k \in DOMAIN lines |-> Tail(lines[k])])),
                        Numerals(old))

=============================================================================
