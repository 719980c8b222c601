------------------------------ MODULE Options -------------------------------
(***************************************************************************)
(* AllOptions::init: the options that System builds from the settings,     *)
(* group by group, and the check of their consistency (parameters/).  Main *)
(* builds the system whatever LoadParam returned, and System does not look *)
(* at what init returns.                                                   *)
(*                                                                         *)
(* An option has the name of the parameter that sets it.                   *)
(***************************************************************************)
EXTENDS Configuration

VARIABLES options,                \* AllOptions
          group,                  \* the next of its groups to initialise
          built                   \* "no" until init has ended, and how it did

systemVars == <<vars, options, group, built>>

Flag(b)  == Word("flag", "", IF b THEN 1 ELSE 0)
Text(t)  == Word("text", t, 0)
NoText   == Text("")
Log(n)   == Word("log", "", n)               \* TransformScore of a probability n
Infinity == Word("number", "max", 0)

IsOn(option) == option = Flag(TRUE)

-----------------------------------------------------------------------------
\* The first value given, or else the default.
First(s, defaults) ==
  [param \in DOMAIN defaults |->
     IF Values(s, param) = <<>> THEN defaults[param] ELSE s[param][1][1]]

True  == {"yes", "y", "true", "1"}
False == {"no", "n", "false", "0"}

\* The spellings in capitals; one stands for each that has some.
Capitals ==
     Only("YES", "yes") ++ Only("Y", "y") ++ Only("TRUE", "true")
  ++ Only("NO", "no") ++ Only("N", "n") ++ Only("FALSE", "false")

ToLower(text) == IF text \in DOMAIN Capitals THEN Capitals[text] ELSE text

\* A flag that is defined with no value is on; one with several is left alone.
\* The value is read in lower case.
Flags(s, defaults) ==
  [param \in DOMAIN defaults |->
     IF Defined(s, param) /\ s[param] = <<>> THEN Flag(TRUE)
     ELSE IF Len(Values(s, param)) = 1 THEN Flag(ToLower(s[param][1][1].text) \in True)
     ELSE Flag(defaults[param])]

AllOff(params) == [param \in params |-> FALSE]

\* Scan<bool> throws.
Unreadable(s, flags) ==
  \E param \in DOMAIN flags :
    Len(Values(s, param)) = 1 /\ ToLower(s[param][1][1].text) \notin True \union False

\* What a group sets, and whether its init returns true or false, throws or exits.
Sets(values, ends) == [values |-> values, ends |-> ends]

Plain(s, defaults, flags) ==
  Sets(First(s, defaults) ++ Flags(s, flags),
       IF Unreadable(s, flags) THEN "exception" ELSE "true")

-----------------------------------------------------------------------------
Probabilities == {"beam-threshold", "early-discarding-threshold",
                  "translation-option-threshold"}

SearchDefaults ==
     Only("search-algorithm", Number(0)) ++ Only("stack", Number(200))
  ++ Only("stack-diversity", Number(0)) ++ Only("time-out", Number(0))
  ++ Only("max-phrase-length", Number(20)) ++ Only("max-trans-opt-per-coverage", Number(5000))
  ++ Only("max-partial-trans-opt", Number(10000))
  ++ Only("beam-threshold", Number(1))           \* in units of 0.00001
  ++ Only("early-discarding-threshold", Number(0))
  ++ Only("translation-option-threshold", Number(0))

\* The thresholds are turned into scores afterwards.
Search(s) ==
  LET rest == Plain(s, SearchDefaults, AllOff({"consensus-decoding", "disable-discarding"}))
  IN  [rest EXCEPT !.values = [option \in DOMAIN @ |->
                                   IF option \in Probabilities THEN Log(@[option].num)
                                   ELSE @[option]]]

CubePruning(s) ==
  Plain(s, Only("cube-pruning-pop-limit", Number(1000))
             ++ Only("cube-pruning-diversity", Number(0)),
        AllOff({"cube-pruning-lazy-scoring"}))

\* A list needs a path and a size: with less the group is left as it is.
NBest(s) ==
  LET list  == Values(s, "n-best-list")
      flags == Only("labeled-n-best-list", TRUE)
               ++ AllOff({"print-alignment-info-in-n-best", "include-segmentation-in-n-best",
                          "print-passthrough-in-n-best", "report-all-factors-in-n-best",
                          "n-best-trees"})
      rest  == Plain(s, Only("n-best-factor", Number(20)), flags)
      size  == IF list = <<>> THEN Number(0) ELSE list[2][1]
      only  == Len(list) > 2 /\ list[3] = <<Text("distinct")>>
  IN  IF Defined(s, "n-best-list") /\ Len(list) < 2
      THEN Sets(<<>>, "false")
      ELSE [rest EXCEPT !.values =
              Only("n-best-size", size) ++ Only("n-best-distinct", Flag(only))
              ++ Only("n-best-enabled", Flag(list # <<>>)) ++ @]

Reordering(s) ==
  Plain(s, Only("distortion-limit", Number(-1)),
        AllOff({"monotone-at-punctuation", "early-distortion-cost"}))

\* "all", or a number behind a sign, behind two, or alone for both sides. What has
\* no digit in the first three places is passed over. A word of tag "window" is a
\* text without digits and a natural; a negative number begins with its sign.
Window(word) ==
  LET around(back, ahead) ==
        Sets(Only("look-back", back) ++ Only("look-ahead", ahead), "true")
      none   == Number(0)
      minus  == word.tag = "number" /\ word.num < 0
      n      == Number(IF minus THEN -word.num ELSE word.num)
      before == IF minus THEN "-" ELSE word.text
      digits == word.tag \in {"number", "window"} /\ Len(before) <= 2
  IN  CASE word.text = "all"                           -> around(Infinity, Infinity)
        [] word.text # "all" /\ ~digits                -> around(none, none)
        [] digits /\ before \in {"", "+-", "-+"}       -> around(n, n)
        [] digits /\ before = "-"                      -> around(n, none)
        [] digits /\ before = "+"                      -> around(none, n)
        [] digits /\ before \notin {"", "-", "+", "+-", "-+"} -> Sets(<<>>, "exception")

Context(s) ==
  LET window == Window(First(s, Only("context-window", NoText))["context-window"])
  IN  [window EXCEPT !.values = First(s, Only("context-string", NoText)) ++ @]

XmlPolicies == {"exclusive", "inclusive", "constraint", "ignore", "pass-through"}

Factors(s, param) == IF Values(s, param) = <<>> THEN <<<<Number(0)>>>> ELSE s[param]

NOT_FOUND == Number(123456789)

\* Brackets that are not two words end the program.
Input(s) ==
  LET rest == Plain(s, Only("inputtype", Number(0)) ++ Only("xml-input", Text("pass-through"))
                       ++ Only("placeholder-factor", NOT_FOUND)
                       ++ Only("factor-delimiter", Text("|")) ++ Only("input-file", NoText),
                    AllOff({"continue-partial-translation"}))
      brackets == Values(s, "xml-brackets")
  IN  [values |-> Only("input-factors", Factors(s, "input-factors")) ++ rest.values,
       ends   |-> IF rest.ends # "true" \/ rest.values["xml-input"].text \notin XmlPolicies
                  THEN "exception"
                  ELSE IF brackets # <<>> /\ Len(brackets[1]) # 2 THEN "exit" ELSE "true"]

MBR(s) ==
  Plain(s, Only("mbr-size", Number(200)) ++ Only("mbr-scale", Number(1)),
        AllOff({"minimum-bayes-risk"}))

LMBR(s) ==
  LET rest == Plain(s, Only("lmbr-r", Number(6)) ++ Only("lmbr-p", Number(8))   \* in tenths
                       ++ Only("lmbr-map-weight", Number(0))
                       ++ Only("lmbr-pruning-factor", Number(30)),
                    AllOff({"lminimum-bayes-risk", "lattice-hypo-set"}))
  IN  [rest EXCEPT !.values = Only("lmbr-thetas", Values(s, "lmbr-thetas")) ++ @]

SearchGraphs == {"output-search-graph", "output-search-graph-extended",
                 "output-search-graph-slf", "output-search-graph-hypergraph"}

OutputFiles == SearchGraphs \union {"alignment-output-file", "translation-details",
                                    "translation-all-details", "tree-translation-details"}

OutputFlags == {
  "report-all-factors", "print-alignment-info", "print-all-derivations",
  "print-translation-option", "unpruned-search-graph", "include-lhs-in-search-graph",
  "recover-input-path", "output-hypo-score", "print-id", "print-passthrough"}

\* Samples need a path and a size too, but here the rest has been set by then.
Output(s) ==
  LET rest == Plain(s, [param \in OutputFiles |-> NoText]
                       ++ Only("start-translation-id", Number(0))
                       ++ Only("sort-word-alignment", Number(0)),
                    AllOff(OutputFlags))
      delimiter == First(s, Only("factor-delimiter", Text("|")))["factor-delimiter"]
      samples == Values(s, "lattice-samples")
      segmentation == IF Defined(s, "report-segmentation-enriched") THEN 2
                      ELSE IF Defined(s, "report-segmentation") THEN 1 ELSE 0
      factors == IF IsOn(rest.values["report-all-factors"])
                 THEN <<<<Number(0)>>>> ELSE Factors(s, "output-factors")
      common  == Only("report-segmentation", Number(segmentation))
                 ++ Only("output-word-graph", Flag(Len(Values(s, "output-word-graph")) = 2))
                 ++ rest.values
  IN  IF rest.ends # "true" THEN rest
      ELSE IF Defined(s, "lattice-samples") /\ Len(samples) # 2 THEN Sets(common, "false")
      ELSE Sets(Only("output-factors", factors)
                ++ Only("lattice-samples", IF samples = <<>> THEN Number(0) ELSE samples[2][1])
                ++ First(s, Only("output-factor-delimiter", delimiter))
                ++ common, "true")

UnknownWords(s) ==
  Plain(s, Only("unknown-word-prefix", Text("UNK")) ++ Only("unknown-word-suffix", NoText),
        AllOff({"drop-unknown", "mark-unknown", "phrase-drop-allowed",
                "always-create-direct-transopt"}))

Mira(s) == Plain(s, <<>>, AllOff({"mira"}))

Groups == 1 .. 11

InitGroup(s, g) ==
  CASE g = 1 -> Search(s)       [] g = 2 -> CubePruning(s)   [] g = 3 -> NBest(s)
    [] g = 4 -> Reordering(s)   [] g = 5 -> Context(s)       [] g = 6 -> Input(s)
    [] g = 7 -> MBR(s)          [] g = 8 -> LMBR(s)          [] g = 9 -> Output(s)
    [] g = 10 -> UnknownWords(s) [] g = 11 -> Mira(s)

-----------------------------------------------------------------------------
\* The constructors set what init sets with no settings, but for the thresholds,
\* which they do not turn into scores, and one weight.
Defaults ==
  FoldFunction(LAMBDA values, acc : values ++ acc,
               [option \in Probabilities |-> SearchDefaults[option]]
                 ++ Only("lmbr-map-weight", Number(8)),
               [g \in Groups |-> [option \in DOMAIN InitGroup(NoSettings, g).values
                                             \ (Probabilities \union {"lmbr-map-weight"}) |->
                                    InitGroup(NoSettings, g).values[option]]])

OptionsInit ==
  /\ Init
  /\ options = Defaults
  /\ group = 1
  /\ built = "no"

LoadParam == Next /\ UNCHANGED <<options, group, built>>

InitOptions ==
  /\ pc \in {"done", "no config"}
  /\ built = "no"
  /\ group \in Groups
  /\ LET result == InitGroup(setting, group)
     IN  /\ options' = result.values ++ options
         /\ group' = group + 1
         /\ built' = IF result.ends = "true" THEN "no" ELSE result.ends
  /\ UNCHANGED vars

\* Three ways to MBR.
Exclusive == {"minimum-bayes-risk", "lminimum-bayes-risk", "consensus-decoding"}

\* Mutant: MBR together with lattice MBR is not refused.
ClashUnseen(o) ==
  /\ IsOn(o["consensus-decoding"])
  /\ IsOn(o["minimum-bayes-risk"]) \/ IsOn(o["lminimum-bayes-risk"])

Clash(o) ==
  \/ IsOn(o["lminimum-bayes-risk"]) /\ IsOn(o["minimum-bayes-risk"])
  \/ IsOn(o["consensus-decoding"])
       /\ (IsOn(o["minimum-bayes-risk"]) \/ IsOn(o["lminimum-bayes-risk"]))

\* Both lattice MBR and consensus decoding turn MBR on; an input that is a
\* sentence has no path to recover; whoever needs a list of translations gets one.
Checked(o) ==
  LET mbr == \E p \in Exclusive : IsOn(o[p])
      list == \/ mbr
              \/ IsOn(o["n-best-enabled"]) \/ IsOn(o["mira"])
              \/ o["n-best-size"].num > 0 \/ o["lattice-samples"].num > 0
              \/ \E p \in SearchGraphs : o[p] # NoText
  IN  [o EXCEPT !["minimum-bayes-risk"] = Flag(mbr),
                !["recover-input-path"] = Flag(IsOn(@) /\ o["inputtype"].num # 0),
                !["n-best-enabled"]     = Flag(list)]

SanityCheck ==
  /\ built = "no"
  /\ group \notin Groups
  /\ \/ /\ Clash(options)
        /\ built' = "false"
        /\ options' = [options EXCEPT !["minimum-bayes-risk"] = Flag(TRUE)]
     \/ /\ ~Clash(options)
        /\ built' = "true"
        /\ options' = Checked(options)
  /\ UNCHANGED <<vars, group>>

OptionsNext == LoadParam \/ InitOptions \/ SanityCheck

OptionsSpec == OptionsInit /\ [][OptionsNext]_systemVars

-----------------------------------------------------------------------------
\* The first value that some source gives a parameter: the short switch, the
\* long one, the file.
SwitchValues(names) ==
  {Given(name)[1] : name \in {n \in names : Occurs(n) /\ Given(n) # <<>>}}

Short(param) == IF param \in DOMAIN Abbreviation THEN {Abbreviation[param]} ELSE {}

FileValues(param) ==
  LET at == {i \in DOMAIN file : file[i].section = param}
  IN  IF at = {} THEN {} ELSE {file[Min(at)].line}

SourceValues(param) ==
  IF SwitchValues(Short(param)) # {} THEN SwitchValues(Short(param))
  ELSE IF SwitchValues({param}) # {} THEN SwitchValues({param})
  ELSE IF pc = "no config" THEN {} ELSE FileValues(param)

Default(param) == Defaults[param]

\* Lists, and the level of two switches.
ReadOtherwise == {"input-factors", "output-factors", "n-best-list", "report-segmentation"}

(***************************************************************************)
(* What the decoder runs with is what the user asked for.  The options come*)
(* from the short switch if that has a value, or else from the long one, or*)
(* else from the file, or else are the default; a flag that only a bare    *)
(* switch mentions is on - unless the file gives it a value, which the bare*)
(* switch leaves (Parameter.cpp:578-594, 1457-1480, 1684-1703, and the     *)
(* groups under parameters/).                                              *)
(***************************************************************************)
OptionsFromSources ==
  built = "true" =>
    \A param \in (Described \intersect DOMAIN options) \ ReadOtherwise :
      LET option == options[param]
          given  == SourceValues(param)
          bare   == pc # "no config" /\ \E name \in {param} \union Short(param) : Occurs(name)
      IN  IF option.tag = "flag"
          THEN /\ given = {} => (IsOn(option) <=> bare)
               /\ \A line \in given : IsOn(option) <=> ToLower(line[1].text) \in True
          ELSE /\ given = {} => option.num = Default(param).num
                                 /\ option.text = Default(param).text
               /\ \A line \in given : option.num = line[1].num /\ option.text = line[1].text

\* What the settings ask for of these.
Asked == {p \in Exclusive : IsOn(Flags(setting, AllOff({p}))[p])}

\* What cannot do with one translation.
NeedsList(o) ==
  \/ IsOn(o["minimum-bayes-risk"]) \/ IsOn(o["mira"])
  \/ o["n-best-size"].num > 0 \/ o["lattice-samples"].num > 0
  \/ \E p \in SearchGraphs : o[p] # NoText

(***************************************************************************)
(* The options agree with each other: no two of MBR, lattice MBR and       *)
(* consensus decoding were asked for in the settings, and MBR is on just   *)
(* when one of them was; whoever needs a list of translations has one, and *)
(* a sentence has no path to recover (AllOptions.cpp:40-91).               *)
(***************************************************************************)
OptionsAgree ==
  built = "true" =>
    /\ \A p, q \in Asked : p = q
    /\ IsOn(options["minimum-bayes-risk"]) <=> Asked # {}
    /\ NeedsList(options) => IsOn(options["n-best-enabled"])
    /\ options["inputtype"] = Number(0) => ~IsOn(options["recover-input-path"])

=============================================================================
