-------------------------- MODULE MCConfiguration --------------------------
(* Small files in both formats, and command lines with one or two switches. *)
EXTENDS Options

In(section, line) == [section |-> section, line |-> line]

MCConfigPath == <<Word("path", "moses.ini", 0)>>

-----------------------------------------------------------------------------
TM == Name("TM", 0)
LM == Name("LM", 0)

Feature(name) == <<Kind("KENLM"), name>>

Weight(name, n) == <<name, Number(n)>>

\* The new format: one feature, then up to three lines.
NewValues == {
  In("weight", Weight(TM, 1)), In("weight", Weight(LM, 2)),
  In("weight", <<TM, Number(3), Number(4)>>), In("weight", <<TM>>),
  In("weight-add", Weight(TM, 5)), In("weight-add", Weight(LM, 6))}

NewFiles ==
  {<<In("feature", Feature(TM))>> \o values :
     values \in UNION {[1 .. n -> NewValues] : n \in 0 .. 2}}

File == <<Switch("f"), MCConfigPath>>

WeightCommandLines == {
  <<>>, <<Switch("f")>>, <<Switch("config"), MCConfigPath>>,
  <<Switch("config"), <<Word("path", "missing", 0)>>>>,
  File,
  File \o <<Switch("weight"), Weight(TM, 7)>>,
  File \o <<Switch("weight"), Weight(LM, 7), Weight(TM, 8), Switch("weight"), Weight(LM, 9)>>,
  File \o <<Switch("weight-add"), Weight(LM, 7)>>,
  File \o <<Switch("weight-overwrite"), <<TM, Keep, Number(7), LM, Number(8)>>>>,
  File \o <<Switch("weight-overwrite"), <<LM, Keep, TM, Keep>>>>,
  File \o <<Switch("weight-overwrite"), <<LM, Number(7)>>, <<TM, Number(8)>>>>,
  File \o <<Switch("feature-add"), Feature(LM), Switch("unknown")>>,
  File \o <<Switch("weight-t"), <<Number(7)>>>>}

-----------------------------------------------------------------------------
\* The old format: the parts of a file, of which each may be one of several.
Old(section, n) == In(section, <<Number(n)>>)

OldList(section, numbers) == [i \in DOMAIN numbers |-> Old(section, numbers[i])]

\* The numbers of a table's description, its kind or how many factors it has first,
\* and a path.
Description(section, numbers) ==
  In(section, [i \in DOMAIN numbers |-> Number(numbers[i])]
              \o <<Word("path", "table", 0)>>)

Penalties == {<<>>, OldList("weight-w", <<10>>) \o OldList("weight-u", <<11, 12>>)
                    \o OldList("weight-p", <<13>>)}

Models == {<<>>,
           <<Description("lmodel-file", <<8, 0, 3>>)>> \o OldList("weight-l", <<20, 21>>),
           <<Description("lmodel-file", <<8, 0, 3>>), Description("lmodel-file", <<0, 0, 3>>),
             Old("lmodel-oov-feature", 1)>> \o OldList("weight-l", <<20, 21, 22>>),
           <<Description("lmodel-file", <<1, 0, 3>>), Description("lmodel-file", <<9, 0, 3>>)>>
             \o OldList("weight-l", <<20>>)}

Orders == {<<>>,
           OldList("weight-d", <<30>>),
           OldList("weight-d", <<30, 31, 32, 33>>)
             \o <<Description("distortion-file", <<2, 0, 1>>),
                  Description("distortion-file", <<2, 0, 2>>)>>,
           OldList("weight-d", <<30, 31>>) \o <<Description("distortion-file", <<1, 0, 1>>)>>,
           <<Description("generation-file", <<0, 0, 1>>),
             Description("generation-file", <<0, 0, 2>>)>>
             \o OldList("weight-generation", <<40, 41, 42>>),
           OldList("search-algorithm", <<3>>) \o OldList("weight-d", <<30>>)}

Tables == {<<>>,
           <<Description("ttable-file", <<0, 0, 0, 1>>), Old("ttable-limit", 20)>>
             \o OldList("weight-t", <<50, 51>>),
           <<Description("ttable-file", <<1, 0, 0, 2>>), Description("ttable-file", <<0, 0, 0, 1>>),
             Description("ttable-file", <<1, 0, 0, 1>>), Old("ttable-limit", 20)>>
             \o OldList("weight-t", <<50, 51, 52, 53>>) \o OldList("weight-i", <<60>>),
           <<Description("ttable-file", <<1, 0, 0, 1>>)>> \o OldList("weight-t", <<50>>),
           OldList("weight-i", <<60, 61, 62>>)}

OldFiles == {a \o b \o c \o d : a \in Penalties, b \in Models, c \in Orders, d \in Tables}

-----------------------------------------------------------------------------
\* Options in the file: one, or two that concern each other.
Value(param, text) == In(param, <<Text(text)>>)

\* A window of 3 behind a sign, or what should be one.
Behind(sign) == In("context-window", <<Word("window", sign, 3)>>)

OptionFiles == {
  <<Old("stack", 5), Old("distortion-limit", 3)>>,
  <<Old("stack", 5), Old("stack", 6), Value("input-file", "text")>>,
  <<Value("drop-unknown", "false"), Value("mark-unknown", "maybe")>>,
  <<Value("drop-unknown", "FALSE"), Value("mark-unknown", "YES"), Value("xml-input", "ignore")>>,
  <<Value("xml-input", "both"), Old("beam-threshold", 4)>>,
  <<Value("n-best-list", "list"), Old("distortion-limit", 3)>>,
  <<Value("n-best-list", "list"), Old("n-best-list", 10), Value("n-best-list", "distinct")>>,
  <<Value("xml-brackets", "<"), Old("stack", 5)>>,
  <<In("xml-brackets", <<Text("<"), Text(">")>>), Value("mira", "1")>>,
  <<Value("consensus-decoding", "true")>>,
  <<Value("consensus-decoding", "true"), Value("lminimum-bayes-risk", "true")>>,
  <<Value("minimum-bayes-risk", "true"), Value("lminimum-bayes-risk", "false")>>,
  <<Value("minimum-bayes-risk", "true"), Value("lminimum-bayes-risk", "true")>>,
  <<Value("lattice-samples", "samples"), Old("output-factors", 0)>>,
  <<Value("lattice-samples", "samples"), Old("lattice-samples", 2)>>,
  <<Value("recover-input-path", "true"), Old("inputtype", 1)>>,
  <<Value("recover-input-path", "true"), Value("report-all-factors", "true")>>,
  <<Value("output-search-graph", "graph"), Value("report-segmentation", "")>>,
  <<Value("context-window", "all")>>, <<Value("context-window", "+-")>>,
  <<Old("context-window", 3)>>, <<Old("context-window", -3)>>, <<Value("context-window", "x")>>,
  <<Behind("x")>>, <<Behind("-")>>, <<Behind("+")>>, <<Behind("-+")>>, <<Behind("xxx")>>}

OptionCommandLines == {
  File,
  File \o <<Switch("s"), <<Number(7)>>, Switch("stack"), <<Number(8)>>, <<Number(9)>>>>,
  File \o <<Switch("drop-unknown"), Switch("mu")>>,
  File \o <<Switch("du"), <<Text("true")>>, Switch("mark-unknown"), <<Text("n")>>>>,
  File \o <<Switch("n-best-list"), <<Text("list")>>, Switch("dl"), <<Number(4)>>>>,
  File \o <<Switch("n-best-list"), <<Text("list")>>, <<Number(5)>>, Switch("i"), <<Text("in")>>>>,
  File \o <<Switch("xml-input"), <<Text("exclusive")>>, Switch("tt"), Switch("verbose")>>}

MCCommandLines == WeightCommandLines \union OptionCommandLines

MCFiles == NewFiles \union OldFiles \union OptionFiles

=============================================================================
