------------------------------ MODULE MCLegacy ------------------------------
(***************************************************************************)
(* Configurations that are right and wrong, tables with and without all    *)
(* the spans, and two sentences of up to two words, or three.              *)
(***************************************************************************)
EXTENDS LegacyDecoder

Header(key) == [is |-> "section", key |-> key]
Blank       == [is |-> "blank"]
Setting(n)  == [is |-> "value", kind |-> "number", name |-> "", values |-> <<n>>]

Arg(key, value) == [key |-> key, value |-> value]

Feature(kind, args) == [is |-> "value", kind |-> kind, name |-> "", args |-> args]
Weight(name, values) == [is |-> "value", kind |-> "weight", name |-> name, values |-> values]

PT == PhraseDictionary

Table(path, n, rest) == Feature(PT, <<Arg("path", path), Arg("num-features", n)>> \o rest)

MCIniFiles ==
  {<<Header("[feature]"), Table("full", 2, <<>>), Blank, Header("[stack]"), Setting(5),
     Header("[weight]"), Weight("PhraseDictionaryMemory0", <<3, 4>>)>>,
   <<Header("[weight]"), Weight("PhraseDictionaryMemory0", <<3, 4>>), Header("[feature]"),
     Table("part", 2, <<>>), Table("full", 1, <<>>)>>,
   <<Header("[feature]"), Table("full", 3, <<Arg("name", "A")>>),
     Table("part", 2, <<Arg("name", "B")>>),
     Header("[weight]"), Weight("B", <<5, 6>>), Weight("A", <<7, 8, 9>>), Weight("B", <<1, 2>>)>>,
   <<Header("[feature]"), Table("full", 1, <<Arg("table-limit", "20")>>)>>,
   <<Header("[feature]"), Table("full", 2, <<>>), Header("[weight]"), Weight("X", <<1>>)>>,
   <<Header("[feature]"), Table("none", 2, <<>>)>>,
   <<Header("[feature]"), Feature("LM", <<>>)>>,
   <<Header("[feature]"), Feature(PT, <<Arg("", "path")>>)>>,
   <<Blank, Setting(1)>>,
   <<Header("[stack]"), Header("[feature]")>>,
   <<Header("[weight]")>>}

Line(source, target, scores) == [source |-> source, target |-> target, scores |-> scores]

MCTableFiles ==
  [full |-> <<Line(<<1, 2>>, <<7>>, <<-3, -200>>), Line(<<1>>, <<8, 9>>, <<-1>>),
              Line(<<2, 2>>, <<8>>, <<-1, -1>>), Line(<<1>>, <<>>, <<-2, -5>>)>>,
   part |-> <<Line(<<2, 1, 2>>, <<7>>, <<-1, -2>>), Line(<<1, 2, 1>>, <<9>>, <<-1, -2>>),
              Line(<<1>>, <<7>>, <<-1, -2>>), Line(<<2>>, <<8>>, <<-4, -4>>)>>]

MCLowestScore == -100

MCSentences == {<<1, 2>>, <<2>>, <<>>, <<2, 1, 2>>}

=============================================================================
