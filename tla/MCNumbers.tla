------------------------------ MODULE MCNumbers ------------------------------
(***************************************************************************)
(* Numbers of a format small enough to look at every one of them: doubles  *)
(* with 6 bits of significand and 5 of exponent, singles with 3 and 3,     *)
(* significands of 12 bits for 64.  Everything else is scaled to that: the *)
(* cached powers, which are rounded to 12 bits, the limits of the decimal  *)
(* exponent and of the digits that fit into a word.                        *)
(***************************************************************************)
EXTENDS NumberText

DoubleFormat == [sig |-> 6, exp |-> 5]
SingleFormat == [sig |-> 3, exp |-> 3]

Cached(f, e, decimal) == [f |-> f, e |-> e, decimal |-> decimal]
ScaledPowers ==
  << Cached(2882, -58, -14), Cached(2252, -51, -12), Cached(3518, -45, -10),
     Cached(2749, -38, -8), Cached(2147, -31, -6), Cached(3355, -25, -4),
     Cached(2621, -18, -2), Cached(2048, -11, 0), Cached(3200, -5, 2), Cached(2500, 2, 4),
     Cached(3906, 8, 6), Cached(3052, 15, 8), Cached(2384, 22, 10), Cached(3725, 28, 12) >>

MinusOne == -1
MinusSeven == -7
MinusEight == -8

-----------------------------------------------------------------------------
(* Numbers to write *)

\* float_to_string.cc's converter, with limits for small numbers, and one with
\* every flag.
PlainWriter ==
  [flags |-> {}, infinity |-> <<"i", "n", "f">>, nan |-> <<"N", "a", "N">>,
   low |-> -3, high |-> 3, leading |-> 2, trailing |-> 0]
FlaggedWriter ==
  [PlainWriter EXCEPT
     !.flags = {"UNIQUE_ZERO", "EMIT_POSITIVE_EXPONENT_SIGN", "EMIT_TRAILING_DECIMAL_POINT",
                "EMIT_TRAILING_ZERO_AFTER_POINT"}, !.trailing = 2]

\* file_piece.cc's.
PlainReader ==
  [flags |-> {"ALLOW_TRAILING_JUNK", "ALLOW_LEADING_SPACES"},
   empty |-> Infinity(Double) + 1, junk |-> Infinity(Double) + 2,
   infinity |-> <<"i", "n", "f">>, nan |-> <<"N", "a", "N">>]
Reader(flags) == [PlainReader EXCEPT !.flags = flags]
Spaces == {"ALLOW_LEADING_SPACES", "ALLOW_TRAILING_SPACES", "ALLOW_SPACES_AFTER_SIGN"}

NoExpectation == [kind |-> "exactly", value |-> 0, negative |-> FALSE, d |-> 0, x |-> 0, count |-> 0]

WriteJob(op, v, n, writer) ==
  [op |-> op, v |-> v, n |-> n, writer |-> writer, reader |-> PlainReader,
   asDouble |-> op # "SHORTEST_SINGLE", text |-> <<>>, expect |-> NoExpectation]

Positive == 0 .. Infinity(Double) + 1

Singles == {FloatToDouble(s) : s \in 0 .. Infinity(Single)}

\* Every number in its shortest form, and others with so many digits.
WriteJobs ==
  \/ job \in {WriteJob("SHORTEST", v, 0, PlainWriter) : v \in Positive}
  \/ job \in {WriteJob("SHORTEST_SINGLE", v, 0, PlainWriter) : v \in Singles}
  \/ job \in {WriteJob("FIXED", v, n, PlainWriter) : v \in Positive, n \in {0, 3}}
  \/ job \in {WriteJob("FIXED", v, 5, FlaggedWriter) : v \in {w \in 1 .. 800 : w % 4 = 1}}
  \/ job \in {WriteJob("PRECISION", v, n, FlaggedWriter) : v \in Positive, n \in {2, 3}}
  \/ job \in {WriteJob("EXPONENTIAL", v, n, PlainWriter) :
                v \in {w \in Positive : w % 4 = 1}, n \in {-1, 1}}
  \/ job \in {WriteJob("SHORTEST", v + SignMask(Double), 0, writer) :
                v \in {0, 1, 77, Infinity(Double)}, writer \in {PlainWriter, FlaggedWriter}}
  \/ job \in {WriteJob("FIXED", v, 0, FlaggedWriter) : v \in {0, 77, SignMask(Double) + 500}}
  \/ job \in {WriteJob("FIXED", 77, 6, PlainWriter), WriteJob("EXPONENTIAL", 77, -2, PlainWriter),
               WriteJob("PRECISION", 77, 0, PlainWriter)}

-----------------------------------------------------------------------------
(* Texts to read *)

ReadJob(text, reader, asDouble, expect) ==
  [op |-> "READ", v |-> 0, n |-> 0, writer |-> PlainWriter, reader |-> reader,
   asDouble |-> asDouble, text |-> text, expect |-> expect]

Exactly(value, count) == [NoExpectation EXCEPT !.value = value, !.count = count]
Nearest(d, x, negative, count) ==
  [NoExpectation EXCEPT !.kind = "nearest", !.d = d, !.x = x, !.negative = negative,
                        !.count = count]

TextOf(n) == Chars(Natural(n))

\* An integer with an exponent.
Scientific(d, x) == TextOf(d) \o <<"e">> \o (IF x < 0 THEN <<"-">> \o TextOf(-x) ELSE TextOf(x))

ShortJob(d, x, asDouble) ==
  ReadJob(Scientific(d, x), PlainReader, asDouble, Nearest(d, x, FALSE, Len(Scientific(d, x))))

ShortJobs ==
  LET numbers == 1 .. 63 \cup {99, 127, 129, 255, 511, 513, 999}
  IN  \/ \E d \in numbers, x \in -8 .. 3 : job = ShortJob(d, x, TRUE)
      \/ \E d \in numbers, x \in -5 .. 1 : job = ShortJob(d, x, FALSE)
      \/ \E x \in {-1000, -20, 20, 1000} :
           job = ReadJob(Scientific(1, x), PlainReader, TRUE,
                         Exactly(IF x > 0 THEN Infinity(Double) ELSE 0, Len(Scientific(1, x))))

\* The exact digits of what lies half way to the next number; a bit more, behind
\* many zeros; a bit less.
Fivefold(digits) ==
  LET Behind(i) == IF i = Len(digits) THEN 0 ELSE digits[i + 1] \div 2
      five == [i \in DOMAIN digits |-> (5 * (digits[i] % 2)) + Behind(i)]
  IN  IF digits[1] \div 2 > 0 THEN <<digits[1] \div 2>> \o five ELSE five

RECURSIVE ExactDigits(_, _)
ExactDigits(digits, times) ==
  IF times = 0 THEN digits ELSE ExactDigits(Fivefold(digits), times - 1)

HalfWayDigits(a) ==
  IF a.e >= 0 THEN BigDigits(a.f * 2 ^ a.e) ELSE ExactDigits(BigDigits(a.f), -a.e)

HalfWayLess(a) ==
  IF a.e >= 0 THEN BigDigits(a.f * 2 ^ a.e - 1) ELSE WithLast(HalfWayDigits(a), -1)

WithExponent(digits, x) ==
  Chars(digits) \o (IF x = 0 THEN <<>> ELSE <<"e", "-">> \o TextOf(-x))

HalfWayTexts(a) ==
  LET digits == HalfWayDigits(a)
      x      == IF a.e >= 0 THEN 0 ELSE a.e
  IN  <<WithExponent(digits, x),
        WithExponent(digits \o Zeros(21 - Len(digits)) \o <<1>>, x - (22 - Len(digits))),
        WithExponent(HalfWayLess(a) \o <<9, 9>>, x - 2)>>

\* Which of the numbers next to it each of these is.
HalfWayIs(v, i) == CASE i = 1 -> v + (v % 2) [] i = 2 -> v + 1 [] i = 3 -> v

HalfWayJob(text, v, asDouble) ==
  ReadJob(text, PlainReader, asDouble, Exactly(v, Len(text)))

HalfWayJobs ==
  \E i \in 1 .. 3 :
    \/ \E v \in {w \in 0 .. Infinity(Double) - 1 : w % 5 = 0 \/ w % 32 \in {31, 0, 1}} :
         job = HalfWayJob(HalfWayTexts(UpperBoundary(Double, v))[i], HalfWayIs(v, i), TRUE)
    \/ \E v \in 0 .. Infinity(Single) - 1 :
         job = HalfWayJob(HalfWayTexts(UpperBoundary(Single, v))[i],
                          FloatToDouble(HalfWayIs(v, i)), FALSE)

Radix(n, radix, length) ==
  [i \in 1 .. length |->
     CHOOSE c \in HexDigits : DigitValues[c] = (n \div radix ^ (length - i)) % radix]

RadixJobs ==
  \/ job \in
       {ReadJob(<<"0", "x">> \o Radix(n, 16, 4) \o tail, Reader({"ALLOW_HEX"}), asDouble,
                Nearest(n, 0, FALSE, 6 + Len(tail))) :
          n \in 0 .. 80 \cup {1000 + 7 * k : k \in 0 .. 20} \cup {4064, 4096, 63999, 65023, 65024, 65535},
          tail \in {<<>>, <<" ">>}, asDouble \in BOOLEAN}
  \/ job \in
       {ReadJob(<<"0">> \o Radix(n, 8, 4), Reader({"ALLOW_OCTALS"}), TRUE, Nearest(n, 0, FALSE, 5)) :
          n \in 0 .. 80 \cup {1000 + 7 * k : k \in 0 .. 20}}
  \/ job \in
       {ReadJob(<<"0", "x", "g">>, Reader({"ALLOW_HEX"}), TRUE, Exactly(PlainReader.junk, 0)),
        ReadJob(<<"0", "1", "8">>, Reader({"ALLOW_OCTALS"}), TRUE, Nearest(18, 0, FALSE, 3)),
        ReadJob(<<"-", "i", "n", "f", "x">>, PlainReader, TRUE,
                Exactly(SignMask(Double) + Infinity(Double), 4)),
        ReadJob(<<"N", "a">>, PlainReader, TRUE, Exactly(PlainReader.junk, 0)),
        ReadJob(<<"N", "a", "N", " ">>, Reader({}), TRUE, Exactly(PlainReader.junk, 0))}

\* Texts put together of these parts: spaces, a sign, digits, a point with
\* digits, an exponent, and something behind.
Parts ==
  [lead : {<<>>, <<" ">>}, sign : {<<>>, <<"-">>, <<"+", " ">>},
   whole : {<<>>, <<0>>, <<0, 0, 7>>, <<4, 1>>}, point : BOOLEAN, fraction : {<<>>, <<0>>, <<0, 5>>},
   exponent : {<<>>, <<"e">>, <<"e", "-">>, <<"e", "2">>, <<"e", "-", "1">>},
   tail : {<<>>, <<" ">>, <<"x">>}]

TextParts == {p \in Parts : p.point \/ p.fraction = <<>>}

BehindNumber(p) ==
  p.lead \o p.sign \o Chars(p.whole) \o (IF p.point THEN <<".">> ELSE <<>>) \o Chars(p.fraction)
  \o p.exponent

\* What a reader is to make of them.
GrammarExpects(p, flags) ==
  LET text     == BehindNumber(p) \o p.tail
      digits   == p.whole \o p.fraction
      d        == DigitsValue(digits)
      negative == p.sign = <<"-">>
      x        == CASE p.exponent = <<"e", "2">> -> 2 [] p.exponent = <<"e", "-", "1">> -> -1
                    [] OTHER -> 0
      blank    == \A i \in DOMAIN text : text[i] = " "
      junk     == \/ p.lead # <<>> /\ "ALLOW_LEADING_SPACES" \notin flags
                  \/ p.sign = <<"+", " ">> /\ "ALLOW_SPACES_AFTER_SIGN" \notin flags
                  \/ digits = <<>>
                  \/ /\ "ALLOW_TRAILING_JUNK" \notin flags
                     /\ \/ p.tail = <<"x">>
                        \/ p.tail = <<" ">> /\ "ALLOW_TRAILING_SPACES" \notin flags
                        \/ p.exponent \in {<<"e">>, <<"e", "-">>}
      count    == IF p.tail = <<" ">> /\ "ALLOW_TRAILING_SPACES" \in flags THEN Len(text)
                  ELSE Len(BehindNumber(p))
  IN  IF blank /\ (text = <<>> \/ flags \cap {"ALLOW_LEADING_SPACES", "ALLOW_TRAILING_SPACES"} # {})
      THEN Exactly(PlainReader.empty, Len(text))
      ELSE IF junk THEN Exactly(PlainReader.junk, 0)
      ELSE IF d = 0 THEN Exactly(IF negative THEN SignMask(Double) ELSE 0, count)
      ELSE Nearest(d, x - Len(p.fraction), negative, count)

GrammarJobs ==
  \E p \in TextParts, flags \in {{}, PlainReader.flags, Spaces} :
    job = ReadJob(BehindNumber(p) \o p.tail, Reader(flags), TRUE, GrammarExpects(p, flags))

NumberInit ==
  /\ WriteJobs \/ ShortJobs \/ HalfWayJobs \/ RadixJobs \/ GrammarJobs
  /\ phase = "start"
  /\ out = NotWritten
  /\ got = Read(0, 0)

=============================================================================
