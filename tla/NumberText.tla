----------------------------- MODULE NumberText -----------------------------
(***************************************************************************)
(* Numbers as text: what float_to_string.cc writes with a                  *)
(* DoubleToStringConverter (util/double-conversion/double-conversion.h and *)
(* .cc), and what file_piece.cc reads of it, or of some other text, with a *)
(* StringToDoubleConverter.                                                *)
(*                                                                         *)
(* The digits written are those of the fast algorithms, or of the big      *)
(* numbers where these fail, and are laid out with or without an exponent. *)
(* A text is a sequence of characters, each a string.                      *)
(***************************************************************************)
EXTENDS Dtoa, TextToDouble

CONSTANTS FirstNonFixed,             \* kFirstNonFixed, a double
          MaxFixedDigits,            \* kMaxFixedDigitsAfterPoint
          MaxExponentialDigits, MaxPrecisionDigits

DigitChars == <<"0", "1", "2", "3", "4", "5", "6", "7", "8", "9">>

Chars(digits) == [i \in DOMAIN digits |-> DigitChars[digits[i] + 1]]

Padding(n) == [i \in 1 .. n |-> "0"]

-----------------------------------------------------------------------------
(* The digits of a number that is not negative *)

FastDigits(v, mode, requested) ==
  IF mode = "FIXED" THEN FastFixedDtoa(v, requested) ELSE FastDtoa(v, mode, requested)

BignumDigits(v, mode, requested) ==
  IF mode = "SHORTEST_SINGLE" THEN BignumDtoa(Single, InSingle(v), "SHORTEST", requested)
  ELSE BignumDtoa(Double, v, mode, requested)

\* Mutant: what the fast algorithm gives is taken whether it is right or not.
AlwaysFast(fast, v, mode, requested) == Decimal(fast.buffer, fast.point)

IfFast(fast, v, mode, requested) ==
  IF fast.ok THEN Decimal(fast.buffer, fast.point) ELSE BignumDigits(v, mode, requested)

DoubleToAscii(v, mode, requested) ==
  IF v = 0 THEN Decimal(<<0>>, 1)
  ELSE IfFast(FastDigits(v, mode, requested), v, mode, requested)

-----------------------------------------------------------------------------
(* Layout *)

Natural(n) == IF n = 0 THEN <<0>> ELSE FillDigits(n)

ExponentSign(converter, exponent) ==
  IF exponent < 0 THEN <<"-">>
  ELSE IF "EMIT_POSITIVE_EXPONENT_SIGN" \in converter.flags THEN <<"+">> ELSE <<>>

CreateExponentialRepresentation(converter, digits, exponent) ==
  LET chars == Chars(digits)
  IN  (IF Len(digits) = 1 THEN chars ELSE <<chars[1], ".">> \o Tail(chars))
      \o <<"e">> \o ExponentSign(converter, exponent)
      \o Chars(Natural(IF exponent < 0 THEN -exponent ELSE exponent))

\* Digits with the point after so many of them, and so many after it.
CreateDecimalRepresentation(converter, digits, point, after) ==
  LET chars == Chars(digits)
      whole == IF point <= 0 THEN <<"0">>
               ELSE IF point >= Len(digits) THEN chars \o Padding(point - Len(digits))
               ELSE SubSeq(chars, 1, point)
      given == IF point <= 0 THEN Padding(-point) \o chars
               ELSE SubSeq(chars, point + 1, Len(chars))
  IN  whole \o
      (IF after > 0 THEN <<".">> \o given \o Padding(after - Len(given))
       ELSE (IF "EMIT_TRAILING_DECIMAL_POINT" \in converter.flags THEN <<".">> ELSE <<>>)
            \o (IF "EMIT_TRAILING_ZERO_AFTER_POINT" \in converter.flags THEN <<"0">> ELSE <<>>))

\* A buffer with fewer digits than are wanted has zeros behind them.
Filled(digits, n) == digits \o [i \in 1 .. AtLeastNone(n - Len(digits)) |-> 0]

-----------------------------------------------------------------------------
(* The operations: whether there is a result, and the text *)

Written(text) == [ok |-> TRUE, text |-> text]

NotWritten == [ok |-> FALSE, text |-> <<>>]

HandleSpecialValues(converter, v) ==
  IF IsInfinite(Double, v)
  THEN Written((IF IsNegative(Double, v) THEN <<"-">> ELSE <<>>) \o converter.infinity)
  ELSE Written(converter.nan)

Sign(converter, v) ==
  IF IsNegative(Double, v) /\ (Magnitude(Double, v) # 0 \/ "UNIQUE_ZERO" \notin converter.flags)
  THEN <<"-">> ELSE <<>>

ShortestText(converter, d) ==
  IF converter.low <= d.point - 1 /\ d.point - 1 < converter.high
  THEN CreateDecimalRepresentation(converter, d.buffer, d.point,
                                   AtLeastNone(Len(d.buffer) - d.point))
  ELSE CreateExponentialRepresentation(converter, d.buffer, d.point - 1)

ToShortestIeeeNumber(converter, v, mode) ==
  IF IsSpecial(Double, v) THEN HandleSpecialValues(converter, v)
  ELSE Written(Sign(converter, v)
               \o ShortestText(converter, DoubleToAscii(Magnitude(Double, v), mode, 0)))

FixedText(converter, d, requested) ==
  CreateDecimalRepresentation(converter, d.buffer, d.point, requested)

ToFixed(converter, v, requested) ==
  IF IsSpecial(Double, v) THEN HandleSpecialValues(converter, v)
  ELSE IF requested > MaxFixedDigits \/ Magnitude(Double, v) >= FirstNonFixed THEN NotWritten
  ELSE Written(Sign(converter, v)
               \o FixedText(converter, DoubleToAscii(Magnitude(Double, v), "FIXED", requested),
                            requested))

ExponentialText(converter, d, requested) ==
  CreateExponentialRepresentation(converter, Filled(d.buffer, requested + 1), d.point - 1)

\* Of -1 requested digits there are as many as are needed.
ToExponential(converter, v, requested) ==
  IF IsSpecial(Double, v) THEN HandleSpecialValues(converter, v)
  ELSE IF requested < -1 \/ requested > MaxExponentialDigits THEN NotWritten
  ELSE Written(Sign(converter, v)
               \o ExponentialText(converter,
                    IF requested = -1 THEN DoubleToAscii(Magnitude(Double, v), "SHORTEST", 0)
                    ELSE DoubleToAscii(Magnitude(Double, v), "PRECISION", requested + 1),
                    requested))

TooMuchPadding(converter, point, precision) ==
  \/ -point + 1 > converter.leading
  \/ point - precision + (IF "EMIT_TRAILING_ZERO_AFTER_POINT" \in converter.flags THEN 1 ELSE 0)
       > converter.trailing

PrecisionText(converter, d, precision) ==
  IF TooMuchPadding(converter, d.point, precision)
  THEN CreateExponentialRepresentation(converter, Filled(d.buffer, precision), d.point - 1)
  ELSE CreateDecimalRepresentation(converter, d.buffer, d.point,
                                   AtLeastNone(precision - d.point))

ToPrecision(converter, v, precision) ==
  IF IsSpecial(Double, v) THEN HandleSpecialValues(converter, v)
  ELSE IF precision < 1 \/ precision > MaxPrecisionDigits THEN NotWritten
  ELSE Written(Sign(converter, v)
               \o PrecisionText(converter,
                    DoubleToAscii(Magnitude(Double, v), "PRECISION", precision), precision))

-----------------------------------------------------------------------------
(* Written and read back *)

VARIABLES job,      \* what is to be written, or the text that is to be read
          phase,    \* "start", "written" or "read"
          out,      \* what was written
          got       \* what was read

numberVars == <<job, phase, out, got>>

\* The operations of the writer.
WriteOf(j) ==
  CASE j.op = "SHORTEST"        -> ToShortestIeeeNumber(j.writer, j.v, "SHORTEST")
    [] j.op = "SHORTEST_SINGLE" -> ToShortestIeeeNumber(j.writer, j.v, "SHORTEST_SINGLE")
    [] j.op = "FIXED"           -> ToFixed(j.writer, j.v, j.n)
    [] j.op = "EXPONENTIAL"     -> ToExponential(j.writer, j.v, j.n)
    [] j.op = "PRECISION"       -> ToPrecision(j.writer, j.v, j.n)

WriteNumber ==
  /\ phase = "start"
  /\ phase' = "written"
  /\ out' = IF job.op = "READ" THEN Written(job.text) ELSE WriteOf(job)
  /\ UNCHANGED <<job, got>>

ReadNumber ==
  /\ phase = "written"
  /\ out.ok
  /\ phase' = "read"
  /\ got' = StringToIeee(job.reader, out.text, job.asDouble)
  /\ UNCHANGED <<job, out>>

NumberNext == WriteNumber \/ ReadNumber

-----------------------------------------------------------------------------
(* What a text says, without the rules of the reader *)

Unsigned(text) == IF text # <<>> /\ text[1] = "-" THEN Tail(text) ELSE text

MantissaOf(text) ==
  SubSeq(text, 1, Min({i - 1 : i \in {k \in DOMAIN text : text[k] = "e"}} \cup {Len(text)}))

DigitsOf(text) ==
  LET chars == SelectSeq(text, LAMBDA c : c \in DecimalDigits)
  IN  [i \in DOMAIN chars |-> DigitValues[chars[i]]]

Fractional(mantissa) ==
  AtLeastNone(Len(mantissa) - Min({i \in DOMAIN mantissa : mantissa[i] = "."} \cup {Len(mantissa)}))

ExponentOf(text) ==
  LET behind == SubSeq(text, Len(MantissaOf(text)) + 1, Len(text))
      n      == DigitsValue(DigitsOf(behind))
  IN  IF \E i \in DOMAIN behind : behind[i] = "-" THEN -n ELSE n

\* The digits of a text, and the power of ten of the last of them.
DecimalOf(text) ==
  [digits |-> DigitsOf(MantissaOf(text)),
   exponent |-> ExponentOf(text) - Fractional(MantissaOf(text))]

\* Without zeros at the end, which a short number may have as an integer.
ShortDecimal(d) ==
  [n |-> DigitsValue(Trim(d.digits)), exponent |-> d.exponent + TrailingZeros(d.digits)]

IsShortestDecimal(short, format, inFormat) ==
  IsShortest(format, short.n, short.exponent, inFormat)

\* The number of a text is v rounded at a power of ten; what is behind are zeros.
IsRoundedAt(d, place, v) ==
  LET n    == DigitsValue(d.digits)
      unit == Up(10, place - d.exponent)
  IN  n % unit = 0 /\ IsRounded((n \div unit) * Up(10, d.exponent - place), place, v)

\* The power of ten of the last of so many digits.
PlaceOf(d, count) == d.exponent + Len(d.digits) + 1 - Min(NonZeros(d.digits)) - count

\* Every text that is written is right: a shortest one is read as the number
\* and nothing shorter is, and of those nothing is nearer; one with so many
\* digits is the number rounded to these.  The cached power brings the number
\* into the range that the assertions of Grisu3 name, and whatever the fast
\* algorithms, with their errors in the last place, and the words that may
\* overflow do, the text is that of exact arithmetic (DoubleToStringConverter).
WritesRight ==
  (phase = "written" /\ out.ok /\ job.op # "READ" /\ ~IsSpecial(Double, job.v)) =>
    LET v == Magnitude(Double, job.v)
        d == DecimalOf(Unsigned(out.text))
    IN  /\ v # 0 => InTargetRange(AsNormalizedDiyFp(v))
        /\ CASE v = 0 -> DigitsValue(d.digits) = 0
           [] v # 0 /\ (job.op = "SHORTEST" \/ (job.op = "EXPONENTIAL" /\ job.n = -1)) ->
                IsShortestDecimal(ShortDecimal(d), Double, v)
           [] v # 0 /\ job.op = "SHORTEST_SINGLE" ->
                IsShortestDecimal(ShortDecimal(d), Single, InSingle(v))
           [] v # 0 /\ job.op = "FIXED" -> IsRoundedAt(d, -job.n, v)
           [] v # 0 /\ job.op = "PRECISION" -> IsRoundedAt(d, PlaceOf(d, job.n), v)
           [] v # 0 /\ job.op = "EXPONENTIAL" /\ job.n # -1 ->
                IsRoundedAt(d, PlaceOf(d, job.n + 1), v)

\* d * 10^x rounds to v, which may be zero or infinite.
IsNearest(format, d, x, v) ==
  CASE v = 0 -> DecimalLess(d, x, UpperBoundary(format, 0)) <= 0
    [] v = Infinity(format) -> DecimalLess(d, x, UpperBoundary(format, v - 1)) >= 0
    [] OTHER -> RoundsTo(format, d, x, v)

\* What StringToFloat makes of it: the double is cast.
AsSingle(v) == DoubleToFloat(v)

AsExpected(expect, value) ==
  IF expect.kind = "exactly" THEN value = expect.value
  ELSE /\ IsNegative(Double, value) = expect.negative
       /\ IF job.asDouble THEN IsNearest(Double, expect.d, expect.x, Magnitude(Double, value))
          ELSE IsNearest(Single, expect.d, expect.x, AsSingle(Magnitude(Double, value)))

\* What is read is the nearest number to what is written there, ties to even,
\* and the text is taken as far as it is a number: a number written in its
\* shortest form is the number, with its sign, and of a text of more digits than
\* are kept or compared the rest still decides (StringToIeee, Strtod, Strtof).
ReadsRight ==
  phase = "read" =>
    CASE job.op \in {"SHORTEST", "SHORTEST_SINGLE"} ->
           got = Read(IF out.text[1] = "-" \/ ~IsNegative(Double, job.v) THEN job.v ELSE 0,
                      Len(out.text))
      [] job.op = "READ" ->
           got.count = job.expect.count /\ AsExpected(job.expect, got.value)
      [] OTHER -> TRUE

=============================================================================
