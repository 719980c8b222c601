---------------------------- MODULE TextToDouble ----------------------------
(***************************************************************************)
(* StringToDoubleConverter (util/double-conversion/double-conversion.cc),  *)
(* with which util/file_piece.cc reads the numbers of a phrase table or a  *)
(* language model: what it accepts, where it stops and what it makes of    *)
(* digits, points and exponents.  A text is a sequence of characters.  A   *)
(* converter has its flags, its symbols, and the values of a text that is  *)
(* empty or junk.                                                          *)
(*                                                                         *)
(* It rests on Strtod and Strtof (util/double-conversion/strtod.cc): the   *)
(* double, or the single, nearest to digits times a power of ten.  A guess *)
(* is made in one word, with a bound on its error; where that leaves two   *)
(* candidates, the digits are compared with what lies half way, in big     *)
(* numbers.                                                                *)
(***************************************************************************)
EXTENDS Ieee

CONSTANTS MaxExactDigits,         \* kMaxExactDoubleIntegerDecimalDigits
          ExactPowers,            \* kExactPowersOfTenSize
          MaxUint64DecimalDigits,
          MaxDecimalPower, MinDecimalPower,
          MaxSignificantDecimalDigits,
          MaxSignificantDigits,     \* kMaxSignificantDigits
          MaxExponentRead           \* max_exponent, of StringToIeee

Denominator == 8
DenominatorLog == 3

-----------------------------------------------------------------------------
(* The digits *)

NonZeros(buffer) == {i \in DOMAIN buffer : buffer[i] # 0}

Trim(buffer) ==
  IF NonZeros(buffer) = {} THEN <<>>
  ELSE SubSeq(buffer, Min(NonZeros(buffer)), Max(NonZeros(buffer)))

TrailingZeros(buffer) ==
  IF NonZeros(buffer) = {} THEN 0 ELSE Len(buffer) - Max(NonZeros(buffer))

\* Of too many digits the last is 1, for the others.
CutToMaxSignificantDigits(buffer) ==
  IF Len(buffer) <= MaxSignificantDecimalDigits THEN buffer
  ELSE Append(SubSeq(buffer, 1, MaxSignificantDecimalDigits - 1), 1)

TrimAndCut(buffer, exponent) ==
  LET trimmed == Trim(buffer)
      cut     == CutToMaxSignificantDigits(trimmed)
  IN  [digits |-> cut, exponent |-> exponent + TrailingZeros(buffer) + Len(trimmed) - Len(cut)]

\* As many of the digits as fit into a word for certain.
RECURSIVE ReadFrom(_, _, _)
ReadFrom(buffer, value, count) ==
  IF count < Len(buffer) /\ value <= (2 ^ Q - 1) \div 10 - 1
  THEN ReadFrom(buffer, 10 * value + buffer[count + 1], count + 1)
  ELSE [value |-> value, count |-> count]

ReadUint64(buffer) == ReadFrom(buffer, 0, 0)

-----------------------------------------------------------------------------
(* Guesses: whether it is right, and a double *)

Guess(correct, double) == [correct |-> correct, double |-> double]

\* What the hardware rounds to; the exact operands are small.
Hardware(digits, exponent) ==
  CHOOSE v \in 0 .. Infinity(Double) : RoundsTo(Double, digits, exponent, v)

\* One or two operations on doubles that are exact, and so round once.
HardwareCan(digits, exponent) ==
  /\ Len(digits) <= MaxExactDigits
  /\ \/ exponent < 0 /\ -exponent < ExactPowers
     \/ 0 <= exponent /\ exponent - (MaxExactDigits - Len(digits)) < ExactPowers

AdjustmentPowerOfTen(exponent) == Normalize(DiyFp(10 ^ exponent, 0))

\* An approximation, and by how much it may be wrong, in eighths of a unit.
Approximate(w, error) == [w |-> w, error |-> error]

NormalizeBoth(p) ==
  LET n == Normalize(p.w) IN Approximate(n, p.error * 2 ^ (p.w.e - n.e))

\* ReadDiyFp: what was read, rounded if it is not all.
ReadDiyFp(digits, read) ==
  IF read.count = Len(digits) THEN Approximate(DiyFp(read.value, 0), 0)
  ELSE Approximate(DiyFp(read.value + (IF digits[read.count + 1] >= 5 THEN 1 ELSE 0), 0),
                   Denominator \div 2)

\* The table has not every power of ten: the rest is exact, and the product is
\* if there is room for it.
Adjusted(p, adjust, room) ==
  IF adjust = 0 THEN p
  ELSE Approximate(Times(p.w, AdjustmentPowerOfTen(adjust)),
                   p.error + (IF room >= adjust THEN 0 ELSE Denominator \div 2))

TimesCached(p, power) ==
  Approximate(Times(p.w, power), p.error + (IF p.error = 0 THEN 0 ELSE 1) + Denominator)

Product(digits, read, cached, exponent) ==
  NormalizeBoth(TimesCached(
    Adjusted(NormalizeBoth(ReadDiyFp(digits, read)), exponent - cached.decimal,
             MaxUint64DecimalDigits - Len(digits)),
    PowerOf(cached)))

PrecisionBits(p) == Q - SignificandSizeForOrderOfMagnitude(Q + p.w.e)

\* A very small number has so few bits that half a unit would not fit: a few
\* bits are given up.
Shifted(p, count) ==
  LET by == count + DenominatorLog - Q + 1
  IN  IF by <= 0 THEN [w |-> p.w, error |-> p.error, count |-> count]
      ELSE [w |-> DiyFp(p.w.f \div 2 ^ by, p.w.e + by),
            error |-> (p.error \div 2 ^ by) + 1 + Denominator, count |-> count - by]

\* Rounded, if the error does not reach half way.
RoundedGuess(s) ==
  LET bits == (s.w.f % 2 ^ s.count) * Denominator
      half == 2 ^ (s.count - 1) * Denominator
      up   == IF bits >= half + s.error THEN 1 ELSE 0
  IN  Guess(~(Wrap(half - s.error) < bits /\ bits < half + s.error),
            AsDouble(DiyFp((s.w.f \div 2 ^ s.count) + up, s.w.e + s.count)))

GuessOf(p) == RoundedGuess(Shifted(p, PrecisionBits(p)))

DiyFpStrtodRead(digits, read, exponent) ==
  IF exponent < CachedPowers[1].decimal THEN Guess(TRUE, 0)
  ELSE GuessOf(Product(digits, read, GetCachedPowerForDecimalExponent(exponent), exponent))

DiyFpStrtod(digits, exponent) ==
  LET read == ReadUint64(digits)
  IN  DiyFpStrtodRead(digits, read, exponent + Len(digits) - read.count)

InfinityIsCorrect(guess) ==
  Guess(guess.correct \/ guess.double = Infinity(Double), guess.double)

ComputeGuess(digits, exponent) ==
  LET order == exponent + Len(digits)
  IN  IF digits = <<>> \/ order <= MinDecimalPower THEN Guess(TRUE, 0)
      ELSE IF order - 1 >= MaxDecimalPower THEN Guess(TRUE, Infinity(Double))
      ELSE IF HardwareCan(digits, exponent)
      THEN Guess(TRUE, Hardware(DigitsValue(digits), exponent))
      ELSE InfinityIsCorrect(DiyFpStrtod(digits, exponent))

-----------------------------------------------------------------------------
(* Big numbers, by their decimal digits *)

BigDigits(n) ==
  LET length == CHOOSE k \in 1 .. 10 : n < 10 ^ k /\ (k = 1 \/ n >= 10 ^ (k - 1))
  IN  [i \in 1 .. length |-> (n \div 10 ^ (length - i)) % 10]

Zeros(n) == [i \in 1 .. n |-> 0]

RECURSIVE Doubled(_, _)
Doubled(digits, times) ==
  LET n == Len(digits)
      Carry(i) == IF i <= n /\ digits[i] >= 5 THEN 1 ELSE 0
      twice == [i \in 1 .. n |-> ((2 * digits[i]) % 10) + Carry(i + 1)]
  IN  IF times = 0 THEN digits
      ELSE Doubled(IF Carry(1) = 1 THEN <<1>> \o twice ELSE twice, times - 1)

\* -1, 0 or 1.
CompareBigDigits(a, b) ==
  LET differ == {i \in DOMAIN a : a[i] # b[i]}
  IN  IF Len(a) # Len(b) THEN (IF Len(a) < Len(b) THEN -1 ELSE 1)
      ELSE IF differ = {} THEN 0
      ELSE IF a[Min(differ)] < b[Min(differ)] THEN -1 ELSE 1

CompareBufferWithDiyFp(digits, exponent, a) ==
  CompareBigDigits(
    Doubled(digits \o Zeros(IF exponent >= 0 THEN exponent ELSE 0),
            IF a.e > 0 THEN 0 ELSE -a.e),
    Doubled(BigDigits(a.f) \o Zeros(IF exponent >= 0 THEN 0 ELSE -exponent),
            IF a.e > 0 THEN a.e ELSE 0))

\* Of two candidates, that on whose side of the boundary the digits are.
Candidate(digits, exponent, boundary, low, high, even) ==
  LET comparison == CompareBufferWithDiyFp(digits, exponent, boundary)
  IN  IF comparison < 0 \/ (comparison = 0 /\ even) THEN low ELSE high

-----------------------------------------------------------------------------

StrtodGuessed(cut, g) ==
  IF g.correct THEN g.double
  ELSE Candidate(cut.digits, cut.exponent, UpperBoundary(Double, g.double), g.double,
                 NextDouble(g.double), g.double % 2 = 0)

StrtodCut(cut) == StrtodGuessed(cut, ComputeGuess(cut.digits, cut.exponent))

Strtod(buffer, exponent) == StrtodCut(TrimAndCut(buffer, exponent))

\* A double as a single: what lies half way between two singles is a double.
HalfWayAbove(s) == AsDouble(UpperBoundary(Single, s))

DoubleToFloat(d) ==
  CHOOSE s \in 0 .. Infinity(Single) :
    /\ s = 0 \/ HalfWayAbove(s - 1) < d \/ (s % 2 = 0 /\ HalfWayAbove(s - 1) = d)
    /\ s = Infinity(Single) \/ d < HalfWayAbove(s) \/ (s % 2 = 0 /\ d = HalfWayAbove(s))

\* The single between which and the next the digits lie, that of min_float / 2
\* under the smallest.
SingleBoundary(low) ==
  IF low = 0 THEN AsDiyFp(Double, AsDouble(DiyFp(1, DenormalExponent(Single) - 1)))
  ELSE UpperBoundary(Single, low)

\* The neighbours of the guess tell whether it is near a boundary of singles.
NearBoundary(cut, float, low, high) ==
  IF low = high THEN float
  ELSE Candidate(cut.digits, cut.exponent, SingleBoundary(low), low, high, low % 2 = 0)

StrtofGuessed(cut, g, float) ==
  IF FloatToDouble(float) = g.double THEN float
  ELSE NearBoundary(cut, float, DoubleToFloat(PreviousDouble(g.double)),
                    DoubleToFloat(IF g.correct THEN NextDouble(g.double)
                                  ELSE NextDouble(NextDouble(g.double))))

StrtofOf(cut, g) == StrtofGuessed(cut, g, DoubleToFloat(g.double))

StrtofCut(cut) == StrtofOf(cut, ComputeGuess(cut.digits, cut.exponent))

Strtof(buffer, exponent) == StrtofCut(TrimAndCut(buffer, exponent))

-----------------------------------------------------------------------------
(* The text *)

DigitValues ==
  [c \in {"0", "1", "2", "3", "4", "5", "6", "7", "8", "9", "a", "b", "c", "d", "e", "f"} |->
     CASE c = "0" -> 0 [] c = "1" -> 1 [] c = "2" -> 2 [] c = "3" -> 3 [] c = "4" -> 4
       [] c = "5" -> 5 [] c = "6" -> 6 [] c = "7" -> 7 [] c = "8" -> 8 [] c = "9" -> 9
       [] c = "a" -> 10 [] c = "b" -> 11 [] c = "c" -> 12 [] c = "d" -> 13 [] c = "e" -> 14
       [] c = "f" -> 15]

HexDigits == DOMAIN DigitValues
DecimalDigits == {c \in HexDigits : DigitValues[c] < 10}

\* The first place from p on where the character is not one of these.
AfterAll(text, p, chars) ==
  Min({q \in p .. Len(text) + 1 : q = Len(text) + 1 \/ text[q] \notin chars})

AdvanceToNonspace(text, p) == AfterAll(text, p, {" "})

AtEnd(text, p) == p > Len(text)

At(text, p, chars) == p <= Len(text) /\ text[p] \in chars

Values(text, p, q) == [i \in 1 .. q - p |-> DigitValues[text[p + i - 1]]]

-----------------------------------------------------------------------------
(* Digits of a radix of 2^bits *)

\* Too many bits: the number is rounded by those that do not fit, and by whether
\* the digits behind them are zeros.
RoundRadix(number, size, zeroTail) ==
  LET count   == CHOOSE n \in 1 .. 10 : number \div 2 ^ size \in 2 ^ (n - 1) .. 2 ^ n - 1
      dropped == number % 2 ^ count
      middle  == 2 ^ (count - 1)
      kept    == number \div 2 ^ count
      up      == \/ dropped > middle
                 \/ dropped = middle /\ (kept % 2 # 0 \/ ~zeroTail)
      rounded == kept + (IF up THEN 1 ELSE 0)
  IN  IF rounded = 2 ^ size THEN [number |-> rounded \div 2, exponent |-> count + 1]
      ELSE [number |-> rounded, exponent |-> count]

\* The digits that fit: where they end, and their number.
RECURSIVE RadixDigits(_, _, _, _, _)
RadixDigits(digits, bits, size, n, number) ==
  IF n = Len(digits) \/ number >= 2 ^ size THEN [n |-> n, number |-> number]
  ELSE RadixDigits(digits, bits, size, n + 1, number * 2 ^ bits + digits[n + 1])

RadixRounded(digits, bits, size, r) ==
  LET tail == SubSeq(digits, r.n + 1, Len(digits))
      x    == RoundRadix(r.number, size, \A i \in DOMAIN tail : tail[i] = 0)
  IN  DiyFp(x.number, x.exponent + Len(tail) * bits)

RadixValue(digits, bits, size, r) ==
  IF r.number < 2 ^ size THEN AsDouble(DiyFp(r.number, 0))
  ELSE AsDouble(RadixRounded(digits, bits, size, r))

RadixNumber(digits, bits, size) ==
  RadixValue(digits, bits, size, RadixDigits(digits, bits, size, 0, 0))

-----------------------------------------------------------------------------
(* What is read is r: the text, the converter, whether the number is to be  *)
(* a double, and whether it is negative                                     *)

Allows(r, flag) == flag \in r.c.flags

\* A result: the number, and how many characters were taken.
Read(value, count) == [value |-> value, count |-> count]

Junk(r) == Read(r.c.junk, 0)

Signed(r, v) == IF r.negative THEN v + SignMask(Double) ELSE v

SizeRead(r) == IF r.asDouble THEN Double.sig ELSE Single.sig

\* What may not follow.
BadTail(r, p) ==
  \/ /\ ~Allows(r, "ALLOW_TRAILING_JUNK") /\ ~Allows(r, "ALLOW_TRAILING_SPACES")
     /\ ~AtEnd(r.text, p)
  \/ /\ ~Allows(r, "ALLOW_TRAILING_JUNK")
     /\ ~AtEnd(r.text, AdvanceToNonspace(r.text, p))

\* Where the text ends that is taken.
TailEnd(r, p) ==
  IF ~Allows(r, "ALLOW_TRAILING_JUNK") \/ Allows(r, "ALLOW_TRAILING_SPACES")
  THEN AdvanceToNonspace(r.text, p) ELSE p

\* Behind 0x; spaces may follow whether they are allowed or not.
Hexadecimal(r, p, q) ==
  IF q = p \/ (~Allows(r, "ALLOW_TRAILING_JUNK")
               /\ ~AtEnd(r.text, AdvanceToNonspace(r.text, q)))
  THEN Junk(r)
  ELSE Read(Signed(r, RadixNumber(Values(r.text, p, q), 4, SizeRead(r))), TailEnd(r, q) - 1)

\* Mutant: the digits that are left out do not count.
DroppedForgotten(r, digits, dropped, exponent) ==
  Signed(r, IF r.asDouble THEN Strtod(digits, exponent)
            ELSE FloatToDouble(Strtof(digits, exponent)))

\* The number, with a last digit 1 for what was left out.
Converted(r, digits, dropped, exponent) ==
  LET all   == IF dropped THEN Append(digits, 1) ELSE digits
      power == IF dropped THEN exponent - 1 ELSE exponent
  IN  Signed(r, IF r.asDouble THEN Strtod(all, power)
                ELSE FloatToDouble(Strtof(all, power)))

\* parsing_done: n has the digits with their power of ten.
ParsingDone(r, n, p) ==
  LET kept == Len(n.digits) - AtLeastNone(Len(n.digits) - MaxSignificantDigits)
      digits == SubSeq(n.digits, 1, kept)
  IN  IF n.octal THEN Read(Signed(r, RadixNumber(digits, 3, SizeRead(r))), p - 1)
      ELSE Read(Converted(r, digits, \E i \in kept + 1 .. Len(n.digits) : n.digits[i] # 0,
                          n.exponent + Len(n.digits) - kept), p - 1)

StopAt(r, n, p) == IF Allows(r, "ALLOW_TRAILING_JUNK") THEN ParsingDone(r, n, p) ELSE Junk(r)

Clamped(digits) ==
  FoldLeft(LAMBDA n, d : IF 10 * n + d > MaxExponentRead THEN MaxExponentRead ELSE 10 * n + d,
           0, digits)

NumberTail(r, n, p) ==
  IF BadTail(r, p) THEN Junk(r) ELSE ParsingDone(r, n, TailEnd(r, p))

\* Behind an e, and its sign at s - 1 if there is one.
ExponentDigits(r, n, s, negative) ==
  LET q   == AfterAll(r.text, s, DecimalDigits)
      num == Clamped(Values(r.text, s, q))
  IN  IF q = s THEN StopAt(r, n, s)
      ELSE NumberTail(r, [n EXCEPT !.exponent = @ + (IF negative THEN -num ELSE num)], q)

ExponentPart(r, n, p) ==
  IF n.octal THEN StopAt(r, n, p - 1)
  ELSE IF At(r.text, p, {"+", "-"}) THEN ExponentDigits(r, n, p + 1, r.text[p] = "-")
  ELSE ExponentDigits(r, n, p, FALSE)

AfterDigits(r, n, p, leadingZero) ==
  IF ~leadingZero /\ n.exponent = 0 /\ n.digits = <<>> THEN Junk(r)
  ELSE IF r.text[p] = "e" THEN ExponentPart(r, n, p + 1)
  ELSE NumberTail(r, n, p)

FractionPart(r, n, p, leadingZero) ==
  LET q == AfterAll(r.text, p, DecimalDigits)
      f == [n EXCEPT !.digits = @ \o Values(r.text, p, q), !.exponent = @ - (q - p)]
  IN  IF AtEnd(r.text, q) THEN ParsingDone(r, f, q) ELSE AfterDigits(r, f, q, leadingZero)

\* Zeros behind the point count in the exponent if nothing is before it.
FractionZeros(r, n, p, q, leadingZero) ==
  IF AtEnd(r.text, q) THEN Read(Signed(r, 0), Len(r.text))
  ELSE FractionPart(r, [n EXCEPT !.exponent = p - q], q, leadingZero)

Point(r, n, p, leadingZero) ==
  IF n.octal THEN StopAt(r, n, p - 1)
  ELSE IF AtEnd(r.text, p)
  THEN IF n.digits = <<>> /\ ~leadingZero THEN Junk(r) ELSE ParsingDone(r, n, p)
  ELSE IF n.digits # <<>> THEN FractionPart(r, n, p, leadingZero)
  ELSE FractionZeros(r, n, p, AfterAll(r.text, p, {"0"}), leadingZero)

AfterInteger(r, n, p, leadingZero) ==
  IF AtEnd(r.text, p) THEN ParsingDone(r, n, p)
  ELSE IF r.text[p] = "." THEN Point(r, n, p + 1, leadingZero)
  ELSE AfterDigits(r, n, p, leadingZero)

Integer(r, p, q, leadingZero) ==
  LET digits == Values(r.text, p, q)
  IN  AfterInteger(r,
        [digits |-> digits, exponent |-> 0,
         octal |-> /\ leadingZero /\ digits # <<>> /\ Allows(r, "ALLOW_OCTALS")
                   /\ \A i \in DOMAIN digits : digits[i] < 8], q, leadingZero)

IntegerPart(r, p, leadingZero) ==
  IF AtEnd(r.text, p) THEN Read(Signed(r, 0), Len(r.text))
  ELSE Integer(r, p, AfterAll(r.text, p, DecimalDigits), leadingZero)

AfterZero(r, p) ==
  IF At(r.text, p, {"x"}) /\ Allows(r, "ALLOW_HEX")
  THEN Hexadecimal(r, p + 1, AfterAll(r.text, p + 1, HexDigits))
  ELSE IntegerPart(r, AfterAll(r.text, p, {"0"}), TRUE)

Symbol(r, p, q, symbol, value) ==
  IF q > Len(r.text) + 1 \/ BadTail(r, q) THEN Junk(r)
  ELSE IF SubSeq(r.text, p, q - 1) # symbol THEN Junk(r)
  ELSE Read(Signed(r, value),
            IF Allows(r, "ALLOW_TRAILING_JUNK") THEN q - 1 ELSE Len(r.text))

AfterSign(r, p) ==
  CASE At(r.text, p, {Head(r.c.infinity)}) ->
         Symbol(r, p, p + Len(r.c.infinity), r.c.infinity, Infinity(Double))
    [] At(r.text, p, {Head(r.c.nan)}) ->
         Symbol(r, p, p + Len(r.c.nan), r.c.nan, Infinity(Double) + 1)
    [] At(r.text, p, {"0"}) -> AfterZero(r, p + 1)
    [] OTHER -> IntegerPart(r, p, FALSE)

SignAt(r, p, q) ==
  IF AtEnd(r.text, q) \/ (q # p + 1 /\ ~Allows(r, "ALLOW_SPACES_AFTER_SIGN")) THEN Junk(r)
  ELSE AfterSign([r EXCEPT !.negative = r.text[p] = "-"], q)

AfterSpaces(r, p) ==
  IF AtEnd(r.text, p) THEN Read(r.c.empty, Len(r.text))
  ELSE IF p # 1 /\ ~Allows(r, "ALLOW_LEADING_SPACES") THEN Junk(r)
  ELSE IF r.text[p] \in {"+", "-"} THEN SignAt(r, p, AdvanceToNonspace(r.text, p + 1))
  ELSE AfterSign(r, p)

StringToIeee(c, text, asDouble) ==
  LET r == [c |-> c, text |-> text, asDouble |-> asDouble, negative |-> FALSE]
  IN  AfterSpaces(r, IF Allows(r, "ALLOW_LEADING_SPACES") \/ Allows(r, "ALLOW_TRAILING_SPACES")
                     THEN AdvanceToNonspace(text, 1) ELSE 1)

=============================================================================
