-------------------------------- MODULE Dtoa --------------------------------
(***************************************************************************)
(* The digits of a double, in three ways: with words of a fixed size,      *)
(* which may give up; with big numbers, which does not; and with so many   *)
(* digits after the point.                                                 *)
(***************************************************************************)
EXTENDS Ieee

-----------------------------------------------------------------------------
(***************************************************************************)
(* FastDtoa (util/double-conversion/fast-dtoa.cc): the digits of a double  *)
(* from arithmetic in words of Q bits, with a cached power of ten that is  *)
(* only nearly right. The errors are counted in units, and the result is   *)
(* FALSE whenever they leave more than one answer.                         *)
(***************************************************************************)

CONSTANTS MinimalTarget, MaximalTarget    \* kMinimalTargetExponent, kMaximal...

\* A result of one of the functions below.
Digits(ok, buffer, kappa) == [ok |-> ok, buffer |-> buffer, kappa |-> kappa]

-----------------------------------------------------------------------------
(* Rounding *)

\* The loop of RoundWeed, which takes one off the last digit while that brings
\* the number nearer to w.
RECURSIVE Weeded(_, _)
Weeded(acc, p) ==
  LET rest == acc.rest
  IN  IF /\ rest < p.small
         /\ p.unsafe - rest >= p.tenKappa
         /\ \/ rest + p.tenKappa < p.small
            \/ p.small - rest >= rest + p.tenKappa - p.small
      THEN Weeded([rest |-> rest + p.tenKappa, buffer |-> WithLast(acc.buffer, -1)], p)
      ELSE acc

\* Whether another number might be nearer.
MayBeNearer(rest, p) ==
  /\ rest < p.big
  /\ p.unsafe - rest >= p.tenKappa
  /\ \/ rest + p.tenKappa < p.big
     \/ p.big - rest > rest + p.tenKappa - p.big

\* The weeding test: the number lies in the safe interval.
WithinSafe(rest, p) == 2 * p.unit <= rest /\ rest <= p.unsafe - 4 * p.unit

RoundWeed(buffer, kappa, distance, unsafe, rest, tenKappa, unit) ==
  LET p == [small |-> distance - unit, big |-> distance + unit, unsafe |-> unsafe,
            tenKappa |-> tenKappa, unit |-> unit]
      weeded == Weeded([rest |-> rest, buffer |-> buffer], p)
  IN  Digits(~MayBeNearer(weeded.rest, p) /\ WithinSafe(weeded.rest, p),
             weeded.buffer, kappa)

\* One more in the last place.
RoundUp(buffer, kappa) ==
  LET up == Carried(WithLast(buffer, 1))
  IN  IF up[1] = 10 THEN Digits(TRUE, [up EXCEPT ![1] = 1], kappa + 1)
      ELSE Digits(TRUE, up, kappa)

RoundWeedCounted(buffer, rest, tenKappa, unit, kappa) ==
  IF unit >= tenKappa \/ tenKappa - unit <= unit THEN Digits(FALSE, buffer, kappa)
  ELSE IF tenKappa - rest > rest /\ tenKappa - 2 * rest >= 2 * unit
  THEN Digits(TRUE, buffer, kappa)
  ELSE IF rest > unit /\ tenKappa - (rest - unit) <= rest - unit
  THEN RoundUp(buffer, kappa)
  ELSE Digits(FALSE, buffer, kappa)

-----------------------------------------------------------------------------
(* Generating digits *)

SmallPowersOfTen == <<0, 1, 10, 100, 1000, 10000>>

\* The guess from the number of bits, corrected downwards.
RECURSIVE BiggestFrom(_, _)
BiggestFrom(number, guess) ==
  IF number < SmallPowersOfTen[guess + 1] THEN BiggestFrom(number, guess - 1) ELSE guess

BiggestPowerTen(number, bits) ==
  BiggestFrom(number, (((bits + 1) * 1233) \div 4096) + 1)

\* The loop over the integral digits of DigitGen: too_high has been written
\* down to 10^kappa, and rounding down there may be good enough.
RECURSIVE IntegralDigits(_, _)
IntegralDigits(g, p) ==
  LET digit     == g.integrals \div g.divisor
      integrals == g.integrals % g.divisor
      buffer    == Append(g.buffer, digit)
      rest      == integrals * p.one + g.fractionals
  IN  IF g.kappa = 0 THEN g
      ELSE IF rest < p.unsafe
      THEN [g EXCEPT !.result =
              <<RoundWeed(buffer, g.kappa - 1, p.distance, p.unsafe, rest,
                          g.divisor * p.one, 1)>>]
      ELSE IntegralDigits([g EXCEPT !.buffer = buffer, !.integrals = integrals,
                                    !.kappa = @ - 1, !.divisor = @ \div 10], p)

RECURSIVE FractionalDigits(_, _, _, _, _)
FractionalDigits(buffer, kappa, fractionals, unit, p) ==
  LET tenfold == Wrap(fractionals * 10)
      unsafe  == Wrap(p.unsafe * unit * 10)
      next    == Append(buffer, tenfold \div p.one)
      rest    == tenfold % p.one
  IN  IF rest < unsafe
      THEN RoundWeed(next, kappa - 1, Wrap(p.distance * unit * 10), unsafe, rest, p.one,
                     unit * 10)
      ELSE FractionalDigits(next, kappa - 1, rest, unit * 10, p)

DigitGen(low, w, high) ==
  LET tooHigh == DiyFp(high.f + 1, high.e)
      tooLow  == DiyFp(low.f - 1, low.e)
      one     == 2 ^ (-w.e)
      p == [one |-> one, unsafe |-> Minus(tooHigh, tooLow).f,
            distance |-> Minus(tooHigh, w).f]
      kappa == BiggestPowerTen(tooHigh.f \div one, Q + w.e)
      g == IntegralDigits(
             [integrals |-> tooHigh.f \div one, fractionals |-> tooHigh.f % one,
              divisor |-> SmallPowersOfTen[kappa + 1], kappa |-> kappa, buffer |-> <<>>,
              result |-> <<>>], p)
  IN  IF g.result # <<>> THEN g.result[1]
      ELSE FractionalDigits(g.buffer, 0, g.fractionals, 1, p)

\* DigitGenCounted: as many digits as are asked for, or until they would be
\* those of the error.
RECURSIVE CountedFractionals(_, _, _, _, _, _)
CountedFractionals(buffer, kappa, fractionals, unit, left, one) ==
  IF left > 0 /\ fractionals > unit
  THEN CountedFractionals(Append(buffer, Wrap(fractionals * 10) \div one), kappa - 1,
                          Wrap(fractionals * 10) % one, unit * 10, left - 1, one)
  ELSE IF left # 0 THEN Digits(FALSE, buffer, kappa)
  ELSE RoundWeedCounted(buffer, fractionals, one, unit, kappa)

RECURSIVE CountedIntegrals(_, _, _, _, _, _)
CountedIntegrals(buffer, kappa, integrals, divisor, left, p) ==
  LET next == Append(buffer, integrals \div divisor)
      rest == integrals % divisor
  IN  IF kappa = 0 THEN CountedFractionals(buffer, 0, p.fractionals, 1, left, p.one)
      ELSE IF left = 1
      THEN RoundWeedCounted(next, rest * p.one + p.fractionals, divisor * p.one, 1, kappa - 1)
      ELSE CountedIntegrals(next, kappa - 1, rest, divisor \div 10, left - 1, p)

DigitGenCounted(w, requested) ==
  LET one   == 2 ^ (-w.e)
      kappa == BiggestPowerTen(w.f \div one, Q + w.e)
  IN  CountedIntegrals(<<>>, kappa, w.f \div one, SmallPowersOfTen[kappa + 1], requested,
                       [one |-> one, fractionals |-> w.f % one])

-----------------------------------------------------------------------------
(* Grisu *)

\* The power that brings w into the range of the target exponents.
CachedFor(w) == GetCachedPowerForBinaryExponentRange(MinimalTarget - (w.e + Q))

InTargetRange(w) ==
  LET e == w.e + CachedFor(w).e + Q IN MinimalTarget <= e /\ e <= MaximalTarget

Grisu3(format, v, vInFormat) ==
  LET w      == AsNormalizedDiyFp(v)
      power  == PowerOf(CachedFor(w))
  IN  DigitGen(Times(LowerNormalized(format, vInFormat), power), Times(w, power),
               Times(UpperNormalized(format, vInFormat), power))

Grisu3Counted(v, requested) ==
  LET w == AsNormalizedDiyFp(v)
  IN  DigitGenCounted(Times(w, PowerOf(CachedFor(w))), requested)

\* FastDtoa, with the decimal point after so many digits.
FastDtoa(v, mode, requested) ==
  LET digits == CASE mode = "SHORTEST" -> Grisu3(Double, v, v)
                  [] mode = "SHORTEST_SINGLE" -> Grisu3(Single, v, InSingle(v))
                  [] mode = "PRECISION" -> Grisu3Counted(v, requested)
      mk     == CachedFor(AsNormalizedDiyFp(v)).decimal
  IN  [ok |-> digits.ok, buffer |-> digits.buffer,
       point |-> Len(digits.buffer) - mk + digits.kappa]

-----------------------------------------------------------------------------
(***************************************************************************)
(* BignumDtoa (util/double-conversion/bignum-dtoa.cc): the digits of a     *)
(* double from a fraction of big numbers, which is always right and is     *)
(* what is done where FastDtoa gives up. Bignum is exact (Bignum.tla), so  *)
(* the big numbers are integers here.                                      *)
(***************************************************************************)

NormalizedExponent(significand, exponent) ==
  exponent - LeadingZeros(significand, Double.sig)

\* k such that v < 10^k, or one less.
EstimatePower(exponent) == CeilLog10(exponent + Double.sig - 1)

-----------------------------------------------------------------------------
(* v / 10^power and its distance from the boundaries, over one denominator *)

Fraction(num, den, minus, plus) == [num |-> num, den |-> den, minus |-> minus, plus |-> plus]

PositiveExponent(f, e, power) ==
  Fraction(f * 2 ^ e * 2, 10 ^ power * 2, 2 ^ e, 2 ^ e)

NegativeExponentPositivePower(f, e, power) ==
  Fraction(f * 2, 10 ^ power * 2 ^ (-e) * 2, 1, 1)

NegativeExponentNegativePower(f, e, power) ==
  Fraction(10 ^ (-power) * f * 2, 2 ^ (-e) * 2, 10 ^ (-power), 10 ^ (-power))

InitialScaledStartValues(f, e, closer, power, deltas) ==
  LET start == IF e >= 0 THEN PositiveExponent(f, e, power)
               ELSE IF power >= 0 THEN NegativeExponentPositivePower(f, e, power)
               ELSE NegativeExponentNegativePower(f, e, power)
  IN  IF ~deltas THEN Fraction(start.num \div 2, start.den \div 2, 0, 0)
      ELSE IF closer
      THEN [start EXCEPT !.num = 2 * @, !.den = 2 * @, !.plus = 2 * @]
      ELSE start

TenTimes(r) == [r EXCEPT !.num = 10 * @, !.minus = 10 * @, !.plus = 10 * @]

ReachesOne(r, even) == r.num + r.plus > r.den \/ (even /\ r.num + r.plus = r.den)

FixupMultiply10(power, even, r) ==
  IF ReachesOne(r, even) THEN [point |-> power + 1, r |-> r]
  ELSE [point |-> power, r |-> TenTimes(r)]

-----------------------------------------------------------------------------
(* Digits *)

NextDigit(buffer, r) == Append(buffer, r.num \div r.den)

LeftAfterDigit(r) == [r EXCEPT !.num = @ % r.den]

InDeltaRoomMinus(left, even) == left.num < left.minus \/ (even /\ left.num = left.minus)

\* Both may do: the nearer is taken, and half way the even digit.
NearerDigit(buffer, left) ==
  IF \/ 2 * left.num > left.den
     \/ 2 * left.num = left.den /\ Last(buffer) % 2 # 0
  THEN WithLast(buffer, 1) ELSE buffer

RECURSIVE ShortestDigits(_, _, _)
ShortestDigits(buffer, r, even) ==
  LET next  == NextDigit(buffer, r)
      left  == LeftAfterDigit(r)
      minus == InDeltaRoomMinus(left, even)
      plus  == ReachesOne(left, even)
  IN  CASE minus /\ plus   -> NearerDigit(next, left)
        [] minus /\ ~plus  -> next
        [] ~minus /\ plus  -> WithLast(next, 1)
        [] ~minus /\ ~plus -> ShortestDigits(next, TenTimes(left), even)

RECURSIVE CountedDigits(_, _, _)
CountedDigits(count, buffer, r) ==
  LET next == NextDigit(buffer, r)
      left == LeftAfterDigit(r)
  IN  IF Len(next) < count THEN CountedDigits(count, next, TenTimes(left))
      ELSE Carried(IF 2 * left.num >= left.den THEN WithLast(next, 1) ELSE next)

GenerateCountedDigits(count, point, r) ==
  LET digits == CountedDigits(count, <<>>, r)
  IN  IF digits[1] = 10 THEN [buffer |-> [digits EXCEPT ![1] = 1], point |-> point + 1]
      ELSE [buffer |-> digits, point |-> point]

BignumToFixed(requested, point, r) ==
  IF -point > requested THEN [buffer |-> <<>>, point |-> -requested]
  ELSE IF -point = requested
  THEN IF 2 * r.num >= 10 * r.den THEN [buffer |-> <<1>>, point |-> point + 1]
       ELSE [buffer |-> <<>>, point |-> point]
  ELSE GenerateCountedDigits(point + requested, point, r)

\* The digits, with the decimal point after so many of them; inFormat is v in
\* the format of the mode.
BignumDtoa(format, inFormat, mode, requested) ==
  LET f     == Significand(format, inFormat)
      e     == Exponent(format, inFormat)
      power == EstimatePower(NormalizedExponent(f, e))
      even  == f % 2 = 0
      start == InitialScaledStartValues(f, e, LowerBoundaryIsCloser(format, inFormat), power,
                                        mode = "SHORTEST")
      fixed == FixupMultiply10(power, even, start)
  IN  CASE mode = "SHORTEST" ->
             [buffer |-> ShortestDigits(<<>>, fixed.r, even), point |-> fixed.point]
        [] mode = "PRECISION" ->
             GenerateCountedDigits(requested, fixed.point, fixed.r)
        [] mode = "FIXED" ->
             IF -power - 1 > requested THEN [buffer |-> <<>>, point |-> -requested]
             ELSE BignumToFixed(requested, fixed.point, fixed.r)

-----------------------------------------------------------------------------
(***************************************************************************)
(* FastFixedDtoa (util/double-conversion/fixed-dtoa.cc): a double with so  *)
(* many digits after the point, from arithmetic in one or two words, each  *)
(* of Word bits.                                                           *)
(***************************************************************************)

CONSTANTS Word,                  \* the bits of a word
          DivisorPower,          \* the power of ten that is split off, 17
          MaxFixedExponent,      \* the largest exponent and the most digits
          MaxFractionalCount     \* that it knows how to do, 20

Base == 2 ^ Word
HalfBase == 2 ^ (Word \div 2)

-----------------------------------------------------------------------------
(* UInt128: two words *)

Two(high, low) == [high |-> high, low |-> low]

\* Times a small number, in half words with a carry between them.
MultiplyTwo(t, by) ==
  LET a0 == (t.low % HalfBase) * by
      a1 == (a0 \div HalfBase) + (t.low \div HalfBase) * by
      a2 == (a1 \div HalfBase) + (t.high % HalfBase) * by
      a3 == (a2 \div HalfBase) + (t.high \div HalfBase) * by
  IN  Two(((a3 * HalfBase) % Base) + (a2 % HalfBase),
          ((a1 * HalfBase) % Base) + (a0 % HalfBase))

\* To the right, by up to a word.
ShiftTwo(t, by) ==
  IF by = 0 THEN t
  ELSE IF by = Word THEN Two(0, t.high)
  ELSE Two(t.high \div 2 ^ by, (t.low \div 2 ^ by) + ((t.high * 2 ^ (Word - by)) % Base))

\* What is to the left of a bit, and what remains.
DivPowerOf2(t, power) ==
  IF power >= Word THEN t.high \div 2 ^ (power - Word)
  ELSE (t.low \div 2 ^ power) + ((t.high * 2 ^ (Word - power)) % Base)

ModPowerOf2(t, power) ==
  IF power >= Word THEN Two(t.high % 2 ^ (power - Word), t.low)
  ELSE Two(0, t.low % 2 ^ power)

IsZeroTwo(t) == t.high = 0 /\ t.low = 0

BitAt(t, position) ==
  IF position >= Word THEN (t.high \div 2 ^ (position - Word)) % 2
  ELSE (t.low \div 2 ^ position) % 2

-----------------------------------------------------------------------------
(* Digits *)

FillDigits32FixedLength(number, length) ==
  [i \in 1 .. length |-> (number \div 10 ^ (length - i)) % 10]

\* FillDigits32 and FillDigits64, without zeros in front.
FillDigits(number) ==
  LET length == CHOOSE n \in 0 .. 10 : number < 10 ^ n /\ \A m \in 0 .. n - 1 : number >= 10 ^ m
  IN  FillDigits32FixedLength(number, length)

Decimal(buffer, point) == [buffer |-> buffer, point |-> point]

RoundUpFixed(d) ==
  LET up == Carried(WithLast(d.buffer, 1))
  IN  IF d.buffer = <<>> THEN Decimal(<<1>>, 1)
      ELSE IF up[1] = 10 THEN Decimal([up EXCEPT ![1] = 1], d.point + 1)
      ELSE Decimal(up, d.point)

\* One word: five times the rest, with the point a bit further to the right.
\* The shift for the rounding bit is by -1 when nothing is left behind a point
\* at bit 0; whatever a shift of zero does, it is zero.
RECURSIVE FractionalWord(_, _, _, _)
FractionalWord(d, fractionals, point, count) ==
  LET five == (fractionals * 5) % Base
  IN  IF count > 0 /\ fractionals # 0
      THEN FractionalWord(Decimal(Append(d.buffer, five \div 2 ^ (point - 1)), d.point),
                          five % 2 ^ (point - 1), point - 1, count - 1)
      ELSE IF fractionals # 0 /\ (fractionals \div 2 ^ (point - 1)) % 2 = 1
      THEN RoundUpFixed(d) ELSE d

RECURSIVE FractionalTwo(_, _, _, _)
FractionalTwo(d, fractionals, point, count) ==
  LET five == MultiplyTwo(fractionals, 5)
  IN  IF count > 0 /\ ~IsZeroTwo(fractionals)
      THEN FractionalTwo(Decimal(Append(d.buffer, DivPowerOf2(five, point - 1)), d.point),
                         ModPowerOf2(five, point - 1), point - 1, count - 1)
      ELSE IF BitAt(fractionals, point - 1) = 1 THEN RoundUpFixed(d) ELSE d

FillFractionals(d, fractionals, exponent, count) ==
  IF -exponent <= Word THEN FractionalWord(d, fractionals, -exponent, count)
  ELSE FractionalTwo(d, ShiftTwo(Two(fractionals, 0), -exponent - Word), 2 * Word, count)

\* TrimZeros, at both ends.
Trimmed(d) ==
  LET marked == {i \in DOMAIN d.buffer : d.buffer[i] # 0}
  IN  IF marked = {} THEN Decimal(<<>>, d.point - Len(d.buffer))
      ELSE Decimal(SubSeq(d.buffer, Min(marked), Max(marked)), d.point - (Min(marked) - 1))

-----------------------------------------------------------------------------

\* A number of more bits than a word: the digits above 10^DivisorPower, and the
\* others.
LargeInteger(f, e) ==
  LET shift == e - DivisorPower
      divisor == 5 ^ DivisorPower * (IF shift > 0 THEN 1 ELSE 2 ^ (-shift))
      dividend == f * (IF shift > 0 THEN 2 ^ shift ELSE 1)
      quotient == FillDigits(dividend \div divisor)
      remainder == (dividend % divisor) * 2 ^ (IF shift > 0 THEN DivisorPower ELSE e)
      buffer == quotient \o FillDigits32FixedLength(remainder, DivisorPower)
  IN  Decimal(buffer, Len(buffer))

\* A number with bits on both sides of the point.
CutNumber(f, e, count) ==
  LET integral == FillDigits(f \div 2 ^ (-e))
  IN  FillFractionals(Decimal(integral, Len(integral)), f % 2 ^ (-e), e, count)

FixedDecimal(f, e, count) ==
  IF e + Double.sig > Word THEN LargeInteger(f, e)
  ELSE IF e >= 0 THEN LET buffer == FillDigits(f * 2 ^ e) IN Decimal(buffer, Len(buffer))
  ELSE IF e > -Double.sig THEN CutNumber(f, e, count)
  ELSE IF e < -2 * Word THEN Decimal(<<>>, -count)
  ELSE FillFractionals(Decimal(<<>>, 0), f, e, count)

FastFixedDtoa(v, count) ==
  LET decimal == Trimmed(FixedDecimal(Significand(Double, v), Exponent(Double, v), count))
  IN  [ok |-> Exponent(Double, v) <= MaxFixedExponent /\ count <= MaxFractionalCount,
       buffer |-> decimal.buffer,
       point |-> IF decimal.buffer = <<>> THEN -count ELSE decimal.point]

=============================================================================
