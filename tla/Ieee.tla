-------------------------------- MODULE Ieee --------------------------------
(***************************************************************************)
(* Floating-point numbers as util/double-conversion takes them apart       *)
(* (ieee.h, diy-fp.h, diy-fp.cc, cached-powers.cc): a double or a single   *)
(* is the integer of its bits; a DiyFp is a significand of Q bits with an  *)
(* exponent.  The sizes are parameters, so that every number of a small    *)
(* format can be looked at; a format says how long its significand is,     *)
(* with the hidden bit, and its exponent.                                  *)
(***************************************************************************)
EXTENDS Integers, Sequences, FiniteSets, SequencesExt, FiniteSetsExt

CONSTANTS Double, Single,         \* the formats
          Q,                      \* DiyFp::kSignificandSize
          CachedPowers,           \* kCachedPowers
          Distance                \* kDecimalExponentDistance

Wrap(n) == n % 2 ^ Q

-----------------------------------------------------------------------------
(* Doubles and singles *)

HiddenBit(format) == 2 ^ (format.sig - 1)
ExponentMask(format) == (2 ^ format.exp - 1) * HiddenBit(format)
SignMask(format) == 2 ^ format.exp * HiddenBit(format)

ExponentBias(format) == 2 ^ (format.exp - 1) - 1 + format.sig - 1
DenormalExponent(format) == 1 - ExponentBias(format)
MaxExponent(format) == 2 ^ format.exp - 1 - ExponentBias(format)

Infinity(format) == ExponentMask(format)

IsNegative(format, d) == d >= SignMask(format)

Magnitude(format, d) == d % SignMask(format)

BiasedExponent(format, d) == Magnitude(format, d) \div HiddenBit(format)

IsDenormal(format, d) == BiasedExponent(format, d) = 0

IsSpecial(format, d) == Magnitude(format, d) >= Infinity(format)

IsInfinite(format, d) == Magnitude(format, d) = Infinity(format)

Exponent(format, d) ==
  IF IsDenormal(format, d) THEN DenormalExponent(format)
  ELSE BiasedExponent(format, d) - ExponentBias(format)

Significand(format, d) ==
  (d % HiddenBit(format)) + (IF IsDenormal(format, d) THEN 0 ELSE HiddenBit(format))

DiyFp(f, e) == [f |-> f, e |-> e]

AsDiyFp(format, d) == DiyFp(Significand(format, d), Exponent(format, d))

NextDouble(d) ==
  IF d = Infinity(Double) THEN d
  ELSE IF d = SignMask(Double) THEN 0
  ELSE IF IsNegative(Double, d) THEN d - 1 ELSE d + 1

PreviousDouble(d) ==
  IF d = SignMask(Double) + Infinity(Double) THEN d
  ELSE IF IsNegative(Double, d) THEN d + 1
  ELSE IF Significand(Double, d) = 0 THEN SignMask(Double) ELSE d - 1

UpperBoundary(format, d) ==
  DiyFp(2 * Significand(format, d) + 1, Exponent(format, d) - 1)

LowerBoundaryIsCloser(format, d) ==
  d % HiddenBit(format) = 0 /\ Exponent(format, d) # DenormalExponent(format)

\* How many bits a number of this order of magnitude has.
SignificandSizeForOrderOfMagnitude(order) ==
  IF order >= DenormalExponent(Double) + Double.sig THEN Double.sig
  ELSE IF order <= DenormalExponent(Double) THEN 0
  ELSE order - DenormalExponent(Double)

-----------------------------------------------------------------------------
(* DiyFp *)

\* By how much a significand of n bits at most is short of them.
LeadingZeros(f, n) == CHOOSE z \in 0 .. n : f * 2 ^ z >= 2 ^ (n - 1) /\ f * 2 ^ z < 2 ^ n

Normalize(a) ==
  LET z == LeadingZeros(a.f, Q) IN DiyFp(a.f * 2 ^ z, a.e - z)

AsNormalizedDiyFp(d) == Normalize(AsDiyFp(Double, d))

Minus(a, b) == DiyFp(a.f - b.f, a.e)

Half == 2 ^ (Q \div 2)

\* Multiply by halves, whose sum is rounded.
Times(x, y) ==
  LET a == x.f \div Half   b == x.f % Half
      c == y.f \div Half   d == y.f % Half
      tmp == ((b * d) \div Half) + ((a * d) % Half) + ((b * c) % Half) + Half \div 2
  IN  DiyFp(a * c + ((a * d) \div Half) + ((b * c) \div Half) + (tmp \div Half),
            x.e + y.e + Q)

\* NormalizedBoundaries, the lower one and the upper one.
UpperNormalized(format, d) ==
  Normalize(DiyFp(2 * Significand(format, d) + 1, Exponent(format, d) - 1))

LowerNormalized(format, d) ==
  LET closer == LowerBoundaryIsCloser(format, d)
      m == IF closer THEN DiyFp(4 * Significand(format, d) - 1, Exponent(format, d) - 2)
           ELSE DiyFp(2 * Significand(format, d) - 1, Exponent(format, d) - 1)
      e == UpperNormalized(format, d).e
  IN  DiyFp(m.f * 2 ^ (m.e - e), e)

\* DiyFpToUint64: cut off to the size of the significand.
RECURSIVE Cut(_)
Cut(a) ==
  IF a.f >= 2 * HiddenBit(Double) THEN Cut(DiyFp(a.f \div 2, a.e + 1)) ELSE a

RECURSIVE Raised(_)
Raised(a) ==
  IF a.e > DenormalExponent(Double) /\ a.f < HiddenBit(Double)
  THEN Raised(DiyFp(2 * a.f, a.e - 1)) ELSE a

AsDouble(diy) ==
  LET cut == Cut(diy)
      a   == Raised(cut)
  IN  IF cut.e >= MaxExponent(Double) THEN Infinity(Double)
      ELSE IF cut.e < DenormalExponent(Double) THEN 0
      ELSE IF a.e = DenormalExponent(Double) /\ a.f < HiddenBit(Double) THEN a.f
      ELSE (a.f % HiddenBit(Double)) + (a.e + ExponentBias(Double)) * HiddenBit(Double)

\* The double that has the value of a single, and the single that has that of v.
FloatToDouble(s) ==
  IF s = Infinity(Single) THEN Infinity(Double) ELSE AsDouble(AsDiyFp(Single, s))

InSingle(v) == CHOOSE s \in 0 .. Infinity(Single) - 1 : FloatToDouble(s) = v

-----------------------------------------------------------------------------
(* Powers of ten *)

\* n / log2(10), rounded up; for the small n that there are.
CeilLog10(n) == -((-(n * 30103)) \div 100000)

\* Of the cached powers, of which every Distance-th is there, the first whose
\* exponent is no smaller than that.
GetCachedPowerForBinaryExponentRange(minExponent) ==
  LET k == CeilLog10(minExponent + Q - 1)
  IN  CachedPowers[((k - CachedPowers[1].decimal - 1) \div Distance) + 2]

\* The last that is no larger than a power of ten.
GetCachedPowerForDecimalExponent(requested) ==
  CachedPowers[((requested - CachedPowers[1].decimal) \div Distance) + 1]

PowerOf(cached) == DiyFp(cached.f, cached.e)

-----------------------------------------------------------------------------
(* Digits in a buffer *)

AtLeastNone(n) == IF n > 0 THEN n ELSE 0

WithLast(buffer, by) == Append(Front(buffer), Last(buffer) + by)

\* A carry out of digits that have become 10; that of the first digit is left.
RECURSIVE Carried(_)
Carried(buffer) ==
  LET tens == {i \in 2 .. Len(buffer) : buffer[i] = 10}
      i    == Max(tens)
  IN  IF tens # {} THEN Carried([buffer EXCEPT ![i] = 0, ![i - 1] = @ + 1])
      ELSE buffer

-----------------------------------------------------------------------------
(* Exact decimals, to say what is right: a number is digits * 10^exponent  *)

Up(base, n) == IF n > 0 THEN base ^ n ELSE 1

\* The sign of d * 10^x less f * 2^e.
DecimalLess(d, x, a) ==
  d * Up(10, x) * Up(2, -a.e) - a.f * Up(2, a.e) * Up(10, -x)

\* d * 10^x rounds to v: it lies between the boundaries, or on one if v is even.
RoundsTo(format, d, x, v) ==
  LET upper == DecimalLess(d, x, UpperBoundary(format, v))
      lower == DecimalLess(d, x,
                 IF LowerBoundaryIsCloser(format, v)
                 THEN DiyFp(4 * Significand(format, v) - 1, Exponent(format, v) - 2)
                 ELSE DiyFp(2 * Significand(format, v) - 1, Exponent(format, v) - 1))
      even  == v % 2 = 0
  IN  /\ upper < 0 \/ (even /\ upper = 0)
      /\ lower > 0 \/ (even /\ lower = 0)

\* The distance of d * 10^x from v, comparable for one x and v.
Distant(format, d, x, v) ==
  LET gap == DecimalLess(d, x, AsDiyFp(format, v)) IN IF gap < 0 THEN -gap ELSE gap

\* d * 10^x rounds to v, no shorter decimal does, and none as long is closer.
IsShortest(format, d, x, v) ==
  /\ RoundsTo(format, d, x, v)
  /\ \A s \in {d \div 10, d \div 10 + 1} : ~RoundsTo(format, s, x + 1, v)
  /\ \A o \in {d - 1, d + 1} :
       RoundsTo(format, o, x, v) => Distant(format, d, x, v) <= Distant(format, o, x, v)

\* d * 10^x is v to within half of 10^x, and the larger of two such.
IsRounded(d, x, v) ==
  /\ DecimalLess(2 * d + 1, x, DiyFp(2 * Significand(Double, v), Exponent(Double, v))) > 0
  /\ DecimalLess(2 * d - 1, x, DiyFp(2 * Significand(Double, v), Exponent(Double, v))) <= 0

DigitsValue(digits) == FoldLeft(LAMBDA n, d : 10 * n + d, 0, digits)

=============================================================================
