INIT NumberInit
NEXT NumberNext
CONSTANTS
 Double <- DoubleFormat
 Single <- SingleFormat
 Q = 12
 Distance = 2
 CachedPowers <- ScaledPowers
 MinimalTarget <- MinusEight
 MaximalTarget <- MinusOne
 Word = 14
 DivisorPower = 4
 MaxFixedExponent = 9
 MaxFractionalCount = 4
 MaxExactDigits = 1
 ExactPowers = 3
 MaxUint64DecimalDigits = 3
 MaxDecimalPower = 5
 MinDecimalPower <- MinusSeven
 MaxSignificantDecimalDigits = 20
 MaxSignificantDigits = 19
 MaxExponentRead = 107
 FirstNonFixed = 991
 MaxFixedDigits = 5
 MaxExponentialDigits = 5
 MaxPrecisionDigits = 5
INVARIANTS WritesRight ReadsRight
\* A number has been read back.
CHECK_DEADLOCK FALSE
