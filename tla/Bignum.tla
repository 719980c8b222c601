------------------------------- MODULE Bignum -------------------------------
(***************************************************************************)
(* The large integers of util/double-conversion/bignum.cc: a buffer of     *)
(* bigits, least significant first, of which the first used are in use,    *)
(* times a power of the base.  Bigits are smaller than the chunks they are *)
(* kept in, and sums are taken in chunks that wrap round.                  *)
(*                                                                         *)
(* The widths are parameters in the proportions of the code (28 bits in    *)
(* chunks of 32, with double chunks of 64).  Two numbers and what they     *)
(* should be are taken through any sequence of operations.                 *)
(***************************************************************************)
EXTENDS Integers, Sequences, FiniteSets, SequencesExt, FiniteSetsExt

CONSTANTS BigitSize, ChunkSize,   \* kBigitSize, kChunkSize
          Capacity,               \* kBigitCapacity
          DecimalDigits,          \* kMaxUint64DecimalDigits
          FivesInDouble, FivesInChunk,  \* powers of five that fit, 27 and 13 in the code
          Operands, Strings,      \* what is assigned, added and multiplied
          MaxValue, MaxOperations \* bounds of a run

VARIABLES number,                 \* the two Bignums
          exact,                  \* the integers they stand for
          quotient, exactQuotient,\* what the last division returned
          operations              \* how many operations there have been

bignumVars == <<number, exact, quotient, exactQuotient, operations>>

Base == 2 ^ BigitSize
Chunk(n) == n % 2 ^ ChunkSize
DoubleChunk(n) == n % 2 ^ (2 * ChunkSize)

\* The indices from m up to but not including n.
Between(m, n) == [i \in 1 .. (IF n > m THEN n - m ELSE 0) |-> m + i - 1]

Zero == [bigits |-> [i \in 0 .. Capacity - 1 |-> 0], used |-> 0, exponent |-> 0]

BigitLength(x) == x.used + x.exponent

IsClamped(x) == x.used = 0 \/ x.bigits[x.used - 1] # 0

Clamp(x) ==
  LET used == Max({0} \union {u \in 1 .. x.used : x.bigits[u - 1] # 0})
  IN  [x EXCEPT !.used = used, !.exponent = IF used = 0 THEN 0 ELSE @]

-----------------------------------------------------------------------------
(* Assigning *)

AssignUInt16(value) ==
  IF value = 0 THEN Zero ELSE [Zero EXCEPT !.bigits[0] = value, !.used = 1]

\* As many bigits as a double chunk may need.
AssignUInt64(value) ==
  LET needed == ((2 * ChunkSize) \div BigitSize) + 1
  IN  Clamp([Zero EXCEPT
        !.bigits = [i \in DOMAIN @ |->
                      IF i < needed THEN (value \div Base ^ i) % Base ELSE 0],
        !.used = needed])

\* AssignBignum: the bigits of x that other does not have become 0.
AssignBignum(x, other) ==
  [other EXCEPT !.bigits =
     [i \in DOMAIN @ |-> IF i < other.used THEN @[i]
                         ELSE IF i < x.used THEN 0 ELSE x.bigits[i]]]

-----------------------------------------------------------------------------
(* Adding and subtracting *)

\* Align: x with an exponent no larger than that of other.
Align(x, other) ==
  LET zeros == x.exponent - other.exponent
  IN  IF zeros <= 0 THEN x
      ELSE [bigits   |-> [i \in DOMAIN x.bigits |->
                            IF i < zeros THEN 0
                            ELSE IF i < x.used + zeros THEN x.bigits[i - zeros]
                            ELSE x.bigits[i]],
            used     |-> x.used + zeros,
            exponent |-> other.exponent]

AddBignum(x, other) ==
  LET a     == Align(x, other)
      shift == other.exponent - a.exponent
      Add(acc, i) ==
        LET j   == i - shift
            sum == Chunk(acc.x.bigits[i] + (IF j < other.used THEN other.bigits[j] ELSE 0)
                         + acc.carry)
        IN  IF j >= other.used /\ acc.carry = 0 THEN acc
            ELSE [x |-> [acc.x EXCEPT !.bigits[i] = sum % Base],
                  carry |-> sum \div Base, pos |-> i + 1]
      done  == FoldLeft(Add, [x |-> a, carry |-> 0, pos |-> shift], Between(shift, Capacity))
  IN  [done.x EXCEPT !.used = Max({done.pos, @})]

AddUInt64(x, operand) ==
  IF operand = 0 THEN x ELSE AddBignum(x, AssignUInt64(operand))

\* The borrow of a difference is its sign bit in a chunk.
BorrowOf(difference) == Chunk(difference) \div 2 ^ (ChunkSize - 1)

SubtractBignum(x, other) ==
  LET a     == Align(x, other)
      shift == other.exponent - a.exponent
      Subtract(acc, i) ==
        LET j    == i - shift
            diff == acc.x.bigits[i] - (IF j < other.used THEN other.bigits[j] ELSE 0)
                    - acc.borrow
        IN  IF j >= other.used /\ acc.borrow = 0 THEN acc
            ELSE [x |-> [acc.x EXCEPT !.bigits[i] = Chunk(diff) % Base],
                  borrow |-> BorrowOf(diff)]
  IN  Clamp(FoldLeft(Subtract, [x |-> a, borrow |-> 0], Between(shift, Capacity)).x)

\* SubtractTimes; the loop over the bigits that other does not reach steps over
\* every second one, and one with nothing to borrow leaves without a Clamp.
SubtractTimes(x, other, factor) ==
  LET shift == other.exponent - x.exponent
      end   == other.used + shift
      Few(y, i) == SubtractBignum(y, other)
      TakeAway(acc, i) ==
        LET remove == DoubleChunk(acc.borrow + factor * other.bigits[i])
            diff   == acc.x.bigits[i + shift] - (remove % Base)
        IN  [x |-> [acc.x EXCEPT !.bigits[i + shift] = Chunk(diff) % Base],
             borrow |-> Chunk(BorrowOf(diff) + (remove \div Base)), left |-> FALSE]
      Borrow(acc, i) ==
        LET diff == acc.x.bigits[i] - acc.borrow
        IN  IF acc.left \/ (i - end) % 2 = 1 THEN acc
            ELSE IF acc.borrow = 0 THEN [acc EXCEPT !.left = TRUE]
            ELSE [x |-> [acc.x EXCEPT !.bigits[i] = Chunk(diff) % Base],
                  borrow |-> BorrowOf(diff), left |-> FALSE]
      removed == FoldLeft(TakeAway, [x |-> x, borrow |-> 0, left |-> FALSE],
                          Between(0, other.used))
      done    == FoldLeft(Borrow, removed, Between(end, x.used))
  IN  IF factor < 3 THEN FoldLeft(Few, x, Between(0, factor))
      ELSE IF done.left THEN done.x ELSE Clamp(done.x)

-----------------------------------------------------------------------------
(* Shifting and multiplying *)

\* The carry that is left goes into bigits of its own, while there is any.
WithCarry(x, carry) ==
  LET Put(acc, i) ==
        IF acc.carry = 0 THEN acc
        ELSE [x |-> [acc.x EXCEPT !.bigits[i] = acc.carry % Base, !.used = i + 1],
              carry |-> acc.carry \div Base]
  IN  FoldLeft(Put, [x |-> x, carry |-> carry], Between(x.used, Capacity)).x

BigitsShiftLeft(x, amount) ==
  LET Shift(acc, i) ==
        [x |-> [acc.x EXCEPT !.bigits[i] = Chunk((@ * 2 ^ amount) + acc.carry) % Base],
         carry |-> acc.x.bigits[i] \div 2 ^ (BigitSize - amount)]
      done == FoldLeft(Shift, [x |-> x, carry |-> 0], Between(0, x.used))
  IN  WithCarry(done.x, done.carry)

ShiftLeft(x, amount) ==
  IF x.used = 0 THEN x
  ELSE BigitsShiftLeft([x EXCEPT !.exponent = @ + (amount \div BigitSize)], amount % BigitSize)

MultiplyByUInt32(x, factor) ==
  LET Multiply(acc, i) ==
        LET product == DoubleChunk(factor * acc.x.bigits[i] + acc.carry)
        IN  [x |-> [acc.x EXCEPT !.bigits[i] = product % Base], carry |-> product \div Base]
      done == FoldLeft(Multiply, [x |-> x, carry |-> 0], Between(0, x.used))
  IN  IF factor = 1 THEN x
      ELSE IF factor = 0 THEN Zero
      ELSE WithCarry(done.x, done.carry)

\* Mutant: the high half of the factor is not shifted all the way.
HighShiftLess == ChunkSize - BigitSize - 1

\* The high half of the factor counts for ChunkSize bits, one bigit less of
\* which goes to the next bigit.
HighShift == ChunkSize - BigitSize

MultiplyByUInt64(x, factor) ==
  LET low  == factor % 2 ^ ChunkSize
      high == factor \div 2 ^ ChunkSize
      Multiply(acc, i) ==
        LET tmp == DoubleChunk((acc.carry % Base) + low * acc.x.bigits[i])
        IN  [x |-> [acc.x EXCEPT !.bigits[i] = tmp % Base],
             carry |-> DoubleChunk((acc.carry \div Base) + (tmp \div Base)
                         + DoubleChunk(high * acc.x.bigits[i] * 2 ^ HighShift))]
      done == FoldLeft(Multiply, [x |-> x, carry |-> 0], Between(0, x.used))
  IN  IF factor = 1 THEN x
      ELSE IF factor = 0 THEN Zero
      ELSE WithCarry(done.x, done.carry)

\* By powers of five that fit in a double chunk, in a chunk and what is left,
\* and a shift.
MultiplyByPowerOfTen(x, exponent) ==
  LET rest     == exponent % FivesInDouble
      last     == rest % FivesInChunk
      Double(y, i) == MultiplyByUInt64(y, 5 ^ FivesInDouble)
      Single(y, i) == MultiplyByUInt32(y, 5 ^ FivesInChunk)
      doubled  == FoldLeft(Double, x, Between(0, exponent \div FivesInDouble))
      singled  == FoldLeft(Single, doubled, Between(0, rest \div FivesInChunk))
  IN  IF exponent = 0 \/ x.used = 0 THEN x
      ELSE ShiftLeft(IF last = 0 THEN singled ELSE MultiplyByUInt32(singled, 5 ^ last),
                     exponent)

\* Square, a column at a time: the products of the bigits whose indices add up
\* to that of the column, read from a copy behind the result.
Square(x) ==
  LET Column(i) ==
        FoldLeft(LAMBDA sum, j : sum + x.bigits[j] * x.bigits[i - j], 0,
                 SelectSeq(Between(0, x.used), LAMBDA j : i - j >= 0 /\ i - j < x.used))
      Put(acc, i) ==
        LET sum == DoubleChunk(acc.sum + Column(i))
        IN  [x |-> [acc.x EXCEPT !.bigits[i] = Chunk(sum) % Base], sum |-> sum \div Base]
      done == FoldLeft(Put, [x |-> x, sum |-> 0], Between(0, 2 * x.used))
  IN  Clamp([done.x EXCEPT !.used = 2 * x.used, !.exponent = 2 * @])

\* The number of factors two of a base, and its length in bits without them.
TwosOf(base) == CHOOSE n \in 0 .. base : base % 2 ^ n = 0 /\ base % 2 ^ (n + 1) # 0

BitsOf(n) == CHOOSE b \in 1 .. ChunkSize : 2 ^ (b - 1) <= n /\ n < 2 ^ b

\* The bits of the exponent after the first, most significant first.
BitsAfterFirst(power) ==
  LET bits == BitsOf(power) - 1
  IN  [i \in 1 .. bits |-> (power \div 2 ^ (bits - i)) % 2]

\* AssignPowerUInt16: square and multiply, in a machine word as long as its
\* square fits; a factor for which there is no room then is made up for later.
AssignPowerUInt16(base, power) ==
  LET odd  == base \div 2 ^ TwosOf(base)
      InWord(acc, bit) ==
        LET squared == acc.word * acc.word
            fits    == squared < 2 ^ (2 * ChunkSize - BitsOf(odd))
        IN  IF acc.word >= 2 ^ ChunkSize
            THEN [acc EXCEPT !.rest = Append(@, bit)]
            ELSE [word    |-> IF bit = 1 /\ fits THEN squared * odd ELSE squared,
                  delayed |-> acc.delayed \/ (bit = 1 /\ ~fits),
                  rest    |-> <<>>]
      AsBignum(y, bit) ==
        IF bit = 1 THEN MultiplyByUInt32(Square(y), odd) ELSE Square(y)
      word == FoldLeft(InWord, [word |-> odd, delayed |-> FALSE, rest |-> <<>>],
                       BitsAfterFirst(power))
      start == IF word.delayed THEN MultiplyByUInt32(AssignUInt64(word.word), odd)
               ELSE AssignUInt64(word.word)
  IN  IF power = 0 THEN AssignUInt16(1)
      ELSE ShiftLeft(FoldLeft(AsBignum, start, word.rest), TwosOf(base) * power)

-----------------------------------------------------------------------------
(* Strings of digits *)

ReadUInt64(digits) == FoldLeft(LAMBDA n, d : 10 * n + d, 0, digits)

\* As many digits at a time as fit in a double chunk.
AssignDecimalString(digits) ==
  LET whole == Len(digits) \div DecimalDigits
      Part(i) == SubSeq(digits, i * DecimalDigits + 1,
                        IF i < whole THEN (i + 1) * DecimalDigits ELSE Len(digits))
      Take(y, i) == AddUInt64(MultiplyByPowerOfTen(y, Len(Part(i))), ReadUInt64(Part(i)))
  IN  Clamp(FoldLeft(Take, Zero, Between(0, whole + 1)))

PerBigit == BigitSize \div 4

\* Whole bigits from the end, and one with the digits that are left.
AssignHexString(digits) ==
  LET whole == (4 * Len(digits)) \div BigitSize
      Hex(ds) == FoldLeft(LAMBDA n, d : 16 * n + d, 0, ds)
      Bigit(i) == Hex(SubSeq(digits, Max({1, Len(digits) - (i + 1) * PerBigit + 1}),
                             Len(digits) - i * PerBigit))
  IN  Clamp([Zero EXCEPT
        !.bigits = [i \in DOMAIN @ |-> IF i <= whole THEN Bigit(i) ELSE 0],
        !.used = IF Bigit(whole) = 0 THEN whole ELSE whole + 1])

SizeInHexChars(n) == Cardinality({i \in 0 .. PerBigit : n >= 16 ^ i})

\* ToHexString; false when the buffer is too small, with its final zero.
NeededChars(x) ==
  IF x.used = 0 THEN 2
  ELSE (BigitLength(x) - 1) * PerBigit + SizeInHexChars(x.bigits[x.used - 1]) + 1

ToHexString(x) ==
  LET Char(i) ==    \* counted from the end
        LET bigit == i \div PerBigit
        IN  IF bigit < x.exponent THEN 0
            ELSE (x.bigits[bigit - x.exponent] \div 16 ^ (i % PerBigit)) % 16
      chars == NeededChars(x) - 1
  IN  IF x.used = 0 THEN <<0>> ELSE [i \in 1 .. chars |-> Char(chars - i)]

-----------------------------------------------------------------------------
(* Comparing and dividing *)

BigitAt(x, index) ==
  IF index >= BigitLength(x) \/ index < x.exponent THEN 0 ELSE x.bigits[index - x.exponent]

Signum(n) == IF n < 0 THEN -1 ELSE IF n > 0 THEN 1 ELSE 0

Compare(a, b) ==
  LET differing == {i \in 0 .. BigitLength(a) - 1 : BigitAt(a, i) # BigitAt(b, i)}
  IN  IF BigitLength(a) # BigitLength(b) THEN Signum(BigitLength(a) - BigitLength(b))
      ELSE IF differing = {} THEN 0
      ELSE Signum(BigitAt(a, Max(differing)) - BigitAt(b, Max(differing)))

\* PlusCompare of a + b with c, for an a that is no shorter than b: the early
\* answers, then bigits from the top, with what c is ahead by.
PlusCompareOrdered(a, b, c) ==
  LET low  == Min({a.exponent, b.exponent, c.exponent})
      high == BigitLength(c) - 1
      Step(acc, i) ==
        LET sum == BigitAt(a, i) + BigitAt(b, i)
            gap == Chunk(BigitAt(c, i) + acc.borrow) - sum
        IN  IF acc.answer # 0 THEN acc
            ELSE IF gap < 0 THEN [acc EXCEPT !.answer = 1]
            ELSE IF gap > 1 THEN [acc EXCEPT !.answer = -1]
            ELSE [acc EXCEPT !.borrow = gap * Base]
      done == FoldLeft(Step, [answer |-> 0, borrow |-> 0],
                       Reverse(Between(low, high + 1)))
  IN  IF BigitLength(a) + 1 < BigitLength(c) THEN -1
      ELSE IF BigitLength(a) > BigitLength(c) THEN 1
      ELSE IF a.exponent >= BigitLength(b) /\ BigitLength(a) < BigitLength(c) THEN -1
      ELSE IF done.answer # 0 THEN done.answer
      ELSE IF done.borrow = 0 THEN 0 ELSE -1

PlusCompare(a, b, c) ==
  IF BigitLength(a) < BigitLength(b) THEN PlusCompareOrdered(b, a, c)
  ELSE PlusCompareOrdered(a, b, c)

\* The first loop of DivideModuloIntBignum: multiples of other go off the top
\* bigit until both are of the same length.
RECURSIVE TopRemoved(_, _)
TopRemoved(acc, other) ==
  IF BigitLength(acc.x) <= BigitLength(other) THEN acc
  ELSE LET top == acc.x.bigits[acc.x.used - 1]
       IN  TopRemoved([x |-> SubtractTimes(acc.x, other, top), result |-> acc.result + top],
                      other)

\* The last loop.
RECURSIVE Subtracted(_, _)
Subtracted(acc, other) ==
  IF Compare(other, acc.x) > 0 THEN acc
  ELSE Subtracted([x |-> SubtractBignum(acc.x, other), result |-> acc.result + 1], other)

DivideModuloIntBignum(x, other) ==
  LET top      == TopRemoved([x |-> Align(x, other), result |-> 0], other)
      this     == top.x.bigits[top.x.used - 1]
      that     == other.bigits[other.used - 1]
      estimate == this \div (that + 1)
      reduced  == [x |-> SubtractTimes(top.x, other, estimate),
                   result |-> top.result + estimate]
  IN  IF BigitLength(x) < BigitLength(other) THEN [x |-> x, result |-> 0]
      ELSE IF other.used = 1
      THEN [x |-> Clamp([top.x EXCEPT !.bigits[top.x.used - 1] = this % that]),
            result |-> top.result + (this \div that)]
      ELSE IF that * (estimate + 1) > this THEN reduced
      ELSE Subtracted(reduced, other)

-----------------------------------------------------------------------------
(* Sequences of operations *)

Names == {"x", "y"}

The(n) == number[n]

OtherName(n) == IF n = "x" THEN "y" ELSE "x"

Fits(value) == 0 <= value /\ value < MaxValue

BignumInit ==
  /\ number = [n \in Names |-> Zero]
  /\ exact = [n \in Names |-> 0]
  /\ quotient = 0
  /\ exactQuotient = 0
  /\ operations = 0

Becomes(n, bignum, value) ==
  /\ operations < MaxOperations
  /\ Fits(value)
  /\ number' = [number EXCEPT ![n] = bignum]
  /\ exact' = [exact EXCEPT ![n] = value]
  /\ operations' = operations + 1

NoDivision == UNCHANGED <<quotient, exactQuotient>>

Assign(n) ==
  /\ NoDivision
  /\ \/ \E v \in Operands : Becomes(n, AssignUInt64(v), v)
     \/ \E v \in Operands : v < Base /\ Becomes(n, AssignUInt16(v), v)
     \/ \E b \in {2, 5, 10}, k \in 0 .. 7 :
          b ^ k < MaxValue /\ Becomes(n, AssignPowerUInt16(b, k), b ^ k)
     \/ Becomes(n, AssignBignum(The(n), The(OtherName(n))), exact[OtherName(n)])

AssignString(n) ==
  /\ NoDivision
  /\ \E s \in Strings :
       \/ Becomes(n, AssignDecimalString(s), FoldLeft(LAMBDA v, d : 10 * v + d, 0, s))
       \/ Becomes(n, AssignHexString(s), FoldLeft(LAMBDA v, d : 16 * v + d, 0, s))

Add(n) ==
  /\ NoDivision
  /\ \/ Becomes(n, AddBignum(The(n), The(OtherName(n))), exact[n] + exact[OtherName(n)])
     \/ \E v \in Operands : Becomes(n, AddUInt64(The(n), v), exact[n] + v)

Subtract(n) ==
  /\ NoDivision
  /\ exact[n] >= exact[OtherName(n)]
  /\ Becomes(n, SubtractBignum(The(n), The(OtherName(n))), exact[n] - exact[OtherName(n)])

Shift(n) ==
  /\ NoDivision
  /\ \E k \in 1 .. BigitSize + 1 :
       exact[n] < MaxValue \div 2 ^ k /\ Becomes(n, ShiftLeft(The(n), k), exact[n] * 2 ^ k)

Multiply(n) ==
  /\ NoDivision
  /\ \/ \E f \in Operands :
          /\ IF f = 0 THEN TRUE ELSE exact[n] < MaxValue \div f
          /\ \/ f < 2 ^ ChunkSize /\ Becomes(n, MultiplyByUInt32(The(n), f), exact[n] * f)
             \/ Becomes(n, MultiplyByUInt64(The(n), f), exact[n] * f)
     \/ \E k \in 0 .. 7 :
          /\ exact[n] < MaxValue \div 10 ^ k
          /\ Becomes(n, MultiplyByPowerOfTen(The(n), k), exact[n] * 10 ^ k)
     \/ /\ exact[n] < MaxValue \div Max({1, exact[n]})
        /\ Becomes(n, Square(The(n)), exact[n] * exact[n])

\* The divisions of the program have quotients of one digit.
Divide(n) ==
  LET by       == exact[OtherName(n)]
      division == DivideModuloIntBignum(The(n), The(OtherName(n)))
  IN  /\ by > 0 /\ exact[n] \div by < 10
      /\ Becomes(n, division.x, exact[n] % by)
      /\ quotient' = division.result
      /\ exactQuotient' = exact[n] \div by

BignumNext ==
  \E n \in Names :
    Assign(n) \/ AssignString(n) \/ Add(n) \/ Subtract(n) \/ Shift(n) \/ Multiply(n) \/ Divide(n)

-----------------------------------------------------------------------------
\* The integer that a Bignum stands for.
ValueOf(x) ==
  FoldLeft(LAMBDA sum, i : sum + x.bigits[i] * Base ^ (i + x.exponent), 0,
           Between(0, x.used))

(***************************************************************************)
(* Whatever is done with Bignums, they are the integers they stand for:    *)
(* no carry is lost where words wrap round, the bigits beyond those in use *)
(* stay 0, as AddBignum relies on, and every comparison and quotient is    *)
(* that of the integers (bignum.cc).                                       *)
(***************************************************************************)
BignumIsExact ==
  /\ quotient = exactQuotient
  /\ \A n \in Names :
       LET x == The(n)
       IN  /\ ValueOf(x) = exact[n] /\ IsClamped(x)
           /\ \A i \in x.used .. Capacity - 1 : x.bigits[i] = 0
           /\ FoldLeft(LAMBDA v, d : 16 * v + d, 0, ToHexString(x)) = exact[n]
           /\ Compare(x, The(OtherName(n))) = Signum(exact[n] - exact[OtherName(n)])
           /\ \A m \in Names :
                PlusCompare(x, x, The(m)) = Signum(2 * exact[n] - exact[m])
  /\ PlusCompare(The("x"), The("y"), The("x")) = Signum(exact["y"])
  /\ \A v \in Operands :
       PlusCompare(The("x"), The("y"), AssignUInt64(v))
         = Signum(exact["x"] + exact["y"] - v)

=============================================================================
