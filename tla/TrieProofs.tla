----------------------------- MODULE TrieProofs -----------------------------
(***************************************************************************)
(* Lemmas about Trie, for words of any set: a lookup comes to a node if and*)
(* only if it is that of the words looked up, and adding a node leaves     *)
(* those that were there with their words and their values.                *)
(***************************************************************************)
EXTENDS Trie, Maps, TLAPS, SequenceTheorems, WellFoundedInduction

-----------------------------------------------------------------------------
(* Maps *)

LEMMA OnlyIs ==
  \A key, entry, k : /\ k \in DOMAIN Only(key, entry) <=> k = key
                     /\ Only(key, entry)[key] = entry
BY DEF Only

LEMMA OverIs ==
  \A f, g, k : /\ k \in DOMAIN (f ++ g) <=> k \in DOMAIN f \/ k \in DOMAIN g
               /\ k \in DOMAIN f => (f ++ g)[k] = f[k]
               /\ k \in DOMAIN g /\ k \notin DOMAIN f => (f ++ g)[k] = g[k]
BY DEF ++

LEMMA OnlyIsMap ==
  ASSUME NEW V, NEW key, NEW entry \in V
  PROVE  Only(key, entry) \in [{key} -> V]
BY DEF Only

LEMMA OverIsMap ==
  ASSUME NEW V, NEW S, NEW T, NEW f \in [S -> V], NEW g \in [T -> V]
  PROVE  f ++ g \in [S \union T -> V]
BY DEF ++

-----------------------------------------------------------------------------
(* Definitions by recursion on the naturals up to a bound. *)

\* Every nonempty set of naturals has a least element.
LEMMA LeastNatural ==
  ASSUME NEW S \in SUBSET Nat, S # {}
  PROVE  \E x \in S : \A y \in S : x <= y
<1> DEFINE R == {ss \in Nat \X Nat : ss[1] < ss[2]}
<1>1. IsWellFoundedOn(R, Nat)
  BY NatLessThanWellFounded DEF OpToRel
<1>2. PICK x \in S : \A y \in S : ~ (<<y, x>> \in R)
  BY <1>1, WFMin
<1>3. ASSUME NEW y \in S
      PROVE  x <= y
  <2>1. <<y, x>> \in Nat \X Nat /\ <<y, x>> \notin R
    BY <1>2
  <2>2. ~ (<<y, x>>[1] < <<y, x>>[2])
    BY <2>1
  <2> QED  BY <2>2
<1> QED  BY <1>3

LEMMA UpTo ==
  ASSUME NEW n \in Nat, NEW good, 0 \in good,
         \A k \in 1 .. n : k - 1 \in good => k \in good
  PROVE  \A k \in 0 .. n : k \in good
<1> DEFINE bad == {k \in 0 .. n : k \notin good}
<1>1. ASSUME bad # {}
      PROVE  FALSE
  <2>1. bad \in SUBSET Nat
    OBVIOUS
  <2>2. PICK k \in bad : \A y \in bad : k <= y
    <3> HIDE DEF bad
    <3> QED  BY <1>1, <2>1, LeastNatural
  <2>3. k \in 1 .. n /\ k - 1 \in 0 .. n
    BY <2>2
  <2>4. k - 1 \notin bad
    BY <2>2, <2>3
  <2> QED  BY <2>2, <2>3, <2>4
<1> QED  BY <1>1

\* step[k] makes of the value for k - 1 the value for k.
IsRecursion(f, n, start, step) ==
  f = [k \in 0 .. n |-> IF k = 0 THEN start ELSE step[k][f[k - 1]]]

LEMMA RecursionExists ==
  ASSUME NEW n \in Nat, NEW X, NEW start \in X, NEW step,
         \A k \in 1 .. n : \A x \in X : step[k][x] \in X
  PROVE  \E f \in [0 .. n -> X] : IsRecursion(f, n, start, step)
<1> DEFINE good == {m \in Nat : m <= n => \E f \in [0 .. m -> X] : IsRecursion(f, m, start, step)}
<1>1. 0 \in good
  <2>1. IsRecursion([k \in 0 .. 0 |-> start], 0, start, step)
    BY DEF IsRecursion
  <2> QED  BY <2>1
<1>2. ASSUME NEW m \in 1 .. n, m - 1 \in good
      PROVE  m \in good
  <2>1. PICK g \in [0 .. m - 1 -> X] : IsRecursion(g, m - 1, start, step)
    BY <1>2
  <2> DEFINE f == [k \in 0 .. m |-> IF k = m THEN step[m][g[m - 1]] ELSE g[k]]
  <2>2. \A k \in 0 .. m - 1 : f[k] = g[k] /\ g[k] \in X
    BY <2>1
  <2>3. f[m] = step[m][f[m - 1]] /\ f[m] \in X
    BY <2>2
  <2>4. \A k \in 0 .. m : f[k] = IF k = 0 THEN start ELSE step[k][f[k - 1]]
    <3> SUFFICES ASSUME NEW k \in 0 .. m
                 PROVE  f[k] = IF k = 0 THEN start ELSE step[k][f[k - 1]]
      OBVIOUS
    <3>1. CASE k = m
      BY <2>3, <3>1
    <3>2. CASE k # m
      <4>1. k \in 0 .. m - 1 /\ (k # 0 => k - 1 \in 0 .. m - 1)
        BY <3>2
      <4>2. g[k] = IF k = 0 THEN start ELSE step[k][g[k - 1]]
        BY <2>1, <4>1 DEF IsRecursion
      <4> QED  BY <2>2, <4>1, <4>2
    <3> QED  BY <3>1, <3>2
  <2>5. DOMAIN f = 0 .. m /\ f = [k \in 0 .. m |-> f[k]]
    OBVIOUS
  <2>6. \A k \in 0 .. m : f[k] \in X
    BY <2>2, <2>3
  <2> HIDE DEF f
  <2>7. f \in [0 .. m -> X]
    BY <2>5, <2>6
  <2>8. IsRecursion(f, m, start, step)
    BY <2>4, <2>5 DEF IsRecursion
  <2> QED  BY <2>7, <2>8
<1>3. \A k \in 0 .. n : k \in good
  <2> HIDE DEF good
  <2> QED  BY <1>1, <1>2, UpTo
<1>4. n \in good
  BY <1>3
<1> QED  BY <1>4

-----------------------------------------------------------------------------
(* Sequences, one after the other. *)

\* The first sequences, one after the other.
AreJoined(f, seqs) ==
  /\ f[1] = seqs[1]
  /\ \A n \in 2 .. Len(seqs) : f[n] = f[n - 1] \o seqs[n]

LEMMA Joined ==
  ASSUME NEW S, NEW seqs \in Seq(Seq(S)), Len(seqs) > 0
  PROVE  \E f : /\ AreJoined(f, seqs)
                /\ \A n \in 1 .. Len(seqs) : f[n] \in Seq(S)
                /\ FlattenSeq(seqs) = f[Len(seqs)]
<1> DEFINE N == Len(seqs)
           IsFlat(f) == f = [n \in 1 .. N |-> IF n = 1 THEN seqs[n] ELSE f[n - 1] \o seqs[n]]
           step == [n \in 1 .. N - 1 |-> [x \in Seq(S) |-> x \o seqs[n + 1]]]
           flat == CHOOSE f : IsFlat(f)
<1>1. N \in Nat \ {0} /\ \A n \in 1 .. N : seqs[n] \in Seq(S)
  OBVIOUS
<1>2. FlattenSeq(seqs) = flat[N]
  BY <1>1 DEF FlattenSeq
<1> HIDE DEF N
<1>3. IsFlat(flat)
  <2>1. \A n \in 1 .. N - 1 : \A x \in Seq(S) : step[n][x] \in Seq(S)
    <3> SUFFICES ASSUME NEW n \in 1 .. N - 1, NEW x \in Seq(S)
                 PROVE  step[n][x] \in Seq(S)
      OBVIOUS
    <3>1. seqs[n + 1] \in Seq(S)
      BY <1>1
    <3>2. x \o seqs[n + 1] \in Seq(S)
      BY <3>1
    <3> QED  BY <3>2
  <2>2. PICK g \in [0 .. N - 1 -> Seq(S)] : IsRecursion(g, N - 1, seqs[1], step)
    <3> DEFINE X == Seq(S)
               M == N - 1
    <3>1. M \in Nat /\ seqs[1] \in X /\ \A n \in 1 .. M : \A x \in X : step[n][x] \in X
      BY <1>1, <2>1
    <3> HIDE DEF X, M, step
    <3>2. \E g \in [0 .. M -> X] : IsRecursion(g, M, seqs[1], step)
      BY <3>1, RecursionExists
    <3> QED  BY <3>2 DEF X, M
  <2> DEFINE f == [n \in 1 .. N |-> g[n - 1]]
  <2>3. ASSUME NEW n \in 1 .. N
        PROVE  f[n] = IF n = 1 THEN seqs[n] ELSE f[n - 1] \o seqs[n]
    <3>1. n - 1 \in 0 .. N - 1
      BY <1>1
    <3>2. g[n - 1] = IF n - 1 = 0 THEN seqs[1] ELSE step[n - 1][g[n - 1 - 1]]
      BY <2>2, <3>1 DEF IsRecursion
    <3>3. CASE n = 1
      BY <3>2, <3>3
    <3>4. CASE n # 1
      <4>1. n - 1 \in 1 .. N /\ n - 1 \in 1 .. N - 1 /\ n - 1 + 1 = n /\ n - 1 - 1 \in 0 .. N - 1
        BY <1>1, <3>4
      <4>2. g[n - 1 - 1] \in Seq(S)
        BY <2>2, <4>1
      <4>3. step[n - 1][g[n - 1 - 1]] = g[n - 1 - 1] \o seqs[n]
        BY <4>1, <4>2
      <4>4. f[n] = g[n - 1] /\ f[n - 1] = g[n - 1 - 1]
        BY <4>1
      <4>5. g[n - 1] = g[n - 1 - 1] \o seqs[n]
        <5>1. n - 1 # 0
          BY <4>1
        <5> HIDE DEF step
        <5> QED  BY <3>2, <4>3, <5>1
      <4> HIDE DEF f
      <4> QED  BY <3>4, <4>4, <4>5
    <3> QED  BY <3>3, <3>4
  <2>4. f = [n \in 1 .. N |-> f[n]]
    OBVIOUS
  <2> HIDE DEF f
  <2>5. IsFlat(f)
    BY <2>3, <2>4
  <2> HIDE DEF IsFlat
  <2> QED  BY <2>5
<1> HIDE DEF flat
<1>4. flat[1] = seqs[1] /\ \A n \in 2 .. N : flat[n] = flat[n - 1] \o seqs[n]
  <2>1. 1 \in 1 .. N /\ \A n \in 2 .. N : n \in 1 .. N /\ n # 1
    BY <1>1
  <2> QED  BY <1>3, <2>1
<1> DEFINE good == {n \in 0 .. N : n # 0 => flat[n] \in Seq(S)}
<1>5. 0 \in good
  BY <1>1
<1>6. ASSUME NEW n \in 1 .. N, n - 1 \in good
      PROVE  n \in good
  <2>1. CASE n = 1
    BY <1>1, <1>4, <2>1
  <2>2. CASE n # 1
    <3>1. n \in 2 .. N /\ n \in 0 .. N /\ n - 1 # 0
      BY <1>1, <2>2
    <3>2. flat[n - 1] \in Seq(S) /\ seqs[n] \in Seq(S) /\ flat[n] = flat[n - 1] \o seqs[n]
      BY <1>1, <1>4, <1>6, <3>1
    <3>3. flat[n] \in Seq(S)
      BY <3>2
    <3> QED  BY <3>1, <3>3
  <2> QED  BY <2>1, <2>2
<1>7. \A n \in 0 .. N : n \in good
  <2> HIDE DEF good
  <2> QED  BY <1>1, <1>5, <1>6, UpTo
<1>8. \A n \in 1 .. N : flat[n] \in Seq(S)
  BY <1>1, <1>7
<1>9. AreJoined(flat, seqs)
  BY <1>4 DEF AreJoined, N
<1> QED  BY <1>2, <1>8, <1>9 DEF N

LEMMA NoneJoined ==
  FlattenSeq(<<>>) = <<>>
BY DEF FlattenSeq

\* One sequence more.
LEMMA JoinedWithOneMore ==
  ASSUME NEW S, NEW seqs \in Seq(Seq(S)), NEW x \in Seq(S)
  PROVE  /\ FlattenSeq(seqs) \in Seq(S)
         /\ FlattenSeq(Append(seqs, x)) = FlattenSeq(seqs) \o x
<1> DEFINE more == Append(seqs, x)
           N == Len(seqs)
<1>1. /\ more \in Seq(Seq(S)) /\ Len(more) = N + 1 /\ more[N + 1] = x /\ N \in Nat
      /\ \A n \in 1 .. N : more[n] = seqs[n]
  <2> DEFINE X == Seq(S)
  <2>1. seqs \in Seq(X) /\ x \in X
    OBVIOUS
  <2> HIDE DEF X
  <2>2. /\ more \in Seq(X) /\ Len(more) = N + 1 /\ more[N + 1] = x /\ N \in Nat
        /\ \A n \in 1 .. N : more[n] = seqs[n]
    BY <2>1
  <2> QED  BY <2>2 DEF X
<1> HIDE DEF more
<1>2. PICK g : /\ AreJoined(g, more)
               /\ FlattenSeq(more) = g[N + 1]
  <2>1. Len(more) > 0
    BY <1>1
  <2>2. PICK g : AreJoined(g, more) /\ FlattenSeq(more) = g[Len(more)]
    BY <1>1, <2>1, Joined
  <2> QED  BY <1>1, <2>2
<1>3. CASE N = 0
  <2>1. seqs = <<>>
    BY <1>3
  <2>2. FlattenSeq(seqs) = <<>>
    BY <2>1, NoneJoined
  <2>3. g[1] = x
    BY <1>1, <1>2, <1>3 DEF AreJoined
  <2>4. <<>> \o x = x /\ <<>> \in Seq(S)
    OBVIOUS
  <2>5. FlattenSeq(more) = x
    BY <1>2, <1>3, <2>3
  <2> QED  BY <2>2, <2>4, <2>5 DEF more
<1>4. CASE N # 0
  <2>1. PICK f : /\ AreJoined(f, seqs)
                 /\ \A n \in 1 .. N : f[n] \in Seq(S)
                 /\ FlattenSeq(seqs) = f[N]
    <3>1. Len(seqs) > 0
      BY <1>1, <1>4
    <3> QED  BY <3>1, Joined
  <2> HIDE DEF N
  <2> DEFINE good == {n \in 0 .. N : n # 0 => g[n] = f[n]}
  <2>2. 0 \in good
    BY <1>1
  <2>3. ASSUME NEW n \in 1 .. N, n - 1 \in good
        PROVE  n \in good
    <3>1. CASE n = 1
      BY <1>1, <1>2, <2>1, <3>1 DEF AreJoined
    <3>2. CASE n # 1
      <4>1. n \in 2 .. N /\ n \in 2 .. Len(more) /\ n \in 2 .. Len(seqs) /\ n \in 0 .. N /\ n - 1 # 0
        BY <1>1, <3>2 DEF N
      <4>2. g[n] = g[n - 1] \o more[n] /\ f[n] = f[n - 1] \o seqs[n]
        BY <1>2, <2>1, <4>1 DEF AreJoined
      <4> QED  BY <1>1, <2>3, <4>1, <4>2
    <3> QED  BY <3>1, <3>2
  <2>4. \A n \in 0 .. N : n \in good
    <3> HIDE DEF good
    <3> QED  BY <1>1, <2>2, <2>3, UpTo
  <2>5. g[N] = f[N] /\ N \in 1 .. N
    BY <1>1, <1>4, <2>4
  <2>6. g[N + 1] = g[N] \o x
    <3> DEFINE last == N + 1
    <3>1. last \in 2 .. Len(more) /\ last - 1 = N /\ more[last] = x
      BY <1>1, <1>4
    <3>2. g[last] = g[last - 1] \o more[last]
      <4> HIDE DEF last
      <4> QED  BY <1>2, <3>1 DEF AreJoined
    <3> QED  BY <3>1, <3>2
  <2> QED  BY <1>2, <2>1, <2>5, <2>6 DEF more
<1> QED  BY <1>3, <1>4

-----------------------------------------------------------------------------
(* Where the elements of sequences are when they are put one after the other. *)

AreOffsets(off, seqs) ==
  /\ off \in [0 .. Len(seqs) -> Nat]
  /\ off[0] = 0
  /\ \A k \in 1 .. Len(seqs) : off[k] = off[k - 1] + Len(seqs[k])

\* Each element of the first n is at its place, and there are no others.
AreAt(flat, off, seqs, n) ==
  /\ \A k \in 1 .. n : \A j \in 1 .. Len(seqs[k]) :
       off[k - 1] + j \in 1 .. off[n] /\ flat[off[k - 1] + j] = seqs[k][j]
  /\ \A i \in 1 .. off[n] : \E k \in 1 .. n : \E j \in 1 .. Len(seqs[k]) : i = off[k - 1] + j

LEMMA ConcatenationIs ==
  ASSUME NEW S, NEW a \in Seq(S), NEW b \in Seq(S), NEW ab, ab = a \o b
  PROVE  /\ Len(ab) = Len(a) + Len(b)
         /\ \A i \in 1 .. Len(a) : ab[i] = a[i]
         /\ \A j \in 1 .. Len(b) : ab[Len(a) + j] = b[j]
OBVIOUS

LEMMA FlattenedAt ==
  ASSUME NEW S, NEW seqs \in Seq(Seq(S))
  PROVE  \E off : /\ AreOffsets(off, seqs)
                  /\ FlattenSeq(seqs) \in Seq(S)
                  /\ Len(FlattenSeq(seqs)) = off[Len(seqs)]
                  /\ AreAt(FlattenSeq(seqs), off, seqs, Len(seqs))
<1> DEFINE N == Len(seqs)
<1>1. N \in Nat /\ \A n \in 1 .. N : seqs[n] \in Seq(S)
  OBVIOUS
<1>2. CASE N = 0
  <2>1. seqs = <<>> /\ FlattenSeq(seqs) = <<>>
    BY <1>2, NoneJoined
  <2> DEFINE off == [k \in 0 .. 0 |-> 0]
  <2>2. AreOffsets(off, seqs) /\ off[0] = 0
    BY <1>2, <2>1 DEF AreOffsets
  <2>3. AreAt(FlattenSeq(seqs), off, seqs, 0)
    BY <2>2 DEF AreAt
  <2> HIDE DEF off
  <2>4. <<>> \in Seq(S) /\ Len(<<>>) = 0
    OBVIOUS
  <2>5. FlattenSeq(seqs) \in Seq(S) /\ Len(FlattenSeq(seqs)) = off[0]
    BY <2>1, <2>2, <2>4
  <2>6. /\ AreOffsets(off, seqs) /\ FlattenSeq(seqs) \in Seq(S)
        /\ Len(FlattenSeq(seqs)) = off[N] /\ AreAt(FlattenSeq(seqs), off, seqs, N)
    <3> HIDE DEF N
    <3> QED  BY <1>2, <2>2, <2>3, <2>5
  <2> QED  BY <2>6
<1>3. CASE N # 0
  <2>1. PICK f : /\ AreJoined(f, seqs)
                 /\ \A n \in 1 .. N : f[n] \in Seq(S)
                 /\ FlattenSeq(seqs) = f[N]
    <3>1. Len(seqs) > 0
      BY <1>1, <1>3
    <3> QED  BY <3>1, Joined
  <2> DEFINE off == [k \in 0 .. N |-> IF k = 0 THEN 0 ELSE Len(f[k])]
  <2>2. off[0] = 0 /\ \A k \in 1 .. N : off[k] = Len(f[k])
    BY <1>1
  <2>3. \A k \in 0 .. N : off[k] \in Nat
    BY <1>1, <2>1
  <2>4. DOMAIN off = 0 .. N /\ off = [k \in 0 .. N |-> off[k]]
    OBVIOUS
  <2> HIDE DEF off, N
  <2>5. ASSUME NEW k \in 1 .. N
        PROVE  /\ off[k] = off[k - 1] + Len(seqs[k])
               /\ \A i \in 1 .. off[k - 1] : f[k][i] = f[k - 1][i]
               /\ \A j \in 1 .. Len(seqs[k]) : f[k][off[k - 1] + j] = seqs[k][j]
    <3>1. CASE k = 1
      BY <1>1, <2>1, <2>2, <3>1 DEF AreJoined
    <3>2. CASE k # 1
      <4>1. k \in 2 .. N /\ k - 1 \in 1 .. N
        BY <1>1, <3>2
      <4>2. f[k] = f[k - 1] \o seqs[k] /\ f[k - 1] \in Seq(S) /\ seqs[k] \in Seq(S)
        BY <1>1, <2>1, <4>1 DEF AreJoined, N
      <4>3. off[k] = Len(f[k]) /\ off[k - 1] = Len(f[k - 1])
        BY <2>2, <4>1
      <4>4. /\ Len(f[k]) = Len(f[k - 1]) + Len(seqs[k])
            /\ \A i \in 1 .. Len(f[k - 1]) : f[k][i] = f[k - 1][i]
            /\ \A j \in 1 .. Len(seqs[k]) : f[k][Len(f[k - 1]) + j] = seqs[k][j]
        <5> DEFINE a == f[k - 1]
                   b == seqs[k]
                   ab == f[k]
        <5>1. a \in Seq(S) /\ b \in Seq(S) /\ ab = a \o b
          BY <4>2
        <5> HIDE DEF a, b, ab
        <5>2. /\ Len(ab) = Len(a) + Len(b)
              /\ \A i \in 1 .. Len(a) : ab[i] = a[i]
              /\ \A j \in 1 .. Len(b) : ab[Len(a) + j] = b[j]
          BY <5>1, ConcatenationIs
        <5> QED  BY <5>2 DEF a, b, ab
      <4> QED  BY <4>3, <4>4, Zenon
    <3> QED  BY <3>1, <3>2
  <2>6. AreOffsets(off, seqs)
    BY <2>2, <2>3, <2>4, <2>5 DEF AreOffsets, N
  <2> DEFINE good == {n \in 0 .. N : n # 0 => AreAt(f[n], off, seqs, n)}
  <2>7. 0 \in good
    BY <1>1
  <2>8. ASSUME NEW n \in 1 .. N, n - 1 \in good
        PROVE  n \in good
    <3> DEFINE m == n - 1
               L == Len(seqs[n])
    <3>1. /\ m \in 0 .. N /\ n \in 0 .. N /\ m \in Nat /\ n = m + 1
          /\ off[m] \in Nat /\ off[n] \in Nat /\ L \in Nat
          /\ off[n] = off[m] + L
          /\ \A i \in 1 .. off[m] : f[n][i] = f[m][i]
          /\ \A j \in 1 .. L : f[n][off[m] + j] = seqs[n][j]
      BY <1>1, <2>3, <2>5
    <3>2. AreAt(f[m], off, seqs, m)
      <4>1. CASE m = 0
        BY <2>2, <4>1 DEF AreAt
      <4>2. CASE m # 0
        BY <2>8, <4>2
      <4> QED  BY <4>1, <4>2
    <3> HIDE DEF L
    <3>3. ASSUME NEW k \in 1 .. n, NEW j \in 1 .. Len(seqs[k])
          PROVE  off[k - 1] + j \in 1 .. off[n] /\ f[n][off[k - 1] + j] = seqs[k][j]
      <4>1. CASE k = n
        <5>1. k - 1 = m /\ j \in 1 .. L
          BY <4>1 DEF L
        <5>2. off[m] + j \in 1 .. off[n]
          BY <3>1, <5>1
        <5>3. f[n][off[m] + j] = seqs[n][j]
          BY <3>1, <5>1
        <5> QED  BY <4>1, <5>1, <5>2, <5>3
      <4>2. CASE k # n
        <5>1. k \in 1 .. m
          BY <3>1, <4>2
        <5>2. off[k - 1] + j \in 1 .. off[m] /\ f[m][off[k - 1] + j] = seqs[k][j]
          BY <3>2, <5>1 DEF AreAt
        <5> DEFINE i == off[k - 1] + j
        <5>3. i \in 1 .. off[m] /\ f[m][i] = seqs[k][j]
          BY <5>2
        <5> HIDE DEF i
        <5>4. i \in 1 .. off[n] /\ f[n][i] = seqs[k][j]
          BY <3>1, <5>3
        <5> QED  BY <5>4 DEF i
      <4> QED  BY <4>1, <4>2
    <3>4. ASSUME NEW i \in 1 .. off[n]
          PROVE  \E k \in 1 .. n : \E j \in 1 .. Len(seqs[k]) : i = off[k - 1] + j
      <4>1. CASE i <= off[m]
        <5>1. i \in 1 .. off[m]
          BY <3>1, <4>1
        <5>2. PICK k \in 1 .. m : \E j \in 1 .. Len(seqs[k]) : i = off[k - 1] + j
          BY <3>2, <5>1 DEF AreAt
        <5>3. k \in 1 .. n
          BY <3>1
        <5> QED  BY <5>2, <5>3
      <4>2. CASE i > off[m]
        <5>1. i - off[m] \in 1 .. L /\ i = off[n - 1] + (i - off[m]) /\ n \in 1 .. n
          BY <3>1, <4>2
        <5> QED  BY <5>1 DEF L
      <4> QED  BY <3>1, <4>1, <4>2
    <3>5. AreAt(f[n], off, seqs, n)
      BY <3>3, <3>4 DEF AreAt
    <3> QED  BY <3>1, <3>5
  <2>9. \A n \in 0 .. N : n \in good
    <3> HIDE DEF good
    <3> QED  BY <1>1, <2>7, <2>8, UpTo
  <2>10. AreAt(f[N], off, seqs, N) /\ Len(f[N]) = off[N] /\ f[N] \in Seq(S)
    BY <1>1, <1>3, <2>1, <2>2, <2>9
  <2> QED  BY <2>1, <2>6, <2>10 DEF N
<1> QED  BY <1>2, <1>3

-----------------------------------------------------------------------------
(* Folds over a sequence. *)

LEMMA MaxIs ==
  ASSUME NEW n \in Nat, NEW s \in SUBSET (1 .. n), s # {}
  PROVE  Max(s) \in s /\ \A y \in s : Max(s) >= y
<1> DEFINE good == {d \in Nat : n - d \in s}
<1>1. good # {} /\ good \in SUBSET Nat
  <2>1. PICK y \in s : TRUE
    OBVIOUS
  <2>2. n - y \in good
    OBVIOUS
  <2> QED  BY <2>2
<1>2. PICK d \in good : \A e \in good : d <= e
  <2>1. \A S \in SUBSET Nat : S # {} => \E x \in S : \A y \in S : x <= y
    BY LeastNatural
  <2> HIDE DEF good
  <2> QED  BY <1>1, <2>1
<1>3. n - d \in s
  BY <1>2
<1>4. ASSUME NEW y \in s
      PROVE  n - d >= y
  <2>1. n - y \in good /\ y \in Nat /\ d \in Nat
    OBVIOUS
  <2>2. d <= n - y
    BY <1>2, <2>1
  <2> HIDE DEF good
  <2> QED  BY <2>1, <2>2
<1>5. \E x \in s : \A y \in s : x >= y
  BY <1>3, <1>4
<1> QED  BY <1>5 DEF Max

LEMMA MinIs ==
  ASSUME NEW n \in Nat, NEW s \in SUBSET (1 .. n), s # {}
  PROVE  Min(s) \in s /\ \A y \in s : Min(s) <= y
<1>1. \E x \in s : \A y \in s : x <= y
  <2>1. s \in SUBSET Nat
    OBVIOUS
  <2> QED  BY <2>1, LeastNatural
<1> QED  BY <1>1 DEF Min

\* What a fold computes of each set of places, taking the last place first.
IsFold(f, step, base, n) ==
  \A s \in SUBSET (1 .. n) :
    f[s] = IF s = {} THEN base ELSE step[Max(s)][f[s \ {Max(s)}]]

LEMMA FoldExists ==
  ASSUME NEW N \in Nat, NEW X, NEW base \in X, NEW step \in [1 .. N -> [X -> X]]
  PROVE  \E f \in [SUBSET (1 .. N) -> X] : IsFold(f, step, base, N)
<1> DEFINE good == {n \in 0 .. N : \E f \in [SUBSET (1 .. n) -> X] : IsFold(f, step, base, n)}
<1>1. 0 \in good
  <2> DEFINE f == [s \in SUBSET (1 .. 0) |-> base]
  <2>1. \A s \in SUBSET (1 .. 0) : s = {}
    OBVIOUS
  <2>2. f \in [SUBSET (1 .. 0) -> X] /\ \A s \in SUBSET (1 .. 0) : f[s] = base
    OBVIOUS
  <2>3. IsFold(f, step, base, 0)
    <3> HIDE DEF f
    <3> QED  BY <2>1, <2>2 DEF IsFold
  <2> QED  BY <2>2, <2>3
<1>2. ASSUME NEW n \in 1 .. N, n - 1 \in good
      PROVE  n \in good
  <2>1. PICK f \in [SUBSET (1 .. n - 1) -> X] : IsFold(f, step, base, n - 1)
    BY <1>2
  <2> DEFINE g == [s \in SUBSET (1 .. n) |-> IF n \in s THEN step[n][f[s \ {n}]] ELSE f[s]]
  <2>2. ASSUME NEW s \in SUBSET (1 .. n)
        PROVE  /\ s \ {n} \in SUBSET (1 .. n - 1)
               /\ n \notin s => s \in SUBSET (1 .. n - 1)
    OBVIOUS
  <2>3. g \in [SUBSET (1 .. n) -> X]
    <3>1. ASSUME NEW s \in SUBSET (1 .. n)
          PROVE  (IF n \in s THEN step[n][f[s \ {n}]] ELSE f[s]) \in X
      <4>1. f[s \ {n}] \in X /\ step[n] \in [X -> X] /\ (n \notin s => f[s] \in X)
        BY <2>2
      <4> QED  BY <4>1
    <3> QED  BY <3>1
  <2>4. \A s \in SUBSET (1 .. n) : g[s] = IF n \in s THEN step[n][f[s \ {n}]] ELSE f[s]
    OBVIOUS
  <2> HIDE DEF g
  <2>5. ASSUME NEW s \in SUBSET (1 .. n), s # {}
        PROVE  g[s] = step[Max(s)][g[s \ {Max(s)}]]
    <3>0. n \in Nat /\ s \subseteq Nat /\ \A y \in s : y <= n
      OBVIOUS
    <3>1. Max(s) \in s /\ \A y \in s : Max(s) >= y
      BY <2>5, <3>0, MaxIs
    <3> DEFINE u == s \ {Max(s)}
    <3>2. CASE n \in s
      <4>1. Max(s) = n
        <5>1. Max(s) >= n /\ Max(s) <= n /\ Max(s) \in Nat
          BY <3>0, <3>1, <3>2
        <5> HIDE DEF g
        <5> QED  BY <5>1
      <4>2. g[u] = f[u] /\ u = s \ {n}
        <5>1. u \in SUBSET (1 .. n) /\ n \notin u
          BY <4>1
        <5> QED  BY <2>4, <4>1, <5>1
      <4> QED  BY <2>4, <3>2, <4>1, <4>2
    <3>3. CASE n \notin s
      <4>1. s \in SUBSET (1 .. n - 1) /\ u \in SUBSET (1 .. n) /\ n \notin u
        BY <2>2, <3>3
      <4>2. f[s] = step[Max(s)][f[u]]
        BY <2>1, <2>5, <4>1 DEF IsFold
      <4>3. g[s] = f[s] /\ g[u] = f[u]
        BY <2>4, <3>3, <4>1
      <4> QED  BY <4>2, <4>3
    <3> QED  BY <3>2, <3>3
  <2>6. g[{}] = base
    <3>1. {} \in SUBSET (1 .. n) /\ {} \in SUBSET (1 .. n - 1) /\ n \notin {}
      OBVIOUS
    <3>2. f[{}] = base
      BY <2>1, <3>1 DEF IsFold
    <3> QED  BY <2>4, <3>1, <3>2
  <2>7. IsFold(g, step, base, n)
    BY <2>5, <2>6 DEF IsFold
  <2> QED  BY <2>3, <2>7
<1>3. \A n \in 0 .. N : n \in good
  <2> HIDE DEF good
  <2> QED  BY <1>1, <1>2, UpTo
<1>4. N \in 0 .. N
  OBVIOUS
<1>5. N \in good
  <2> HIDE DEF good
  <2> QED  BY <1>3, <1>4
<1> QED  BY <1>5

LEMMA MaxOfPrefix ==
  ASSUME NEW n \in Nat, NEW k \in 1 .. n
  PROVE  /\ 1 .. k \in SUBSET (1 .. n) /\ 1 .. k # {}
         /\ Max(1 .. k) = k
         /\ (1 .. k) \ {Max(1 .. k)} = 1 .. k - 1
<1>1. 1 .. k \in SUBSET (1 .. n) /\ 1 .. k # {} /\ k \in 1 .. k
  OBVIOUS
<1>2. Max(1 .. k) \in 1 .. k /\ \A y \in 1 .. k : Max(1 .. k) >= y
  BY <1>1, MaxIs
<1>3. Max(1 .. k) = k
  BY <1>1, <1>2
<1> QED  BY <1>1, <1>3

-----------------------------------------------------------------------------
(* The walk of a lookup. *)

\* The nodes that a lookup goes through.
IsWalk(f, trie, words, n) ==
  f = [k \in 0 .. n |-> IF k = 0 THEN Root ELSE Child(trie, f[k - 1], words[k])]

LEMMA WalkExists ==
  ASSUME NEW trie, NEW words, NEW n \in Nat
  PROVE  \E f : IsWalk(f, trie, words, n)
<1> DEFINE bad == {m \in Nat : ~ \E f : IsWalk(f, trie, words, m)}
<1>1. SUFFICES ASSUME bad # {}
               PROVE  FALSE
  OBVIOUS
<1>2. PICK m \in bad : \A y \in bad : m <= y
  BY <1>1, LeastNatural
<1>3. m # 0
  <2>1. IsWalk([k \in 0 .. 0 |-> Root], trie, words, 0)
    BY DEF IsWalk
  <2> QED  BY <2>1, <1>2
<1>4. PICK g : IsWalk(g, trie, words, m - 1)
  BY <1>2, <1>3
<1> DEFINE f == [k \in 0 .. m |-> IF k = m THEN Child(trie, g[m - 1], words[m]) ELSE g[k]]
<1>5. IsWalk(f, trie, words, m)
  <2>1. \A k \in 0 .. m : f[k] = IF k = 0 THEN Root ELSE Child(trie, f[k - 1], words[k])
    <3> SUFFICES ASSUME NEW k \in 0 .. m
                 PROVE  f[k] = IF k = 0 THEN Root ELSE Child(trie, f[k - 1], words[k])
      OBVIOUS
    <3>1. CASE k = m
      <4>1. k - 1 \in 0 .. m /\ k - 1 # m /\ k # 0
        BY <3>1, <1>3
      <4>2. f[k - 1] = g[m - 1]
        BY <4>1, <3>1
      <4> QED  BY <4>1, <4>2, <3>1
    <3>2. CASE k # m /\ k # 0
      <4>1. k \in 0 .. m - 1 /\ k - 1 \in 0 .. m /\ k - 1 # m
        BY <3>2
      <4>2. g[k] = Child(trie, g[k - 1], words[k])
        BY <1>4, <4>1, <3>2 DEF IsWalk
      <4>3. f[k] = g[k] /\ f[k - 1] = g[k - 1]
        BY <4>1, <3>2
      <4> QED  BY <4>2, <4>3, <3>2
    <3>3. CASE k = 0
      <4>1. g[0] = Root
        BY <1>4, <1>3 DEF IsWalk
      <4> QED  BY <4>1, <3>3, <1>3
    <3> QED  BY <3>1, <3>2, <3>3
  <2> QED  BY <2>1 DEF IsWalk
<1> QED  BY <1>5, <1>2

\* Two lookups of words that begin in the same way begin in the same way.
LEMMA WalksAgree ==
  ASSUME NEW trie, NEW words, NEW others, NEW n \in Nat, NEW m \in Nat, n <= m,
         NEW f, IsWalk(f, trie, words, n),
         NEW g, IsWalk(g, trie, others, m),
         \A k \in 1 .. n : words[k] = others[k]
  PROVE  f[n] = g[n]
<1> DEFINE bad == {k \in 0 .. n : f[k] # g[k]}
<1>1. SUFFICES ASSUME bad # {}
               PROVE  FALSE
  OBVIOUS
<1>0. bad \in SUBSET Nat
  OBVIOUS
<1>2. PICK k \in bad : \A y \in bad : k <= y
  BY <1>0, <1>1, LeastNatural
<1>3. k # 0
  BY <1>2 DEF IsWalk
<1>4. k - 1 \in 0 .. n /\ f[k - 1] = g[k - 1]
  BY <1>2, <1>3
<1>5. f[k] = Child(trie, f[k - 1], words[k]) /\ g[k] = Child(trie, g[k - 1], others[k])
  <2>1. k \in 0 .. n /\ k \in 0 .. m
    OBVIOUS
  <2> HIDE DEF bad
  <2> QED  BY <1>3, <2>1 DEF IsWalk
<1> QED  BY <1>2, <1>3, <1>4, <1>5

LEMMA NodeAtEndsWalk ==
  ASSUME NEW trie, NEW W, NEW words \in Seq(W)
  PROVE  \E f : IsWalk(f, trie, words, Len(words)) /\ NodeAt(trie, words) = f[Len(words)]
<1> DEFINE at == CHOOSE f : IsWalk(f, trie, words, Len(words))
<1>1. NodeAt(trie, words) = at[Len(words)]
  BY DEF NodeAt, IsWalk
<1>2. Len(words) \in Nat
  OBVIOUS
<1>3. IsWalk(at, trie, words, Len(words))
  BY <1>2, WalkExists
<1> QED  BY <1>1, <1>3

LEMMA NodeAtNone ==
  ASSUME NEW trie
  PROVE  NodeAt(trie, <<>>) = Root
<1>1. PICK f : IsWalk(f, trie, <<>>, Len(<<>>)) /\ NodeAt(trie, <<>>) = f[Len(<<>>)]
  <2>1. <<>> \in Seq({})
    OBVIOUS
  <2> QED  BY <2>1, NodeAtEndsWalk
<1> QED  BY <1>1 DEF IsWalk

LEMMA NodeAtAppend ==
  ASSUME NEW trie, NEW W, NEW words \in Seq(W), NEW w \in W
  PROVE  NodeAt(trie, Append(words, w)) = Child(trie, NodeAt(trie, words), w)
<1> DEFINE more == Append(words, w)
<1>0. more \in Seq(W) /\ Len(more) = Len(words) + 1 /\ more[Len(words) + 1] = w
      /\ \A k \in 1 .. Len(words) : more[k] = words[k]
  OBVIOUS
<1>1. PICK f : IsWalk(f, trie, words, Len(words)) /\ NodeAt(trie, words) = f[Len(words)]
  BY NodeAtEndsWalk
<1>2. PICK g : IsWalk(g, trie, more, Len(more)) /\ NodeAt(trie, more) = g[Len(more)]
  BY <1>0, NodeAtEndsWalk
<1>3. Len(words) \in Nat /\ Len(more) \in Nat /\ Len(words) <= Len(more)
  BY <1>0
<1>4. f[Len(words)] = g[Len(words)]
  <2>1. \A k \in 1 .. Len(words) : words[k] = more[k]
    BY <1>0
  <2> HIDE DEF more
  <2> QED  BY <2>1, <1>1, <1>2, <1>3, WalksAgree
<1>5. g[Len(more)] = Child(trie, g[Len(words)], w)
  BY <1>0, <1>2, <1>3 DEF IsWalk
<1> QED  BY <1>1, <1>2, <1>4, <1>5

-----------------------------------------------------------------------------
(* What a trie is. *)

IsNode(node, W) ==
  /\ node = [children |-> node.children, value |-> node.value]
  /\ node.children = [w \in DOMAIN node.children |-> node.children[w]]
  /\ DOMAIN node.children \subseteq W

\* Each node stands for the words on the path to it: the root for none, a child
\* for one more than its parent, and every other node is a child of an earlier
\* one.
IsTrie(trie, path, W) ==
  /\ trie \in Seq({trie[n] : n \in DOMAIN trie})
  /\ \A n \in DOMAIN trie : IsNode(trie[n], W)
  /\ Root \in DOMAIN trie
  /\ path \in [DOMAIN trie -> Seq(W)]
  /\ path[Root] = <<>>
  /\ \A n \in DOMAIN trie : \A w \in DOMAIN trie[n].children :
       LET child == trie[n].children[w]
       IN  child \in DOMAIN trie /\ child # Root /\ path[child] = Append(path[n], w)
  /\ \A n \in DOMAIN trie \ {Root} :
       \E parent \in DOMAIN trie, w \in W :
         /\ parent < n
         /\ w \in DOMAIN trie[parent].children
         /\ trie[parent].children[w] = n

LEMMA ChildOfNode ==
  ASSUME NEW W, NEW trie, NEW path, IsTrie(trie, path, W),
         NEW n \in DOMAIN trie, NEW w \in W
  PROVE  /\ Child(trie, n, w) # NULL =>
              /\ Child(trie, n, w) \in DOMAIN trie \ {Root}
              /\ path[Child(trie, n, w)] = Append(path[n], w)
         /\ Child(trie, n, w) \in Nat
<1>1. n # NULL /\ DOMAIN trie \subseteq Nat
  <2>1. DOMAIN trie = 1 .. Len(trie) /\ Len(trie) \in Nat
    BY DEF IsTrie
  <2> QED  BY <2>1 DEF NULL
<1> QED  BY <1>1 DEF IsTrie, Child, NULL

LEMMA OneStepIsSound ==
  ASSUME NEW W, NEW trie, NEW path, IsTrie(trie, path, W),
         NEW words \in Seq(W), NEW w \in W,
         NodeAt(trie, words) # NULL =>
           NodeAt(trie, words) \in DOMAIN trie /\ path[NodeAt(trie, words)] = words,
         NodeAt(trie, Append(words, w)) # NULL
  PROVE  /\ NodeAt(trie, Append(words, w)) \in DOMAIN trie
         /\ path[NodeAt(trie, Append(words, w))] = Append(words, w)
<1> DEFINE last == NodeAt(trie, words)
<1>1. NodeAt(trie, Append(words, w)) = Child(trie, last, w)
  BY NodeAtAppend
<1>2. last # NULL
  BY <1>1 DEF Child
<1>3. last \in DOMAIN trie /\ path[last] = words
  BY <1>2
<1> HIDE DEF last
<1>4. /\ Child(trie, last, w) \in DOMAIN trie \ {Root}
      /\ path[Child(trie, last, w)] = Append(path[last], w)
  BY <1>1, <1>3, ChildOfNode, SMTT(20)
<1> QED  BY <1>1, <1>3, <1>4

\* Whatever a lookup comes to is the node of the words looked up.
LEMMA LookupIsSound ==
  ASSUME NEW W, NEW trie, NEW path, IsTrie(trie, path, W),
         NEW words \in Seq(W), NodeAt(trie, words) # NULL
  PROVE  NodeAt(trie, words) \in DOMAIN trie /\ path[NodeAt(trie, words)] = words
<1> DEFINE upTo(k) == SubSeq(words, 1, k)
           right(k) == NodeAt(trie, upTo(k)) # NULL =>
                         /\ NodeAt(trie, upTo(k)) \in DOMAIN trie
                         /\ path[NodeAt(trie, upTo(k))] = upTo(k)
           bad == {k \in 0 .. Len(words) : ~ right(k)}
<1>1. ASSUME bad # {}
      PROVE  FALSE
  <2>0. bad \in SUBSET Nat
    OBVIOUS
  <2>1. PICK k \in bad : \A y \in bad : k <= y
    <3> HIDE DEF bad
    <3> QED  BY <1>1, <2>0, LeastNatural
  <2>2. upTo(0) = <<>>
    OBVIOUS
  <2>3. right(0)
    BY <2>2, NodeAtNone DEF IsTrie
  <2>4. k \in 1 .. Len(words) /\ ~ right(k)
    <3> HIDE DEF right
    <3> QED  BY <2>1, <2>3
  <2>5. right(k - 1)
    BY <2>1, <2>4
  <2>6. upTo(k) = Append(upTo(k - 1), words[k]) /\ upTo(k - 1) \in Seq(W) /\ words[k] \in W
    BY <2>4
  <2>7. right(k)
    <3> HIDE DEF upTo
    <3> QED  BY <2>5, <2>6, OneStepIsSound
  <2> QED  BY <2>4, <2>7
<1>2. right(Len(words))
  BY <1>1
<1>3. upTo(Len(words)) = words
  OBVIOUS
<1> QED  BY <1>2, <1>3

\* Each node is found by its words, so that no two nodes have the same words.
LEMMA LookupIsComplete ==
  ASSUME NEW W, NEW trie, NEW path, IsTrie(trie, path, W),
         NEW n \in DOMAIN trie
  PROVE  NodeAt(trie, path[n]) = n
<1> DEFINE bad == {m \in DOMAIN trie : NodeAt(trie, path[m]) # m}
<1>1. SUFFICES ASSUME bad # {}
               PROVE  FALSE
  OBVIOUS
<1>2. DOMAIN trie \subseteq Nat
  <2>1. DOMAIN trie = 1 .. Len(trie) /\ Len(trie) \in Nat
    BY DEF IsTrie
  <2> QED  BY <2>1
<1>3. PICK m \in bad : \A y \in bad : m <= y
  <2>1. bad \in SUBSET Nat
    BY <1>2
  <2> HIDE DEF bad
  <2> QED  BY <1>1, <2>1, LeastNatural
<1>4. m # Root
  BY <1>3, NodeAtNone DEF IsTrie
<1>5. PICK parent \in DOMAIN trie, w \in W :
        parent < m /\ w \in DOMAIN trie[parent].children /\ trie[parent].children[w] = m
  BY <1>3, <1>4 DEF IsTrie
<1>6. NodeAt(trie, path[parent]) = parent
  BY <1>2, <1>3, <1>5
<1>7. path[m] = Append(path[parent], w) /\ path[parent] \in Seq(W)
  BY <1>5 DEF IsTrie
<1>8. NodeAt(trie, path[m]) = Child(trie, parent, w)
  BY <1>6, <1>7, NodeAtAppend
<1>9. Child(trie, parent, w) = m
  BY <1>2, <1>5 DEF Child, NULL, IsTrie
<1> QED  BY <1>3, <1>8, <1>9

-----------------------------------------------------------------------------
(* A node is added. *)

\* The nodes that were there keep their words and their values; the others have
\* the default.
Grows(trie, path, more, paths, defVal, W) ==
  /\ IsTrie(more, paths, W)
  /\ Len(trie) <= Len(more)
  /\ \A n \in DOMAIN trie : paths[n] = path[n] /\ more[n].value = trie[n].value
  /\ \A n \in DOMAIN more : n > Len(trie) => more[n].value = defVal

LEMMA TrieIsASequence ==
  ASSUME NEW W, NEW trie, NEW path, IsTrie(trie, path, W)
  PROVE  /\ Len(trie) \in Nat
         /\ DOMAIN trie = 1 .. Len(trie)
         /\ Root \in 1 .. Len(trie)
         /\ trie = [n \in 1 .. Len(trie) |-> trie[n]]
<1> DEFINE S == {trie[n] : n \in DOMAIN trie}
<1>1. trie \in Seq(S) /\ Root \in DOMAIN trie
  BY DEF IsTrie
<1> HIDE DEF S
<1> QED  BY <1>1, LenProperties

\* A node that is made for a word.
LEMMA NewChild ==
  ASSUME NEW W, NEW trie, NEW path, IsTrie(trie, path, W),
         NEW node \in DOMAIN trie, NEW w \in W, NEW defVal,
         Child(trie, node, w) = NULL
  PROVE  LET next  == Descend([trie |-> trie, node |-> node], w, defVal)
             paths == [n \in 1 .. Len(trie) + 1 |->
                         IF n = Len(trie) + 1 THEN Append(path[node], w) ELSE path[n]]
         IN  /\ next.node = Len(trie) + 1
             /\ Len(next.trie) = Len(trie) + 1
             /\ Grows(trie, path, next.trie, paths, defVal, W)
<1> DEFINE next  == Descend([trie |-> trie, node |-> node], w, defVal)
           made  == Len(trie) + 1
           paths == [n \in 1 .. made |-> IF n = made THEN Append(path[node], w) ELSE path[n]]
           grown == [c \in DOMAIN trie[node].children \union {w} |->
                       IF c = w THEN made ELSE trie[node].children[c]]
           with  == [trie EXCEPT ![node].children = grown]
           more  == Append(with, NewNode(defVal))
<1>0. /\ Len(trie) \in Nat /\ DOMAIN trie = 1 .. Len(trie) /\ Root \in 1 .. Len(trie)
      /\ trie = [n \in 1 .. Len(trie) |-> trie[n]]
  BY TrieIsASequence
<1>1. next = [trie |-> more, node |-> made]
  BY DEF Descend
<1>2. w \notin DOMAIN trie[node].children
  <2>1. NULL \notin DOMAIN trie /\ node # NULL
    BY <1>0 DEF NULL
  <2> QED  BY <2>1 DEF Child, IsTrie
<1>3. /\ more = [n \in 1 .. made |->
                   IF n = made THEN NewNode(defVal)
                   ELSE IF n = node THEN [children |-> grown, value |-> trie[node].value]
                   ELSE trie[n]]
      /\ Len(more) = made
      /\ more \in Seq({more[n] : n \in DOMAIN more})
  <2> DEFINE S == {with[n] : n \in DOMAIN with} \union {NewNode(defVal)}
  <2>1. IsNode(trie[node], W)
    BY DEF IsTrie
  <2>2. with = [n \in 1 .. Len(trie) |->
                  IF n = node THEN [children |-> grown, value |-> trie[node].value] ELSE trie[n]]
    <3>1. [trie[node] EXCEPT !.children = grown] = [children |-> grown, value |-> trie[node].value]
      <4> HIDE DEF grown
      <4> QED  BY <2>1 DEF IsNode
    <3> HIDE DEF grown
    <3> QED  BY <1>0, <3>1
  <2>3. with \in Seq(S) /\ Len(with) = Len(trie)
    <3> HIDE DEF grown
    <3>1. \A n \in 1 .. Len(trie) : with[n] \in S
      BY <2>2
    <3>2. with \in [1 .. Len(trie) -> S]
      <4> HIDE DEF S
      <4> QED  BY <2>2, <3>1
    <3> HIDE DEF with, S
    <3>3. with \in Seq(S)
      BY <1>0, <3>2, SeqDef
    <3>4. Len(with) \in Nat /\ DOMAIN with = 1 .. Len(with)
      BY <3>3, LenProperties
    <3>5. DOMAIN with = 1 .. Len(trie)
      BY <3>2
    <3>6. Len(with) = Len(trie)
      <4>1. Len(trie) \in 1 .. Len(with) /\ Len(with) \in 1 .. Len(with)
        BY <1>0, <3>4, <3>5
      <4>2. Len(with) \in 1 .. Len(trie)
        BY <4>1, <3>4, <3>5
      <4>3. Len(trie) \in Nat /\ Len(with) \in Nat
        BY <1>0, <3>4
      <4> QED  BY <4>1, <4>2, <4>3
    <3> QED  BY <3>3, <3>6
  <2>x. NewNode(defVal) \in S
    OBVIOUS
  <2> HIDE DEF with, S
  <2>4. /\ more = [n \in 1 .. made |-> IF n = made THEN NewNode(defVal) ELSE with[n]]
        /\ Len(more) = made
    <3> DEFINE last == NewNode(defVal)
    <3>1. last \in S
      BY <2>x
    <3> HIDE DEF last
    <3>2. /\ Append(with, last) \in Seq(S)
          /\ Len(Append(with, last)) = Len(with) + 1
          /\ \A n \in 1 .. Len(with) : Append(with, last)[n] = with[n]
          /\ Append(with, last)[Len(with) + 1] = last
      BY <2>3, <3>1, AppendProperties
    <3>3. Append(with, last) = [n \in 1 .. made |-> IF n = made THEN last ELSE with[n]]
      <4>1. /\ Append(with, last) \in [1 .. Len(Append(with, last)) -> S]
            /\ Len(Append(with, last)) = made
        BY <2>3, <3>2, LenProperties
      <4>2. \A n \in 1 .. made : Append(with, last)[n] = IF n = made THEN last ELSE with[n]
        BY <1>0, <2>3, <3>2
      <4> HIDE DEF made
      <4> QED  BY <4>1, <4>2
    <3> QED  BY <2>3, <3>2, <3>3 DEF last
  <2>5. more = [n \in 1 .. made |->
                   IF n = made THEN NewNode(defVal)
                   ELSE IF n = node THEN [children |-> grown, value |-> trie[node].value]
                   ELSE trie[n]]
    <3> HIDE DEF grown, more
    <3> QED  BY <1>0, <2>2, <2>4
  <2>6. more \in Seq({more[n] : n \in DOMAIN more})
    <3> HIDE DEF more
    <3>1. DOMAIN more = 1 .. made /\ made \in Nat
      BY <1>0, <2>4
    <3> QED  BY <3>1, <2>4
  <2> QED  BY <2>4, <2>5, <2>6
<1> HIDE DEF more, with
<1>a. Len(more) = made /\ Len(trie) <= Len(more)
  BY <1>0, <1>3
<1>b. more \in Seq({more[n] : n \in DOMAIN more})
  BY <1>3
<1>4. \A n \in 1 .. made : IsNode(more[n], W)
  <2> SUFFICES ASSUME NEW n \in 1 .. made
               PROVE  IsNode(more[n], W)
    OBVIOUS
  <2>1. CASE n = made
    <3>1. more[n] = NewNode(defVal)
      BY <1>3, <2>1
    <3> QED  BY <3>1 DEF IsNode, NewNode
  <2>2. CASE n # made /\ n = node
    <3>1. more[n] = [children |-> grown, value |-> trie[node].value]
      BY <1>3, <2>2
    <3>2. DOMAIN trie[node].children \subseteq W
      BY DEF IsTrie, IsNode
    <3> QED  BY <3>1, <3>2 DEF IsNode
  <2>3. CASE n # made /\ n # node
    <3>1. more[n] = trie[n] /\ n \in DOMAIN trie
      BY <1>0, <1>3, <2>3
    <3> QED  BY <3>1 DEF IsTrie
  <2> QED  BY <2>1, <2>2, <2>3
<1>5. paths \in [1 .. made -> Seq(W)] /\ paths[Root] = <<>>
  <2>1. path \in [1 .. Len(trie) -> Seq(W)] /\ path[Root] = <<>>
    BY <1>0 DEF IsTrie
  <2> QED  BY <1>0, <2>1
<1>6. \A n \in 1 .. made : \A c \in DOMAIN more[n].children :
        LET child == more[n].children[c]
        IN  child \in 1 .. made /\ child # Root /\ paths[child] = Append(paths[n], c)
  <2> SUFFICES ASSUME NEW n \in 1 .. made, NEW c \in DOMAIN more[n].children
               PROVE  LET child == more[n].children[c]
                      IN  child \in 1 .. made /\ child # Root /\ paths[child] = Append(paths[n], c)
    OBVIOUS
  <2>1. n # made
    <3>1. SUFFICES ASSUME n = made
                   PROVE  FALSE
      OBVIOUS
    <3>2. more[n].children = <<>>
      BY <1>3, <3>1 DEF NewNode
    <3> QED  BY <3>2
  <2>2. n \in DOMAIN trie /\ paths[n] = path[n]
    BY <1>0, <2>1
  <2>3. ASSUME c \in DOMAIN trie[n].children, more[n].children[c] = trie[n].children[c]
        PROVE  LET child == more[n].children[c]
               IN  child \in 1 .. made /\ child # Root /\ paths[child] = Append(paths[n], c)
    <3> DEFINE child == trie[n].children[c]
    <3>1. child \in DOMAIN trie /\ child # Root /\ path[child] = Append(path[n], c)
      BY <2>2, <2>3 DEF IsTrie
    <3>2. child \in 1 .. made /\ child # made
      BY <1>0, <3>1
    <3>3. paths[child] = path[child]
      BY <3>2
    <3> QED  BY <2>2, <2>3, <3>1, <3>2, <3>3
  <2>4. CASE n = node
    <3>1. more[n].children = grown
      BY <1>3, <2>1, <2>4
    <3>2. CASE c = w
      <4>1. more[n].children[c] = made
        BY <3>1, <3>2
      <4>2. made # Root /\ made \in 1 .. made
        BY <1>0
      <4>3. paths[made] = Append(path[node], w)
        BY <4>2
      <4> QED  BY <2>2, <2>4, <3>2, <4>1, <4>2, <4>3
    <3>3. CASE c # w
      <4>1. c \in DOMAIN trie[n].children /\ more[n].children[c] = trie[n].children[c]
        BY <2>4, <3>1, <3>3
      <4> QED  BY <2>3, <4>1
    <3> QED  BY <3>2, <3>3
  <2>5. CASE n # node
    <3>1. more[n] = trie[n]
      BY <1>3, <2>1, <2>5
    <3> QED  BY <2>3, <3>1
  <2> QED  BY <2>4, <2>5
<1>7. \A n \in (1 .. made) \ {Root} :
        \E parent \in 1 .. made, c \in W :
          parent < n /\ c \in DOMAIN more[parent].children /\ more[parent].children[c] = n
  <2> SUFFICES ASSUME NEW n \in (1 .. made) \ {Root}
               PROVE  \E parent \in 1 .. made, c \in W :
                        /\ parent < n
                        /\ c \in DOMAIN more[parent].children
                        /\ more[parent].children[c] = n
    OBVIOUS
  <2>0. node \in 1 .. made /\ node < made /\ more[node].children = grown
    <3>1. node \in 1 .. made /\ node # made /\ node < made
      BY <1>0
    <3>2. more[node] = [children |-> grown, value |-> trie[node].value]
      BY <1>3, <3>1
    <3> QED  BY <3>1, <3>2
  <2>1. CASE n = made
    <3>1. w \in DOMAIN grown /\ grown[w] = made
      OBVIOUS
    <3> HIDE DEF grown
    <3> QED  BY <2>0, <2>1, <3>1
  <2>2. CASE n # made
    <3>1. PICK parent \in DOMAIN trie, c \in W :
            parent < n /\ c \in DOMAIN trie[parent].children /\ trie[parent].children[c] = n
      <4>1. n \in DOMAIN trie \ {Root}
        BY <1>0, <2>2
      <4> QED  BY <4>1 DEF IsTrie
    <3>2. parent \in 1 .. made /\ parent # made
      BY <1>0
    <3>3. CASE parent = node
      <4>1. c # w
        BY <1>2, <3>1, <3>3
      <4>2. c \in DOMAIN grown /\ grown[c] = n
        BY <3>1, <3>3, <4>1
      <4> HIDE DEF grown
      <4> QED  BY <2>0, <3>1, <3>2, <3>3, <4>2
    <3>4. CASE parent # node
      <4>1. more[parent] = trie[parent]
        BY <1>3, <3>2, <3>4
      <4> QED  BY <3>1, <3>2, <4>1
    <3> QED  BY <3>3, <3>4
  <2> QED  BY <2>1, <2>2
<1>8. DOMAIN more = 1 .. made /\ Root \in 1 .. made
  BY <1>0, <1>3
<1>9. IsTrie(more, paths, W)
  <2> HIDE DEF paths, grown
  <2> QED  BY <1>b, <1>4, <1>5, <1>6, <1>7, <1>8 DEF IsTrie
<1>10. \A n \in DOMAIN trie : paths[n] = path[n] /\ more[n].value = trie[n].value
  <2> HIDE DEF grown
  <2> SUFFICES ASSUME NEW n \in DOMAIN trie
               PROVE  paths[n] = path[n] /\ more[n].value = trie[n].value
    OBVIOUS
  <2>1. n \in 1 .. made /\ n # made
    BY <1>0
  <2> QED  BY <1>3, <2>1
<1>11. \A n \in DOMAIN more : n > Len(trie) => more[n].value = defVal
  <2> HIDE DEF grown
  <2> SUFFICES ASSUME NEW n \in DOMAIN more, n > Len(trie)
               PROVE  more[n].value = defVal
    OBVIOUS
  <2>1. n = made
    BY <1>0, <1>8
  <2> QED  BY <1>3, <1>8, <2>1 DEF NewNode
<1>12. Grows(trie, path, more, paths, defVal, W)
  <2> HIDE DEF paths, grown
  <2> QED  BY <1>a, <1>9, <1>10, <1>11 DEF Grows
<1> HIDE DEF paths, grown, next
<1> QED  BY <1>1, <1>a, <1>12 DEF paths, next

\* The trie that AddOrCreateNode leaves is the old one, grown by nodes, and the
\* node it comes to is that of the words.
Adds(trie, path, at, paths, words, defVal, W) ==
  /\ Grows(trie, path, at.trie, paths, defVal, W)
  /\ at = [trie |-> at.trie, node |-> at.node]
  /\ at.node \in DOMAIN at.trie
  /\ paths[at.node] = words

LEMMA DescendAdds ==
  ASSUME NEW W, NEW trie, NEW path, IsTrie(trie, path, W), NEW defVal,
         NEW at, NEW between, NEW words \in Seq(W), NEW w \in W,
         Adds(trie, path, at, between, words, defVal, W)
  PROVE  \E paths : Adds(trie, path, Descend(at, w, defVal), paths, Append(words, w), defVal, W)
<1> DEFINE next  == Descend(at, w, defVal)
           child == Child(at.trie, at.node, w)
<1>1. /\ IsTrie(at.trie, between, W)
      /\ at.node \in DOMAIN at.trie
      /\ between[at.node] = words
      /\ at = [trie |-> at.trie, node |-> at.node]
  BY DEF Adds, Grows
<1>2. CASE child # NULL
  <2>1. next = [trie |-> at.trie, node |-> child]
    BY <1>2 DEF Descend
  <2>2. child \in DOMAIN at.trie /\ between[child] = Append(words, w)
    BY <1>1, <1>2, ChildOfNode, SMTT(20)
  <2> HIDE DEF next, child
  <2>3. Adds(trie, path, next, between, Append(words, w), defVal, W)
    BY <2>1, <2>2 DEF Adds
  <2> QED  BY <2>3 DEF next
<1>3. CASE child = NULL
  <2> DEFINE old   == at.trie
             paths == [n \in 1 .. Len(old) + 1 |->
                         IF n = Len(old) + 1 THEN Append(between[at.node], w) ELSE between[n]]
  <2>1. next = Descend([trie |-> old, node |-> at.node], w, defVal)
    BY <1>1
  <2>2. /\ next.node = Len(old) + 1
        /\ Len(next.trie) = Len(old) + 1
        /\ Grows(old, between, next.trie, paths, defVal, W)
    <3> HIDE DEF next
    <3> QED  BY <1>1, <1>3, <2>1, NewChild
  <2>3. next = [trie |-> next.trie, node |-> next.node]
    BY <1>3 DEF Descend
  <2> HIDE DEF next
  <2>4. Len(trie) \in Nat /\ DOMAIN trie = 1 .. Len(trie)
    BY TrieIsASequence
  <2>5. Len(old) \in Nat /\ DOMAIN old = 1 .. Len(old)
    BY <1>1, TrieIsASequence
  <2>6. /\ IsTrie(next.trie, paths, W)
        /\ \A n \in DOMAIN old : paths[n] = between[n] /\ next.trie[n].value = old[n].value
        /\ \A n \in DOMAIN next.trie : n > Len(old) => next.trie[n].value = defVal
    BY <2>2 DEF Grows
  <2>7. DOMAIN next.trie = 1 .. Len(old) + 1
    BY <2>2, <2>6, TrieIsASequence
  <2>8. paths[next.node] = Append(words, w) /\ next.node \in DOMAIN next.trie
    BY <1>1, <2>2, <2>5, <2>7
  <2> HIDE DEF paths
  <2>9. /\ Len(trie) <= Len(old)
        /\ \A n \in DOMAIN trie : between[n] = path[n] /\ old[n].value = trie[n].value
        /\ \A n \in DOMAIN old : n > Len(trie) => old[n].value = defVal
    BY DEF Adds, Grows
  <2> HIDE DEF old
  <2>10. Len(trie) <= Len(next.trie)
    BY <2>2, <2>4, <2>5, <2>9
  <2>11. \A n \in DOMAIN trie : paths[n] = path[n] /\ next.trie[n].value = trie[n].value
    BY <2>4, <2>5, <2>6, <2>9
  <2>12. \A n \in DOMAIN next.trie : n > Len(trie) => next.trie[n].value = defVal
    BY <2>4, <2>5, <2>6, <2>7, <2>9
  <2>13. Grows(trie, path, next.trie, paths, defVal, W)
    BY <2>6, <2>10, <2>11, <2>12 DEF Grows
  <2>14. Adds(trie, path, next, paths, Append(words, w), defVal, W)
    BY <2>3, <2>8, <2>13 DEF Adds
  <2> QED  BY <2>14 DEF next
<1> QED  BY <1>2, <1>3

-----------------------------------------------------------------------------
(* The walk of AddOrCreateNode. *)

IsDescent(f, trie, words, defVal, n) ==
  f = [k \in 0 .. n |-> IF k = 0 THEN [trie |-> trie, node |-> Root]
                        ELSE Descend(f[k - 1], words[k], defVal)]

LEMMA DescentExists ==
  ASSUME NEW trie, NEW words, NEW defVal, NEW n \in Nat
  PROVE  \E f : IsDescent(f, trie, words, defVal, n)
<1> DEFINE bad == {m \in Nat : ~ \E f : IsDescent(f, trie, words, defVal, m)}
<1>1. SUFFICES ASSUME bad # {}
               PROVE  FALSE
  OBVIOUS
<1>2. PICK m \in bad : \A y \in bad : m <= y
  BY <1>1, LeastNatural
<1>3. m # 0
  <2>1. IsDescent([k \in 0 .. 0 |-> [trie |-> trie, node |-> Root]], trie, words, defVal, 0)
    BY DEF IsDescent
  <2> QED  BY <2>1, <1>2
<1>4. PICK g : IsDescent(g, trie, words, defVal, m - 1)
  BY <1>2, <1>3
<1> DEFINE f == [k \in 0 .. m |-> IF k = m THEN Descend(g[m - 1], words[m], defVal) ELSE g[k]]
<1>5. IsDescent(f, trie, words, defVal, m)
  <2>1. \A k \in 0 .. m : f[k] = IF k = 0 THEN [trie |-> trie, node |-> Root]
                                ELSE Descend(f[k - 1], words[k], defVal)
    <3> SUFFICES ASSUME NEW k \in 0 .. m
                 PROVE  f[k] = IF k = 0 THEN [trie |-> trie, node |-> Root]
                               ELSE Descend(f[k - 1], words[k], defVal)
      OBVIOUS
    <3>1. CASE k = m
      <4>1. k - 1 \in 0 .. m /\ k - 1 # m /\ k # 0
        BY <3>1, <1>3
      <4>2. f[k - 1] = g[m - 1]
        BY <4>1, <3>1
      <4> QED  BY <4>1, <4>2, <3>1
    <3>2. CASE k # m /\ k # 0
      <4>1. k \in 0 .. m - 1 /\ k - 1 \in 0 .. m /\ k - 1 # m
        BY <3>2
      <4>2. g[k] = Descend(g[k - 1], words[k], defVal)
        BY <1>4, <4>1, <3>2 DEF IsDescent
      <4>3. f[k] = g[k] /\ f[k - 1] = g[k - 1]
        BY <4>1, <3>2
      <4> QED  BY <4>2, <4>3, <3>2
    <3>3. CASE k = 0
      <4>1. g[0] = [trie |-> trie, node |-> Root]
        BY <1>4, <1>3 DEF IsDescent
      <4> QED  BY <4>1, <3>3, <1>3
    <3> QED  BY <3>1, <3>2, <3>3
  <2> QED  BY <2>1 DEF IsDescent
<1> QED  BY <1>5, <1>2

\* AddOrCreateNode returns the node of the words, and keeps all there was.
LEMMA AddedNode ==
  ASSUME NEW W, NEW trie, NEW path, IsTrie(trie, path, W), NEW defVal,
         NEW words \in Seq(W)
  PROVE  \E paths :
           Adds(trie, path, AddOrCreateNode(trie, words, defVal), paths, words, defVal, W)
<1> DEFINE f == CHOOSE g : IsDescent(g, trie, words, defVal, Len(words))
           upTo(k) == SubSeq(words, 1, k)
           right(k) == \E paths : Adds(trie, path, f[k], paths, upTo(k), defVal, W)
           bad == {k \in 0 .. Len(words) : ~ right(k)}
<1>1. AddOrCreateNode(trie, words, defVal) = f[Len(words)]
  BY DEF AddOrCreateNode, IsDescent
<1>2. Len(words) \in Nat
  OBVIOUS
<1>3. IsDescent(f, trie, words, defVal, Len(words))
  BY <1>2, DescentExists
<1> HIDE DEF f
<1>4. /\ f[0] = [trie |-> trie, node |-> Root]
      /\ \A k \in 1 .. Len(words) : f[k] = Descend(f[k - 1], words[k], defVal)
  BY <1>2, <1>3 DEF IsDescent
<1>5. ASSUME bad # {}
      PROVE  FALSE
  <2>0. bad \in SUBSET Nat
    <3> HIDE DEF right
    <3> QED  OBVIOUS
  <2>1. PICK k \in bad : \A y \in bad : k <= y
    <3> HIDE DEF bad
    <3> QED  BY <1>5, <2>0, LeastNatural
  <2>2. right(0)
    <3>1. upTo(0) = <<>>
      OBVIOUS
    <3>2. Grows(trie, path, trie, path, defVal, W)
      <4>1. Len(trie) \in Nat /\ DOMAIN trie = 1 .. Len(trie)
        BY TrieIsASequence
      <4> QED  BY <4>1 DEF Grows
    <3>3. Root \in DOMAIN trie /\ path[Root] = <<>>
      BY DEF IsTrie
    <3> HIDE DEF upTo
    <3>4. Adds(trie, path, f[0], path, upTo(0), defVal, W)
      BY <1>4, <3>1, <3>2, <3>3 DEF Adds
    <3> QED  BY <3>4
  <2>3. k \in 1 .. Len(words) /\ ~ right(k)
    <3> HIDE DEF right
    <3> QED  BY <2>1, <2>2
  <2>4. right(k - 1)
    <3> HIDE DEF right
    <3> QED  BY <2>1, <2>3
  <2>5. upTo(k) = Append(upTo(k - 1), words[k]) /\ upTo(k - 1) \in Seq(W) /\ words[k] \in W
    BY <2>3
  <2>6. PICK between : Adds(trie, path, f[k - 1], between, upTo(k - 1), defVal, W)
    BY <2>4
  <2>7. f[k] = Descend(f[k - 1], words[k], defVal)
    BY <1>4, <2>3
  <2>8. right(k)
    <3> HIDE DEF upTo
    <3> QED  BY <2>5, <2>6, <2>7, DescendAdds
  <2> QED  BY <2>3, <2>8
<1>6. right(Len(words))
  <2> HIDE DEF right
  <2> QED  BY <1>2, <1>5
<1>7. upTo(Len(words)) = words
  OBVIOUS
<1> QED  BY <1>1, <1>6, <1>7

\* A value is set: the paths are as they were.
LEMMA ValueIsSet ==
  ASSUME NEW W, NEW trie, NEW path, IsTrie(trie, path, W),
         NEW node \in DOMAIN trie, NEW val
  PROVE  LET set == [trie EXCEPT ![node].value = val]
         IN  /\ IsTrie(set, path, W)
             /\ DOMAIN set = DOMAIN trie
             /\ set[node].value = val
             /\ \A n \in DOMAIN trie : n # node => set[n].value = trie[n].value
<1> DEFINE set == [trie EXCEPT ![node].value = val]
<1>0. Len(trie) \in Nat /\ DOMAIN trie = 1 .. Len(trie) /\ trie = [n \in 1 .. Len(trie) |-> trie[n]]
  BY TrieIsASequence
<1>1. DOMAIN set = 1 .. Len(trie)
  BY <1>0
<1>2. set[node] = [children |-> trie[node].children, value |-> val]
  <2>1. IsNode(trie[node], W)
    BY DEF IsTrie
  <2>2. [trie[node] EXCEPT !.value = val] = [children |-> trie[node].children, value |-> val]
    BY <2>1 DEF IsNode
  <2> QED  BY <1>0, <2>2
<1>3. \A n \in DOMAIN trie : n # node => set[n] = trie[n]
  BY <1>0
<1>4. set = [n \in 1 .. Len(trie) |-> set[n]]
  BY <1>0
<1> HIDE DEF set
<1>5. \A n \in DOMAIN trie : set[n].children = trie[n].children /\ IsNode(set[n], W)
  <2> SUFFICES ASSUME NEW n \in DOMAIN trie
               PROVE  set[n].children = trie[n].children /\ IsNode(set[n], W)
    OBVIOUS
  <2>1. IsNode(trie[n], W)
    BY DEF IsTrie
  <2>2. CASE n = node
    <3>1. set[n] = [children |-> trie[n].children, value |-> val]
      BY <1>2, <2>2
    <3> QED  BY <2>1, <3>1 DEF IsNode
  <2>3. CASE n # node
    BY <1>3, <2>1, <2>3
  <2> QED  BY <2>2, <2>3
<1>6. set \in Seq({set[n] : n \in DOMAIN set})
  <2> DEFINE S == {set[n] : n \in DOMAIN set}
  <2>1. \A n \in 1 .. Len(trie) : set[n] \in S
    BY <1>1
  <2> HIDE DEF S
  <2>2. set \in [1 .. Len(trie) -> S]
    BY <1>4, <2>1
  <2>3. set \in Seq(S)
    BY <1>0, <2>2, SeqDef
  <2> QED  BY <2>3 DEF S
<1>7. DOMAIN set = DOMAIN trie
  BY <1>0, <1>1
<1>8. /\ Root \in DOMAIN set
      /\ path \in [DOMAIN set -> Seq(W)]
      /\ path[Root] = <<>>
      /\ \A n \in DOMAIN set : IsNode(set[n], W)
  BY <1>5, <1>7 DEF IsTrie
<1>9. \A n \in DOMAIN set : \A w \in DOMAIN set[n].children :
        LET child == set[n].children[w]
        IN  child \in DOMAIN set /\ child # Root /\ path[child] = Append(path[n], w)
  <2> SUFFICES ASSUME NEW n \in DOMAIN set, NEW w \in DOMAIN set[n].children
               PROVE  LET child == set[n].children[w]
                      IN  /\ child \in DOMAIN set /\ child # Root
                          /\ path[child] = Append(path[n], w)
    OBVIOUS
  <2>1. n \in DOMAIN trie /\ set[n].children = trie[n].children
    BY <1>5, <1>7
  <2>2. w \in DOMAIN trie[n].children
    BY <2>1
  <2>3. LET child == trie[n].children[w]
        IN  child \in DOMAIN trie /\ child # Root /\ path[child] = Append(path[n], w)
    BY <2>1, <2>2 DEF IsTrie
  <2> QED  BY <1>7, <2>1, <2>3
<1>10. \A n \in DOMAIN set \ {Root} :
         \E parent \in DOMAIN set, w \in W :
           /\ parent < n
           /\ w \in DOMAIN set[parent].children
           /\ set[parent].children[w] = n
  <2> SUFFICES ASSUME NEW n \in DOMAIN set \ {Root}
               PROVE  \E parent \in DOMAIN set, w \in W :
                        /\ parent < n
                        /\ w \in DOMAIN set[parent].children
                        /\ set[parent].children[w] = n
    OBVIOUS
  <2>1. n \in DOMAIN trie \ {Root}
    BY <1>7
  <2>2. PICK parent \in DOMAIN trie, w \in W :
          parent < n /\ w \in DOMAIN trie[parent].children /\ trie[parent].children[w] = n
    BY <2>1 DEF IsTrie
  <2> QED  BY <1>5, <1>7, <2>2
<1>11. IsTrie(set, path, W)
  BY <1>6, <1>8, <1>9, <1>10 DEF IsTrie
<1>12. set[node].value = val /\ \A n \in DOMAIN trie : n # node => set[n].value = trie[n].value
  BY <1>2, <1>3
<1> QED  BY <1>7, <1>11, <1>12 DEF set

\* The trie that a table starts with.
LEMMA EmptyTrieIsTrie ==
  ASSUME NEW W, NEW defVal
  PROVE  /\ IsTrie(EmptyTrie(defVal), <<(<<>>)>>, W)
         /\ DOMAIN EmptyTrie(defVal) = {Root}
         /\ EmptyTrie(defVal)[Root].value = defVal
<1> DEFINE none == NewNode(defVal)
           trie == <<none>>
           path == <<(<<>>)>>
<1>1. none = [children |-> <<>>, value |-> defVal]
  BY DEF NewNode
<1>2. DOMAIN none.children = {} /\ none.value = defVal /\ IsNode(none, W)
  <2>1. none.children = <<>> /\ none.value = defVal
    BY <1>1
  <2>2. DOMAIN none.children = {}
    BY <2>1
  <2> QED  BY <1>1, <2>1, <2>2 DEF IsNode
<1> HIDE DEF none
<1>3. DOMAIN trie = {Root} /\ trie[Root] = none /\ DOMAIN path = {Root} /\ path[Root] = <<>>
  BY DEF Root
<1>4. trie \in Seq({trie[n] : n \in DOMAIN trie})
  <2>1. {trie[n] : n \in DOMAIN trie} = {none}
    BY <1>3
  <2>2. <<none>> \in Seq({none})
    OBVIOUS
  <2> QED  BY <2>1, <2>2
<1>5. path \in [DOMAIN trie -> Seq(W)]
  <2>1. <<>> \in Seq(W)
    OBVIOUS
  <2>2. path = [n \in {Root} |-> <<>>]
    BY DEF Root
  <2> QED  BY <1>3, <2>1, <2>2
<1>6. \A n \in DOMAIN trie : trie[n] = none
  BY <1>3
<1>7. EmptyTrie(defVal) = trie
  BY DEF EmptyTrie, none
<1> HIDE DEF trie, path
<1>8. IsTrie(trie, path, W)
  BY <1>2, <1>3, <1>4, <1>5, <1>6 DEF IsTrie
<1> QED  BY <1>2, <1>3, <1>7, <1>8 DEF path

=============================================================================
