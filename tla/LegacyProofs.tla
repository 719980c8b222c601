---------------------------- MODULE LegacyProofs ----------------------------
(***************************************************************************)
(* Proofs about the earlier decoder, for any configurations, tables and    *)
(* sentences and any number of threads: what the device reads of a table is*)
(* what the file has, and a sentence that cannot be looked up is never     *)
(* reported as translated.                                                 *)
(***************************************************************************)
EXTENDS LegacyDecoder, TrieProofs, FiniteSetTheorems, SequenceTheorems

(***************************************************************************)
(* The trie of a table                                                     *)
(***************************************************************************)

TablePhrases(num) == [words : Seq(Nat), scores : [1 .. num -> Int]]

\* Tries: a node is the path of words to it.
Tables(num) ==
  {t \in UNION {[D -> Seq(TablePhrases(num))] : D \in SUBSET Seq(Nat)} : RootNode \in DOMAIN t}

PhraseOf(line, num) == [words |-> line.target, scores |-> ScoresOf(line, num)]

LEMMA PhraseIsTyped ==
  ASSUME NEW num, NEW line \in TableLines
  PROVE  PhraseOf(line, num) \in TablePhrases(num)
<1>1. ASSUME NEW n \in 1 .. num
      PROVE  (IF n <= Len(line.scores) THEN TransformScore(line.scores[n]) ELSE 0) \in Int
  <2>1. line.scores \in Seq(Int) /\ n \in Int /\ 1 <= n
    BY DEF TableLines
  <2>2. CASE n <= Len(line.scores)
    <3>1. line.scores[n] \in Int
      BY <2>1, <2>2
    <3> QED  BY <2>2, <3>1, TablesAssumption DEF TransformScore
  <2> QED  BY <2>2
<1>2. ScoresOf(line, num) \in [1 .. num -> Int]
  BY <1>1 DEF ScoresOf
<1> QED  BY <1>2 DEF PhraseOf, TablePhrases, TableLines

LEMMA BeginningsAre ==
  ASSUME NEW source \in Seq(Nat)
  PROVE  /\ Beginnings(source) \subseteq Seq(Nat)
         /\ source \in {RootNode} \union Beginnings(source)
         /\ \A p \in Beginnings(source) : p # RootNode
<1>1. ASSUME NEW n \in DOMAIN source
      PROVE  SubSeq(source, 1, n) \in Seq(Nat) /\ Len(SubSeq(source, 1, n)) = n /\ n > 0
  <2>1. n \in 1 .. Len(source) /\ Len(source) \in Nat
    OBVIOUS
  <2>2. \A k \in 1 .. n : source[k] \in Nat
    BY <2>1
  <2> QED  BY <2>1, <2>2
<1>2. Len(RootNode) = 0
  BY DEF RootNode
<1>3. source # RootNode => source \in Beginnings(source)
  <2>1. CASE Len(source) = 0
    BY <2>1 DEF RootNode
  <2>2. CASE Len(source) # 0
    <3>1. Len(source) \in DOMAIN source
      BY <2>2
    <3>2. SubSeq(source, 1, Len(source)) = source
      OBVIOUS
    <3> QED  BY <3>1, <3>2 DEF Beginnings
  <2> QED  BY <2>1, <2>2
<1>4. \A p \in Beginnings(source) : p \in Seq(Nat) /\ Len(p) > 0
  BY <1>1 DEF Beginnings
<1>5. source \in {RootNode} \union Beginnings(source)
  BY <1>3
<1>6. \A p \in Beginnings(source) : p # RootNode
  BY <1>2, <1>4
<1> QED  BY <1>4, <1>5, <1>6

\* What one line does to the trie.
LEMMA AddLineIs ==
  ASSUME NEW num, NEW t \in Tables(num), NEW line \in TableLines
  PROVE  /\ AddLine(t, line, num) \in Tables(num)
         /\ DOMAIN AddLine(t, line, num) = DOMAIN t \union Beginnings(line.source)
         /\ line.source \in DOMAIN AddLine(t, line, num)
         /\ \A p \in DOMAIN AddLine(t, line, num) :
              AddLine(t, line, num)[p]
                = LET before == IF p \in DOMAIN t THEN t[p] ELSE <<>>
                  IN  IF p = line.source THEN Append(before, PhraseOf(line, num)) ELSE before
<1> DEFINE S == Seq(TablePhrases(num))
           g == GetOrCreate(t, line.source)
           D == DOMAIN t \union Beginnings(line.source)
           new == AddLine(t, line, num)
           before(p) == IF p \in DOMAIN t THEN t[p] ELSE <<>>
<1>1. t \in [DOMAIN t -> S] /\ DOMAIN t \subseteq Seq(Nat) /\ RootNode \in DOMAIN t
  BY DEF Tables
<1>2. line.source \in Seq(Nat) /\ PhraseOf(line, num) \in TablePhrases(num)
  BY PhraseIsTyped DEF TableLines
<1>3. line.source \in D /\ D \subseteq Seq(Nat) /\ RootNode \in D
  BY <1>1, <1>2, BeginningsAre
<1>4. /\ DOMAIN g = D
      /\ \A p \in D : g[p] = before(p)
  BY DEF GetOrCreate
<1>5. \A p \in D : before(p) \in S
  BY <1>1
<1>6. new = [g EXCEPT ![line.source] = Append(@, PhraseOf(line, num))]
  BY DEF AddLine, PhraseOf
<1>7. g = [p \in D |-> g[p]]
  BY DEF GetOrCreate
<1> HIDE DEF g, D, S, new
<1>8. /\ DOMAIN new = D
      /\ \A p \in D : new[p] = IF p = line.source THEN Append(before(p), PhraseOf(line, num))
                               ELSE before(p)
      /\ new = [p \in D |-> new[p]]
  BY <1>3, <1>4, <1>6, <1>7
<1>9. ASSUME NEW p \in D PROVE new[p] \in S
  <2>1. before(p) \in S
    BY <1>5
  <2>2. Append(before(p), PhraseOf(line, num)) \in S
    <3> HIDE DEF before
    <3> QED  BY <1>2, <2>1 DEF S
  <2> HIDE DEF before
  <2> QED  BY <1>8, <2>1, <2>2
<1>10. new \in [D -> S]
  BY <1>8, <1>9
<1>11. new \in Tables(num)
  BY <1>3, <1>8, <1>10 DEF Tables, S
<1> QED  BY <1>3, <1>8, <1>11 DEF D, new

\* The tries after each of the lines.
AreLoaded(t, lines, num) ==
  /\ t \in [0 .. Len(lines) -> Tables(num)]
  /\ t[0] = EmptyTable
  /\ \A n \in 1 .. Len(lines) : t[n] = AddLine(t[n - 1], lines[n], num)

LEMMA EmptyTableIs ==
  ASSUME NEW num
  PROVE  EmptyTable \in Tables(num) /\ DOMAIN EmptyTable = {RootNode} /\ EmptyTable[RootNode] = <<>>
<1>1. DOMAIN EmptyTable = {RootNode} /\ EmptyTable[RootNode] = <<>>
      /\ EmptyTable = [p \in {RootNode} |-> <<>>]
  BY DEF EmptyTable
<1>2. RootNode \in Seq(Nat) /\ <<>> \in Seq(TablePhrases(num))
  BY DEF RootNode
<1>3. EmptyTable \in [{RootNode} -> Seq(TablePhrases(num))] /\ {RootNode} \in SUBSET Seq(Nat)
  BY <1>1, <1>2
<1> QED  BY <1>1, <1>3 DEF Tables

LEMMA LoadEnds ==
  ASSUME NEW num, NEW lines \in Seq(TableLines)
  PROVE  \E t : AreLoaded(t, lines, num) /\ Load(lines, num) = t[Len(lines)]
<1> DEFINE N == Len(lines)
           X == Tables(num)
           step == [n \in 1 .. N |-> [x \in X |-> AddLine(x, lines[n], num)]]
           IsLoad(f) == f = [n \in 0 .. N |->
                               IF n = 0 THEN EmptyTable ELSE AddLine(f[n - 1], lines[n], num)]
           t == CHOOSE f : IsLoad(f)
<1>1. N \in Nat /\ \A n \in 1 .. N : lines[n] \in TableLines
  OBVIOUS
<1>2. Load(lines, num) = t[N]
  BY DEF Load
<1>3. \A n \in 1 .. N : \A x \in X : step[n][x] \in X /\ step[n][x] = AddLine(x, lines[n], num)
  BY <1>1, AddLineIs
<1>4. EmptyTable \in X
  BY EmptyTableIs
<1> HIDE DEF N, X, step
<1>5. PICK f \in [0 .. N -> X] : IsRecursion(f, N, EmptyTable, step)
  BY <1>1, <1>3, <1>4, RecursionExists
<1>6. ASSUME NEW n \in 0 .. N
      PROVE  f[n] = IF n = 0 THEN EmptyTable ELSE AddLine(f[n - 1], lines[n], num)
  <2>1. f[n] = IF n = 0 THEN EmptyTable ELSE step[n][f[n - 1]]
    BY <1>5 DEF IsRecursion
  <2>2. CASE n # 0
    <3>1. n \in 1 .. N /\ n - 1 \in 0 .. N
      BY <1>1, <2>2
    <3>2. f[n - 1] \in X
      BY <1>5, <3>1
    <3> QED  BY <1>3, <2>1, <2>2, <3>1, <3>2
  <2> QED  BY <2>1, <2>2
<1>7. f = [n \in 0 .. N |-> f[n]]
  BY <1>5
<1>8. IsLoad(f)
  BY <1>6, <1>7
<1> HIDE DEF IsLoad
<1>9. IsLoad(t)
  BY <1>8
<1> HIDE DEF t
<1>10. /\ t[0] = EmptyTable
       /\ \A n \in 1 .. N : t[n] = AddLine(t[n - 1], lines[n], num)
  <2>1. t = [n \in 0 .. N |-> IF n = 0 THEN EmptyTable ELSE AddLine(t[n - 1], lines[n], num)]
    BY <1>9 DEF IsLoad
  <2>2. 0 \in 0 .. N /\ \A n \in 1 .. N : n \in 0 .. N /\ n # 0
    BY <1>1
  <2> QED  BY <2>1, <2>2
<1> DEFINE good == {n \in 0 .. N : t[n] \in X}
<1>11. 0 \in good
  BY <1>1, <1>4, <1>10
<1>12. ASSUME NEW n \in 1 .. N, n - 1 \in good
       PROVE  n \in good
  <2>1. t[n - 1] \in X /\ lines[n] \in TableLines /\ t[n] = AddLine(t[n - 1], lines[n], num)
    BY <1>1, <1>10, <1>12
  <2>2. t[n] \in X
    <3>1. \A x \in X : AddLine(x, lines[n], num) \in X
      BY <2>1, AddLineIs, Zenon DEF X
    <3> QED  BY <2>1, <3>1
  <2> QED  BY <1>1, <2>2
<1>13. \A n \in 0 .. N : n \in good
  <2> HIDE DEF good
  <2> QED  BY <1>1, <1>11, <1>12, UpTo
<1>14. DOMAIN t = 0 .. N /\ t = [n \in 0 .. N |-> t[n]]
  BY <1>9 DEF IsLoad
<1>15. t \in [0 .. N -> X]
  BY <1>13, <1>14
<1>16. AreLoaded(t, lines, num)
  BY <1>10, <1>15 DEF AreLoaded, N, X
<1> QED  BY <1>2, <1>16 DEF N

\* Of the first lines those with a source phrase.
Matching(lines, source, n) == {m \in 1 .. n : lines[m].source = source}

\* What a node has after the first lines.
IsPhrasesOf(tps, lines, source, num, n) ==
  /\ Len(tps) = Cardinality(Matching(lines, source, n))
  /\ \A m \in Matching(lines, source, n) :
       tps[Cardinality(Matching(lines, source, m))] = PhraseOf(lines[m], num)

LEMMA MatchingGrows ==
  ASSUME NEW lines, NEW source, NEW n \in Nat \ {0}
  PROVE  /\ Cardinality(Matching(lines, source, n - 1)) \in Nat
         /\ Matching(lines, source, n) = Matching(lines, source, n - 1)
                                          \union (IF lines[n].source = source THEN {n} ELSE {})
         /\ Cardinality(Matching(lines, source, n))
              = Cardinality(Matching(lines, source, n - 1))
                  + (IF lines[n].source = source THEN 1 ELSE 0)
<1> DEFINE before == Matching(lines, source, n - 1)
<1>1. IsFiniteSet(before) /\ n \notin before
  <2>1. before \subseteq 1 .. n - 1 /\ IsFiniteSet(1 .. n - 1)
    BY FS_Interval DEF Matching
  <2> QED  BY <2>1, FS_Subset
<1>2. Cardinality(before) \in Nat
  BY <1>1, FS_CardinalityType
<1>3. Matching(lines, source, n) = before \union (IF lines[n].source = source THEN {n} ELSE {})
  BY DEF Matching
<1>4. Cardinality(before \union {n}) = Cardinality(before) + 1
  BY <1>1, FS_AddElement
<1> HIDE DEF before
<1>5. CASE lines[n].source = source
  <2>1. Matching(lines, source, n) = before \union {n}
    BY <1>3, <1>5
  <2> QED  BY <1>2, <1>3, <1>4, <1>5, <2>1 DEF before
<1>6. CASE lines[n].source # source
  <2>1. Matching(lines, source, n) = before
    BY <1>3, <1>6
  <2> QED  BY <1>2, <1>3, <1>6, <2>1 DEF before
<1> QED  BY <1>5, <1>6

LEMMA MatchingCounts ==
  ASSUME NEW lines, NEW source, NEW n \in Nat, NEW m \in Matching(lines, source, n)
  PROVE  /\ m \in 1 .. n
         /\ Cardinality(Matching(lines, source, m)) \in Nat
         /\ Cardinality(Matching(lines, source, n)) \in Nat
         /\ Cardinality(Matching(lines, source, m)) > 0
         /\ Cardinality(Matching(lines, source, m)) <= Cardinality(Matching(lines, source, n))
<1>1. m \in 1 .. n /\ lines[m].source = source
  BY DEF Matching
<1>2. IsFiniteSet(Matching(lines, source, n))
  <2>1. Matching(lines, source, n) \subseteq 1 .. n /\ IsFiniteSet(1 .. n)
    BY FS_Interval DEF Matching
  <2> QED  BY <2>1, FS_Subset
<1>3. Matching(lines, source, m) \subseteq Matching(lines, source, n)
  BY <1>1 DEF Matching
<1>4. /\ IsFiniteSet(Matching(lines, source, m))
      /\ Cardinality(Matching(lines, source, m)) <= Cardinality(Matching(lines, source, n))
  BY <1>2, <1>3, FS_Subset
<1>5. m \in Matching(lines, source, m)
  BY <1>1 DEF Matching
<1>6. /\ Cardinality(Matching(lines, source, m)) \in Nat
      /\ Cardinality(Matching(lines, source, n)) \in Nat
      /\ Cardinality(Matching(lines, source, m)) # 0
  BY <1>2, <1>4, <1>5, FS_CardinalityType, FS_EmptySet
<1> QED  BY <1>1, <1>4, <1>6

(* The trie of the lines of a file has a node for each beginning of a source *)
(* phrase, and at each node the phrases of the lines that have its words, in *)
(* their order.                                                              *)
LEMMA LoadIs ==
  ASSUME NEW num, NEW lines \in Seq(TableLines)
  PROVE  /\ Load(lines, num) \in Tables(num)
         /\ DOMAIN Load(lines, num)
              = {RootNode} \union UNION {Beginnings(lines[m].source) : m \in DOMAIN lines}
         /\ \A p \in DOMAIN Load(lines, num) :
              IsPhrasesOf(Load(lines, num)[p], lines, p, num, Len(lines))
<1> DEFINE N == Len(lines)
<1>1. N \in Nat /\ DOMAIN lines = 1 .. N /\ \A n \in 1 .. N : lines[n] \in TableLines
  OBVIOUS
<1>2. PICK t : AreLoaded(t, lines, num) /\ Load(lines, num) = t[N]
  BY LoadEnds
<1> HIDE DEF N
<1> DEFINE nodes(n) == {RootNode} \union UNION {Beginnings(lines[m].source) : m \in 1 .. n}
           good == {n \in 0 .. N : /\ t[n] \in Tables(num)
                                   /\ DOMAIN t[n] = nodes(n)
                                   /\ \A p \in DOMAIN t[n] : IsPhrasesOf(t[n][p], lines, p, num, n)}
<1>3. 0 \in good
  <2>1. t[0] = EmptyTable /\ 0 \in 0 .. N /\ nodes(0) = {RootNode}
    BY <1>1, <1>2 DEF AreLoaded
  <2>2. Matching(lines, RootNode, 0) = {} /\ Len(<<>>) = 0 /\ Cardinality({}) = 0
    BY FS_EmptySet DEF Matching
  <2>3. IsPhrasesOf(<<>>, lines, RootNode, num, 0)
    BY <2>2 DEF IsPhrasesOf
  <2> HIDE DEF nodes
  <2>4. \A p \in DOMAIN t[0] : IsPhrasesOf(t[0][p], lines, p, num, 0)
    BY <2>1, <2>3, EmptyTableIs
  <2> QED  BY <2>1, <2>4, EmptyTableIs
<1>4. ASSUME NEW n \in 1 .. N, n - 1 \in good
      PROVE  n \in good
  <2> DEFINE before == t[n - 1]
             line == lines[n]
             new == AddLine(before, line, num)
  <2>1. /\ t[n] = new /\ line \in TableLines /\ before \in Tables(num)
        /\ DOMAIN before = nodes(n - 1)
        /\ \A p \in DOMAIN before : IsPhrasesOf(before[p], lines, p, num, n - 1)
    BY <1>1, <1>2, <1>4 DEF AreLoaded, N
  <2>2. 1 .. n = (1 .. n - 1) \union {n} /\ n \in Nat \ {0}
    BY <1>1
  <2>3. nodes(n) = nodes(n - 1) \union Beginnings(line.source)
    BY <2>2
  <2> HIDE DEF before, line, nodes
  <2>4. /\ new \in Tables(num)
        /\ DOMAIN new = nodes(n)
        /\ \A p \in DOMAIN new :
             new[p] = LET old == IF p \in DOMAIN before THEN before[p] ELSE <<>>
                      IN  IF p = line.source THEN Append(old, PhraseOf(line, num)) ELSE old
    BY <2>1, <2>3, AddLineIs
  <2> HIDE DEF new
  <2>5. ASSUME NEW p \in DOMAIN new
        PROVE  IsPhrasesOf(new[p], lines, p, num, n)
    <3> DEFINE old == IF p \in DOMAIN before THEN before[p] ELSE <<>>
               T == TablePhrases(num)
               c(m) == Cardinality(Matching(lines, p, m))
    <3>1. old \in Seq(T)
      <4>1. p \in DOMAIN before => before[p] \in Seq(T)
        BY <2>1 DEF Tables
      <4> QED  BY <4>1
    <3>2. IsPhrasesOf(old, lines, p, num, n - 1)
      <4>1. CASE p \in DOMAIN before
        BY <2>1, <4>1
      <4>2. CASE p \notin DOMAIN before
        <5>1. ASSUME NEW m \in Matching(lines, p, n - 1)
              PROVE  FALSE
          <6>1. m \in 1 .. n - 1 /\ lines[m].source = p /\ m \in 1 .. N
            BY <1>1 DEF Matching
          <6>2. lines[m].source \in Seq(Nat)
            BY <1>1, <6>1 DEF TableLines
          <6>3. p \in {RootNode} \union Beginnings(lines[m].source)
            BY <6>1, <6>2, BeginningsAre
          <6> QED  BY <2>1, <4>2, <6>1, <6>3 DEF nodes
        <5>2. Matching(lines, p, n - 1) = {} /\ Cardinality({}) = 0
          BY <5>1, FS_EmptySet
        <5> QED  BY <4>2, <5>2 DEF IsPhrasesOf
      <4> QED  BY <4>1, <4>2
    <3>3. /\ c(n - 1) \in Nat /\ Len(old) = c(n - 1)
          /\ Matching(lines, p, n) = Matching(lines, p, n - 1)
                                      \union (IF line.source = p THEN {n} ELSE {})
          /\ c(n) = c(n - 1) + (IF line.source = p THEN 1 ELSE 0)
      BY <2>2, <3>2, MatchingGrows DEF line, IsPhrasesOf
    <3>4. ASSUME NEW m \in Matching(lines, p, n - 1)
          PROVE  c(m) \in 1 .. c(n - 1) /\ old[c(m)] = PhraseOf(lines[m], num)
      <4>1. n - 1 \in Nat
        BY <2>2
      <4>2. c(m) \in Nat /\ c(m) > 0 /\ c(m) <= c(n - 1)
        BY <4>1, MatchingCounts
      <4>3. old[c(m)] = PhraseOf(lines[m], num)
        BY <3>2 DEF IsPhrasesOf
      <4> QED  BY <3>3, <4>2, <4>3
    <3> HIDE DEF old, c
    <3>5. CASE p = line.source
      <4>1. new[p] = Append(old, PhraseOf(line, num))
        BY <2>4, <3>5 DEF old
      <4>2. PhraseOf(line, num) \in T
        BY <2>1, PhraseIsTyped
      <4> HIDE DEF T
      <4>3. /\ Len(new[p]) = c(n - 1) + 1
            /\ \A k \in 1 .. c(n - 1) : new[p][k] = old[k]
            /\ new[p][c(n - 1) + 1] = PhraseOf(line, num)
        BY <3>1, <3>3, <4>1, <4>2
      <4>4. c(n) = c(n - 1) + 1 /\ Matching(lines, p, n) = Matching(lines, p, n - 1) \union {n}
        BY <3>3, <3>5
      <4>5. ASSUME NEW m \in Matching(lines, p, n)
            PROVE  new[p][c(m)] = PhraseOf(lines[m], num)
        BY <3>4, <4>3, <4>4 DEF line
      <4> QED  BY <4>3, <4>4, <4>5 DEF IsPhrasesOf, c
    <3>6. CASE p # line.source
      <4>1. new[p] = old
        BY <2>4, <3>6 DEF old
      <4>2. c(n) = c(n - 1) /\ Matching(lines, p, n) = Matching(lines, p, n - 1)
        BY <3>3, <3>6
      <4> QED  BY <3>3, <3>4, <4>1, <4>2 DEF IsPhrasesOf, c
    <3> QED  BY <3>5, <3>6
  <2>6. n \in 0 .. N
    BY <1>1
  <2> QED  BY <2>1, <2>4, <2>5, <2>6
<1>5. \A n \in 0 .. N : n \in good
  <2> HIDE DEF good
  <2> QED  BY <1>1, <1>3, <1>4, UpTo
<1>6. N \in good
  BY <1>1, <1>5
<1> QED  BY <1>1, <1>2, <1>6 DEF N

-----------------------------------------------------------------------------
(* The spans of a sentence: all of them, and each just after the one that is *)
(* one word shorter.                                                         *)

Ranges == [startPos : Nat, endPos : Nat]

LEMMA PathsAre ==
  ASSUME NEW sentence, Len(sentence) \in Nat
  PROVE  /\ InputPaths(sentence) \in Seq(Ranges)
         /\ \A i \in DOMAIN InputPaths(sentence) :
              LET path == InputPaths(sentence)[i]
              IN  /\ path \in Ranges /\ path.startPos <= path.endPos
                  /\ path.endPos < Len(sentence)
                  /\ path.startPos # path.endPos =>
                       /\ i - 1 \in DOMAIN InputPaths(sentence)
                       /\ InputPaths(sentence)[i - 1] = Path(path.startPos, path.endPos - 1)
         /\ \A s, e \in 1 .. Len(sentence) :
              s <= e => \E i \in DOMAIN InputPaths(sentence) :
                          InputPaths(sentence)[i] = Path(s - 1, e - 1)
<1> DEFINE n == Len(sentence)
           from(s) == [k \in 1 .. (n - s + 1) |-> Path(s - 1, s - 1 + k - 1)]
           seqs == [s \in 1 .. n |-> from(s)]
           flat == InputPaths(sentence)
<1>1. flat = FlattenSeq(seqs)
  BY DEF InputPaths
<1> HIDE DEF n, flat
<1>2. ASSUME NEW s \in 1 .. n
      PROVE  /\ from(s) \in Seq(Ranges) /\ Len(from(s)) = n - s + 1
             /\ \A k \in 1 .. (n - s + 1) : from(s)[k] = Path(s - 1, s - 1 + k - 1)
  <2>1. n - s + 1 \in Nat
    BY DEF n
  <2>2. \A k \in 1 .. (n - s + 1) : Path(s - 1, s - 1 + k - 1) \in Ranges
    BY <2>1 DEF Path, Ranges
  <2> QED  BY <2>1, <2>2
<1> HIDE DEF from
<1>3. seqs \in Seq(Seq(Ranges)) /\ Len(seqs) = n /\ n \in Nat /\ \A s \in 1 .. n : seqs[s] = from(s)
  <2>1. n \in Nat /\ \A s \in 1 .. n : from(s) \in Seq(Ranges)
    BY <1>2 DEF n
  <2> DEFINE X == Seq(Ranges)
  <2> HIDE DEF X
  <2>2. seqs \in Seq(X) /\ Len(seqs) = n /\ \A s \in 1 .. n : seqs[s] = from(s)
    BY <2>1 DEF X
  <2> QED  BY <2>1, <2>2 DEF X
<1> HIDE DEF seqs
<1>4. PICK off : /\ AreOffsets(off, seqs) /\ flat \in Seq(Ranges) /\ Len(flat) = off[n]
                 /\ AreAt(flat, off, seqs, n)
  BY <1>1, <1>3, FlattenedAt
<1>5. DOMAIN flat = 1 .. off[n]
  BY <1>4
<1>6. ASSUME NEW s \in 1 .. n, NEW k \in 1 .. (n - s + 1)
      PROVE  off[s - 1] + k \in DOMAIN flat /\ flat[off[s - 1] + k] = Path(s - 1, s - 1 + k - 1)
  <2>1. Len(seqs[s]) = n - s + 1 /\ seqs[s][k] = Path(s - 1, s - 1 + k - 1)
    BY <1>2, <1>3
  <2> QED  BY <1>4, <1>5, <2>1 DEF AreAt
<1>7. ASSUME NEW i \in DOMAIN flat
      PROVE  /\ flat[i] \in Ranges /\ flat[i].startPos <= flat[i].endPos
             /\ flat[i].endPos < n
             /\ flat[i].startPos # flat[i].endPos =>
                  /\ i - 1 \in DOMAIN flat
                  /\ flat[i - 1] = Path(flat[i].startPos, flat[i].endPos - 1)
  <2>1. PICK s \in 1 .. n : \E j \in 1 .. Len(seqs[s]) : i = off[s - 1] + j
    BY <1>4, <1>5 DEF AreAt
  <2>2. PICK j \in 1 .. (n - s + 1) : i = off[s - 1] + j
    BY <1>2, <1>3, <2>1
  <2>3. flat[i] = Path(s - 1, s - 1 + j - 1)
    BY <1>6, <2>2
  <2>4. flat[i].startPos = s - 1 /\ flat[i].endPos = s - 1 + j - 1
    BY <2>3 DEF Path
  <2>5. ASSUME flat[i].startPos # flat[i].endPos
        PROVE  i - 1 \in DOMAIN flat /\ flat[i - 1] = Path(flat[i].startPos, flat[i].endPos - 1)
    <3>1. j - 1 \in 1 .. (n - s + 1)
      BY <1>3, <2>4, <2>5
    <3>2. off[s - 1] \in Nat
      BY <1>3, <1>4 DEF AreOffsets
    <3>3. i - 1 = off[s - 1] + (j - 1)
      BY <2>2, <3>2
    <3>4. flat[i - 1] = Path(s - 1, s - 1 + (j - 1) - 1) /\ i - 1 \in DOMAIN flat
      BY <1>6, <3>1, <3>3
    <3>5. s - 1 + (j - 1) - 1 = (s - 1 + j - 1) - 1
      BY <2>2
    <3> QED  BY <2>4, <3>4, <3>5
  <2>6. flat[i] \in Ranges
    BY <1>4
  <2>7. flat[i].startPos <= flat[i].endPos /\ flat[i].endPos < n
    BY <1>3, <2>2, <2>4
  <2> QED  BY <2>5, <2>6, <2>7
<1>8. ASSUME NEW s \in 1 .. n, NEW e \in 1 .. n, s <= e
      PROVE  \E i \in DOMAIN flat : flat[i] = Path(s - 1, e - 1)
  <2>1. e - s + 1 \in 1 .. (n - s + 1) /\ s - 1 + (e - s + 1) - 1 = e - 1
    BY <1>3, <1>8
  <2>2. flat[off[s - 1] + (e - s + 1)] = Path(s - 1, s - 1 + (e - s + 1) - 1)
        /\ off[s - 1] + (e - s + 1) \in DOMAIN flat
    BY <1>6, <2>1
  <2> QED  BY <2>1, <2>2
<1> QED  BY <1>4, <1>7, <1>8 DEF n, flat

-----------------------------------------------------------------------------
(* The lookup of a span *)

LEMMA SequenceGrows ==
  ASSUME NEW s, IsSequence(s), NEW x
  PROVE  /\ IsSequence(Append(s, x))
         /\ Len(s) \in Nat /\ DOMAIN s = 1 .. Len(s)
         /\ Len(Append(s, x)) = Len(s) + 1
         /\ DOMAIN Append(s, x) = 1 .. (Len(s) + 1)
         /\ \A n \in 1 .. Len(s) : Append(s, x)[n] = s[n]
         /\ Append(s, x)[Len(s) + 1] = x
<1>1. PICK S : s \in Seq(S)
  BY DEF IsSequence
<1> DEFINE T == S \union {x}
<1>2. s \in Seq(T) /\ x \in T
  <2>1. S \subseteq T
    OBVIOUS
  <2> QED  BY <1>1, <2>1, SeqMonotonic
<1> HIDE DEF T
<1>3. /\ Append(s, x) \in Seq(T)
      /\ Len(Append(s, x)) = Len(s) + 1
      /\ \A n \in 1 .. Len(s) : Append(s, x)[n] = s[n]
      /\ Append(s, x)[Len(s) + 1] = x
  BY <1>2, AppendProperties
<1>4. IsSequence(Append(s, x))
  BY <1>3, SeqOfRange DEF IsSequence
<1>5. Len(s) \in Nat /\ DOMAIN s = 1 .. Len(s)
  BY <1>2
<1>6. DOMAIN Append(s, x) = 1 .. Len(Append(s, x))
  BY <1>3
<1> QED  BY <1>3, <1>4, <1>5, <1>6

\* A span is a word or has one more word than another one.
LEMMA SpanGrows ==
  ASSUME NEW sentence \in Seq(Nat), NEW s \in DOMAIN sentence, NEW e \in DOMAIN sentence, s <= e
  PROVE  /\ SubSeq(sentence, s, e) \in Seq(Nat)
         /\ Len(SubSeq(sentence, s, e)) = e - s + 1
         /\ s = e => SubSeq(sentence, s, e) = Append(RootNode, sentence[e])
         /\ s # e => /\ e - 1 \in DOMAIN sentence /\ s <= e - 1
                     /\ SubSeq(sentence, s, e) = Append(SubSeq(sentence, s, e - 1), sentence[e])
<1>1. /\ s \in Int /\ e \in Int /\ 1 <= s /\ e <= Len(sentence) /\ Len(sentence) \in Nat
      /\ s \in 1 .. Len(sentence) /\ e \in s .. Len(sentence)
      /\ \A k \in s .. e : sentence[k] \in Nat
  OBVIOUS
<1>2. /\ SubSeq(sentence, s, e) \in Seq(Nat)
      /\ Len(SubSeq(sentence, s, e)) = e - s + 1
  BY <1>1, SubSeqProperties
<1>3. /\ e - 1 \in Int /\ \A k \in s .. (e - 1) : sentence[k] \in Nat
      /\ sentence[e] \in Nat
  BY <1>1
<1>4. SubSeq(sentence, s, e - 1) \in Seq(Nat)
  BY <1>1, <1>3, SubSeqProperties
<1>5. SubSeq(sentence, s, e) = SubSeq(sentence, s, e - 1) \o <<sentence[e]>>
  BY <1>1, SubSeqRecursiveSecond
<1>6. SubSeq(sentence, s, e) = Append(SubSeq(sentence, s, e - 1), sentence[e])
  BY <1>3, <1>4, <1>5, AppendIsConcat
<1>7. s = e => SubSeq(sentence, s, e - 1) = RootNode
  <2>1. e - 1 < e
    BY <1>1
  <2> QED  BY <1>1, <1>3, <2>1, SubSeqEmpty DEF RootNode
<1>8. s # e => e - 1 \in DOMAIN sentence /\ s <= e - 1
  BY <1>1
<1> QED  BY <1>2, <1>6, <1>7, <1>8

\* A node has those above it.
LEMMA TableIsClosed ==
  ASSUME NEW num, NEW lines \in Seq(TableLines), NEW p \in Seq(Nat), NEW w \in Nat,
         Append(p, w) \in DOMAIN Load(lines, num)
  PROVE  p \in DOMAIN Load(lines, num)
<1> DEFINE longer == Append(p, w)
<1>1. longer # RootNode
  BY AppendProperties DEF RootNode
<1>2. PICK m \in DOMAIN lines : longer \in Beginnings(lines[m].source)
  <2>1. longer \in {RootNode} \union UNION {Beginnings(lines[m].source) : m \in DOMAIN lines}
    <3> HIDE DEF longer
    <3>1. longer \in DOMAIN Load(lines, num)
      BY DEF longer
    <3> QED  BY <3>1, LoadIs
  <2> HIDE DEF longer
  <2> QED  BY <1>1, <2>1
<1> DEFINE source == lines[m].source
<1>3. source \in Seq(Nat)
  <2>1. lines[m] \in TableLines
    OBVIOUS
  <2> QED  BY <2>1 DEF TableLines
<1> HIDE DEF source, longer
<1>4. PICK n \in DOMAIN source : longer = SubSeq(source, 1, n)
  BY <1>2 DEF Beginnings, source
<1>5. 1 \in DOMAIN source /\ 1 <= n
  BY <1>3
<1>6. /\ n = 1 => longer = Append(RootNode, source[n])
      /\ n # 1 => n - 1 \in DOMAIN source /\ longer = Append(SubSeq(source, 1, n - 1), source[n])
  BY <1>3, <1>4, <1>5, SpanGrows
<1>7. source[n] \in Nat
  BY <1>3
<1>8. \A q \in Seq(Nat) : longer = Append(q, source[n]) => p = q
  BY <1>7, AppendInjective DEF longer
<1>9. CASE n = 1
  <2>1. RootNode \in Seq(Nat)
    BY DEF RootNode
  <2>2. p = RootNode
    BY <1>6, <1>8, <1>9, <2>1
  <2> QED  BY <2>2, LoadIs
<1>10. CASE n # 1
  <2>1. SubSeq(source, 1, n - 1) \in Seq(Nat)
    <3>1. n - 1 \in DOMAIN source /\ 1 <= n - 1
      BY <1>3, <1>5, <1>6, <1>10
    <3> QED  BY <1>3, <1>5, <3>1, SpanGrows
  <2>2. p = SubSeq(source, 1, n - 1)
    BY <1>6, <1>8, <1>10, <2>1
  <2>3. p \in Beginnings(source)
    BY <1>6, <1>10, <2>2 DEF Beginnings
  <2>4. p \in UNION {Beginnings(lines[k].source) : k \in DOMAIN lines}
    BY <2>3 DEF source
  <2> QED  BY <2>4, LoadIs
<1> QED  BY <1>9, <1>10

LEMMA WordsAreKnown ==
  ASSUME NEW num, NEW lines \in Seq(TableLines), NEW words \in Seq(Nat), Len(words) > 0,
         words \in DOMAIN Load(lines, num)
  PROVE  \E n \in DOMAIN lines : IsPrefix(words, lines[n].source)
<1>1. words # RootNode
  BY DEF RootNode
<1>2. PICK m \in DOMAIN lines : words \in Beginnings(lines[m].source)
  <2>1. words \in {RootNode} \union UNION {Beginnings(lines[m].source) : m \in DOMAIN lines}
    BY LoadIs
  <2> QED  BY <1>1, <2>1
<1> DEFINE source == lines[m].source
<1>3. source \in Seq(Nat)
  <2>1. lines[m] \in TableLines
    OBVIOUS
  <2> QED  BY <2>1 DEF TableLines
<1> HIDE DEF source
<1>4. PICK n \in DOMAIN source : words = SubSeq(source, 1, n)
  BY <1>2 DEF Beginnings, source
<1>5. 1 \in DOMAIN source /\ 1 <= n /\ n <= Len(source)
  BY <1>3
<1>6. Len(words) = n
  BY <1>3, <1>4, <1>5, SpanGrows
<1>7. SubSeq(words, 1, Len(words)) = words
  BY SubSeqFull
<1>8. IsPrefix(words, source)
  BY <1>4, <1>5, <1>6, <1>7 DEF IsPrefix
<1> QED  BY <1>8 DEF source

WordsOfSpan(sentence, range) == SubSeq(sentence, range.startPos + 1, range.endPos + 1)

NodeFor(table, words) == IF words \in DOMAIN table THEN words ELSE NoNode

\* The step from the node of a shorter span finds the node of the span.
LEMMA LookupFinds ==
  ASSUME NEW num, NEW lines \in Seq(TableLines), NEW sentence \in Seq(Nat),
         NEW path \in Ranges, path.startPos <= path.endPos, path.endPos < Len(sentence),
         NEW prevNode,
         path.startPos # path.endPos =>
           prevNode = NodeFor(Load(lines, num),
                              WordsOfSpan(sentence, Path(path.startPos, path.endPos - 1)))
  PROVE  /\ LookupNode(Load(lines, num), sentence, path, prevNode)
              = NodeFor(Load(lines, num), WordsOfSpan(sentence, path))
         /\ WordsOfSpan(sentence, path) # NoNode
<1> DEFINE t == Load(lines, num)
           s == path.startPos + 1
           e == path.endPos + 1
           w == sentence[e]
<1>1. s \in DOMAIN sentence /\ e \in DOMAIN sentence /\ s <= e /\ w \in Nat
      /\ (s = e <=> path.startPos = path.endPos)
  BY DEF Ranges
<1>2. WordsOfSpan(sentence, path) = SubSeq(sentence, s, e) /\ NextWord(sentence, path) = w
  BY DEF WordsOfSpan, NextWord
<1>3. /\ SubSeq(sentence, s, e) \in Seq(Nat)
      /\ s = e => SubSeq(sentence, s, e) = Append(RootNode, w)
      /\ s # e => /\ e - 1 \in DOMAIN sentence /\ s <= e - 1
                  /\ SubSeq(sentence, s, e) = Append(SubSeq(sentence, s, e - 1), w)
  <2> HIDE DEF s, e
  <2> QED  BY <1>1, SpanGrows
<1>4. \A p \in Seq(Nat) : p # NoNode
  <2> SUFFICES ASSUME NEW p \in Seq(Nat), p = <<-1>>  PROVE FALSE
    BY DEF NoNode
  <2>1. Len(p) = 1 /\ p[1] = -1
    OBVIOUS
  <2>2. p[1] \in Nat
    BY <2>1
  <2> QED  BY <2>1, <2>2
<1>5. RootNode \in Seq(Nat)
  BY DEF RootNode
<1>6. CASE s = e
  <2>1. path.startPos = path.endPos
    BY <1>1, <1>6
  <2>2. RootNode # NoNode /\ SubSeq(sentence, s, e) = Append(RootNode, w)
    BY <1>3, <1>4, <1>5, <1>6
  <2> HIDE DEF s, e, w, t
  <2>3. LookupNode(t, sentence, path, prevNode) = NodeFor(t, WordsOfSpan(sentence, path))
    BY <1>2, <2>1, <2>2 DEF LookupNode, NodeFor
  <2> QED  BY <1>2, <1>3, <1>4, <2>3 DEF t
<1>7. CASE s # e
  <2> DEFINE shorter == SubSeq(sentence, s, e - 1)
  <2>1. path.startPos # path.endPos
    BY <1>1, <1>7
  <2>2. /\ Path(path.startPos, path.endPos - 1).startPos + 1 = s
        /\ Path(path.startPos, path.endPos - 1).endPos + 1 = e - 1
    BY DEF Path, Ranges
  <2>3. prevNode = NodeFor(t, shorter)
    BY <2>1, <2>2 DEF WordsOfSpan
  <2>4. shorter \in Seq(Nat) /\ SubSeq(sentence, s, e) = Append(shorter, w)
    <3> HIDE DEF s, e
    <3>1. e - 1 \in DOMAIN sentence /\ s <= e - 1 /\ s \in DOMAIN sentence
      BY <1>1, <1>3, <1>7
    <3>2. shorter \in Seq(Nat)
      BY <3>1, SpanGrows
    <3> QED  BY <1>3, <1>7, <3>2
  <2>5. Append(shorter, w) \in DOMAIN t => shorter \in DOMAIN t
    <3> HIDE DEF shorter, w
    <3> QED  BY <1>1, <2>4, TableIsClosed DEF w
  <2>6. shorter # NoNode
    BY <1>4, <2>4
  <2> HIDE DEF s, e, w, t, shorter
  <2>7. LookupNode(t, sentence, path, prevNode) = NodeFor(t, WordsOfSpan(sentence, path))
    BY <1>2, <2>1, <2>3, <2>4, <2>5, <2>6 DEF LookupNode, NodeFor
  <2> QED  BY <1>2, <1>3, <1>4, <2>7 DEF t
<1> QED  BY <1>6, <1>7

-----------------------------------------------------------------------------
(* The invariant *)

Preparing == {"init", "features", "weights"}

Decoding == {"input", "lookup", "initStacks", "initStack", "expand", "processStack",
             "finalizeStack", "adrift", "exit 0"}

TablesLoaded(n) ==
  /\ IsSequence(tables) /\ Len(tables) = n
  /\ n > 0 => /\ ffs[1].path \in DOMAIN TableFiles
              /\ tables[1] = Load(FirstTable, ffs[1].numScores)

\* What the start has done: once a sentence can be read, the tables are there.
Starting ==
  /\ IsSequence(ffs)
  /\ pc \in Preparing \union {"load"} => said = <<>> /\ ~fault
  /\ pc \in Preparing => tables = <<>>
  /\ pc = "load" => next \in 1 .. (Len(ffs) + 1) /\ TablesLoaded(next - 1)
  /\ pc \in Decoding => TablesLoaded(Len(ffs))

Spoken ==
  /\ said \in Seq(Seq(Nat))
  /\ pc \in Decoding \ {"input", "exit 0"} => said # <<>>
  /\ pc \in Decoding /\ ffs = <<>> => \A m \in DOMAIN said : said[m] = <<>>

Entry(n, tps) ==
  LET path == InputPaths(Sentence)[n]
  IN  [range |-> path, node |-> NodeFor(tables[1], WordsOfSpan(Sentence, path)), tps |-> tps]

\* The lookup has found the node of each span so far: the next one goes on
\* from one of these.
LookedUpSoFar ==
  pc = "lookup" =>
    /\ next \in 1 .. (Len(InputPaths(Sentence)) + 1)
    /\ IsSequence(pathInfo) /\ Len(pathInfo) = next - 1
    /\ \A n \in 1 .. (next - 1) : pathInfo[n] = Entry(n, <<>>)

OnTheDevice ==
  pc = "initStacks" =>
    /\ DOMAIN pathInfo = DOMAIN InputPaths(Sentence)
    /\ \A n \in DOMAIN pathInfo :
         pathInfo[n] = Entry(n, PhrasesOf(Entry(n, <<>>).node))

Known(sentence) ==
  \A s, e \in DOMAIN sentence :
    s <= e => \E n \in DOMAIN FirstTable :
                IsPrefix(SubSeq(sentence, s, e), FirstTable[n].source)

\* While the device has not failed, what has been looked up is known.
KnownSoFar ==
  /\ fault \in BOOLEAN
  /\ pc \in Decoding /\ ~fault =>
       \A m \in DOMAIN said : Known(said[m]) \/ (pc = "lookup" /\ m = Len(said))
  /\ pc = "exit 0" => ~fault

LegacyInv ==
  Starting /\ Spoken /\ LookedUpSoFar /\ OnTheDevice /\ KnownSoFar

LEMMA EmptyIsSequence == IsSequence(<<>>)
BY EmptySeq DEF IsSequence

LEMMA LegacyStarts == Init => LegacyInv
<1> SUFFICES ASSUME Init  PROVE LegacyInv
  OBVIOUS
<1>1. pc = "init" /\ said = <<>> /\ fault = FALSE /\ tables = <<>> /\ ffs = <<>>
  BY DEF Init, SystemInit
<1>2. Starting
  BY <1>1, EmptyIsSequence DEF Starting, Preparing, Decoding
<1>3. Spoken
  BY <1>1 DEF Spoken, Decoding
<1>4. LookedUpSoFar /\ OnTheDevice /\ KnownSoFar
  BY <1>1 DEF LookedUpSoFar, OnTheDevice, KnownSoFar, Decoding
<1> QED  BY <1>2, <1>3, <1>4 DEF LegacyInv

\* Before the input there is no sentence to say anything of.
LEMMA PreparingKeeps ==
  ASSUME LegacyInv, SystemNext, UNCHANGED <<said, fault, searchVars>>
  PROVE  LegacyInv'
<1>1. /\ pc \in Preparing \union {"load"}
      /\ pc' \in Preparing \union {"load", "input", "crash", "exit 1"}
  BY DEF SystemNext, InitFeature, FeaturesDone, InitWeight, WeightsDone, LoadTable, LoadDone,
         ReadIni, Preparing
<1>2. said = <<>> /\ ~fault /\ IsSequence(ffs) /\ said' = <<>> /\ fault' = fault /\ fault = FALSE
  BY <1>1 DEF LegacyInv, Starting, KnownSoFar
<1>3. said' \in Seq(Seq(Nat)) /\ DOMAIN said' = {}
  BY <1>2, EmptySeq
<1>4. Spoken' /\ LookedUpSoFar' /\ OnTheDevice' /\ KnownSoFar'
  BY <1>1, <1>2, <1>3
  DEF Spoken, LookedUpSoFar, OnTheDevice, KnownSoFar, Preparing, Decoding
<1>5. Starting'
  <2>1. CASE (\E lines \in IniFiles : ReadIni(lines)) \/ FeaturesDone \/ InitWeight
    <3>1. /\ pc \in Preparing /\ pc' \in Preparing \union {"crash"}
          /\ ffs' = ffs /\ tables' = tables
      BY <2>1 DEF ReadIni, FeaturesDone, InitWeight, Preparing
    <3>2. tables = <<>>
      BY <3>1 DEF LegacyInv, Starting
    <3> QED  BY <1>2, <3>1, <3>2 DEF Starting, Preparing, Decoding
  <2>2. CASE InitFeature
    <3>1. /\ pc = "features" /\ pc' \in {"features", "crash"} /\ tables' = tables
          /\ ffs' = ffs \/ \E x : ffs' = Append(ffs, x)
      BY <2>2 DEF InitFeature
    <3>2. IsSequence(ffs')
      <4>1. \A x : IsSequence(Append(ffs, x))
        BY <1>2, SequenceGrows
      <4> QED  BY <1>2, <3>1, <4>1
    <3>3. tables = <<>>
      BY <3>1 DEF LegacyInv, Starting, Preparing
    <3> QED  BY <1>2, <3>1, <3>2, <3>3 DEF Starting, Preparing, Decoding
  <2>3. CASE WeightsDone
    <3>1. pc = "weights" /\ pc' = "load" /\ next' = 1 /\ ffs' = ffs /\ tables' = tables
      BY <2>3 DEF WeightsDone
    <3>2. tables = <<>> /\ Len(ffs) \in Nat
      BY <1>2, <3>1, SequenceGrows DEF LegacyInv, Starting, Preparing
    <3>3. IsSequence(tables') /\ Len(tables') = 0
      BY <3>1, <3>2, EmptyIsSequence
    <3>4. TablesLoaded(next - 1)'
      BY <3>1, <3>3 DEF TablesLoaded
    <3> QED  BY <1>2, <3>1, <3>2, <3>4 DEF Starting, Preparing, Decoding
  <2>4. CASE LoadTable
    <3> DEFINE new == Load(TableFiles[ffs[next].path], ffs[next].numScores)
    <3>1. /\ pc = "load" /\ ffs' = ffs /\ next \in DOMAIN ffs
          /\ \/ /\ pc' = "load" /\ next' = next + 1 /\ tables' = Append(tables, new)
                /\ ffs[next].path \in DOMAIN TableFiles
             \/ pc' \in {"exit 1", "crash"}
      BY <2>4 DEF LoadTable
    <3>2. next \in 1 .. (Len(ffs) + 1) /\ TablesLoaded(next - 1) /\ Len(ffs) \in Nat
          /\ DOMAIN ffs = 1 .. Len(ffs)
      BY <1>2, <3>1, SequenceGrows DEF LegacyInv, Starting
    <3>3. CASE pc' # "load"
      BY <1>2, <3>1, <3>3 DEF Starting, Preparing, Decoding
    <3>4. CASE pc' = "load"
      <4>1. IsSequence(tables) /\ Len(tables) = next - 1
        BY <3>2 DEF TablesLoaded
      <4> HIDE DEF new
      <4>2. /\ next' = next + 1 /\ tables' = Append(tables, new)
            /\ ffs[next].path \in DOMAIN TableFiles
        BY <3>1, <3>4
      <4>3. /\ IsSequence(tables') /\ Len(tables') = next
            /\ \A n \in 1 .. (next - 1) : tables'[n] = tables[n]
            /\ tables'[next] = new
        <5>1. /\ IsSequence(Append(tables, new))
              /\ Len(Append(tables, new)) = Len(tables) + 1
              /\ \A n \in 1 .. Len(tables) : Append(tables, new)[n] = tables[n]
              /\ Append(tables, new)[Len(tables) + 1] = new
          BY <4>1, SequenceGrows
        <5> QED  BY <3>2, <4>1, <4>2, <5>1
      <4>4. /\ ffs[1].path \in DOMAIN TableFiles
            /\ tables'[1] = Load(FirstTable, ffs[1].numScores)
        <5>1. CASE next = 1
          BY <4>2, <4>3, <5>1 DEF new, FirstTable
        <5>2. CASE next # 1
          <6>1. next - 1 > 0 /\ 1 \in 1 .. (next - 1)
            BY <3>2, <5>2
          <6> QED  BY <3>2, <4>3, <6>1 DEF TablesLoaded
        <5> QED  BY <5>1, <5>2
      <4>5. FirstTable' = FirstTable
        BY <3>1 DEF FirstTable
      <4>6. next' - 1 = next /\ next' \in 1 .. (Len(ffs) + 1)
        <5>1. next \in 1 .. Len(ffs) /\ Len(ffs) \in Nat
          BY <3>1, <3>2
        <5> QED  BY <4>2, <5>1
      <4>7. TablesLoaded(next - 1)'
        BY <3>1, <4>3, <4>4, <4>5, <4>6 DEF TablesLoaded
      <4> QED  BY <1>2, <3>1, <3>4, <4>6, <4>7 DEF Starting, Preparing, Decoding
    <3> QED  BY <3>3, <3>4
  <2>5. CASE LoadDone
    <3>1. /\ pc = "load" /\ pc' = "input" /\ next = Len(ffs) + 1 /\ ffs' = ffs /\ tables' = tables
          /\ Len(ffs) \in Nat
      BY <1>2, <2>5, SequenceGrows DEF LoadDone, systemVars, config
    <3>2. TablesLoaded(Len(ffs))
      BY <3>1 DEF LegacyInv, Starting
    <3>3. TablesLoaded(Len(ffs))'
      BY <3>1, <3>2 DEF TablesLoaded, FirstTable
    <3> QED  BY <1>2, <3>1, <3>3 DEF Starting, Preparing, Decoding
  <2> QED  BY <2>1, <2>2, <2>3, <2>4, <2>5 DEF SystemNext
<1> QED  BY <1>4, <1>5 DEF LegacyInv

LEMMA SentenceIs ==
  ASSUME LegacyInv, said # <<>>
  PROVE  /\ Len(said) \in DOMAIN said /\ Sentence = said[Len(said)]
         /\ Sentence \in Seq(Nat) /\ Len(Sentence) \in Nat
         /\ InputPaths(Sentence) \in Seq(Ranges) /\ Len(InputPaths(Sentence)) \in Nat
<1>1. said \in Seq(Seq(Nat))
  BY DEF LegacyInv, Spoken
<1>2. Len(said) \in DOMAIN said
  BY <1>1, EmptySeq
<1>3. Sentence = said[Len(said)]
  BY DEF Sentence, Last
<1> DEFINE X == Seq(Nat)
<1>4. said[Len(said)] \in X
  <2> HIDE DEF X
  <2>1. said \in Seq(X)
    BY <1>1 DEF X
  <2> QED  BY <1>2, <2>1
<1>5. Len(Sentence) \in Nat
  BY <1>3, <1>4
<1>6. InputPaths(Sentence) \in Seq(Ranges)
  BY <1>5, PathsAre
<1> QED  BY <1>2, <1>3, <1>4, <1>5, <1>6

\* With a table, what the lookup goes through is the first one's.
LEMMA FirstTableIs ==
  ASSUME LegacyInv, pc \in Decoding, ffs # <<>>
  PROVE  /\ FirstTable \in Seq(TableLines)
         /\ tables[1] = Load(FirstTable, ffs[1].numScores)
<1>1. IsSequence(ffs) /\ TablesLoaded(Len(ffs))
  BY DEF LegacyInv, Starting
<1>2. Len(ffs) > 0
  <2>1. PICK S : ffs \in Seq(S)
    BY <1>1 DEF IsSequence
  <2> QED  BY <2>1, EmptySeq
<1> QED  BY <1>1, <1>2, TablesAssumption DEF TablesLoaded, FirstTable

LEMMA ReadSentenceKeeps ==
  ASSUME LegacyInv, NEW line \in Sentences, ReadSentence(line)
  PROVE  LegacyInv'
<1>1. /\ pc = "input" /\ pc' = IF ffs = <<>> /\ line # <<>> THEN "crash" ELSE "lookup"
      /\ said' = Append(said, line) /\ pathInfo' = <<>> /\ next' = 1
      /\ ffs' = ffs /\ tables' = tables /\ fault' = fault
  BY DEF ReadSentence, config
<1>2. CASE pc' = "crash"
  <2>1. Spoken'
    <3> DEFINE X == Seq(Nat)
    <3> HIDE DEF X
    <3>1. said \in Seq(X) /\ line \in X
      BY SentencesAssumption DEF LegacyInv, Spoken, X
    <3>2. said' \in Seq(X)
      BY <1>1, <3>1
    <3> QED  BY <1>2, <3>2 DEF Spoken, Decoding, X
  <2>2. IsSequence(ffs') /\ fault' \in BOOLEAN
    BY <1>1 DEF LegacyInv, Starting, KnownSoFar
  <2> QED  BY <1>2, <2>1, <2>2
           DEF LegacyInv, Starting, LookedUpSoFar, OnTheDevice, KnownSoFar, Decoding, Preparing
<1>3. CASE pc' = "lookup"
  <2> DEFINE X == Seq(Nat)
  <2> HIDE DEF X
  <2>1. said \in Seq(X) /\ line \in X
    BY SentencesAssumption DEF LegacyInv, Spoken, X
  <2>2. /\ said' \in Seq(X) /\ Len(said') = Len(said) + 1 /\ Len(said) \in Nat
        /\ \A m \in 1 .. Len(said) : said'[m] = said[m]
        /\ said'[Len(said)+1] = line
        /\ DOMAIN said' = 1 .. (Len(said) + 1) /\ DOMAIN said = 1 .. Len(said)
        /\ said' # <<>>
    BY <1>1, <2>1, AppendProperties
  <2>3. Spoken'
    <3>1. ASSUME ffs = <<>>, NEW m \in DOMAIN said'
          PROVE  said'[m] = <<>>
      <4>1. line = <<>> /\ \A k \in DOMAIN said : said[k] = <<>>
        BY <1>1, <1>3, <3>1 DEF LegacyInv, Spoken, Decoding
      <4> QED  BY <2>2, <4>1
    <3> QED  BY <1>1, <2>2, <3>1 DEF Spoken, X
  <2>4. Starting'
    <3>1. IsSequence(ffs) /\ TablesLoaded(Len(ffs))
      BY <1>1 DEF LegacyInv, Starting, Decoding
    <3>2. TablesLoaded(Len(ffs))'
      BY <1>1, <3>1 DEF TablesLoaded, FirstTable
    <3> QED  BY <1>1, <1>3, <3>1, <3>2 DEF Starting, Preparing
  <2>5. LookedUpSoFar'
    <3>1. Sentence' = line /\ Len(line) \in Nat
      BY <2>1, <2>2 DEF Sentence, Last, X
    <3>2. Len(InputPaths(line)) \in Nat
      <4>1. InputPaths(line) \in Seq(Ranges)
        BY <3>1, PathsAre
      <4> QED  BY <4>1
    <3>3. IsSequence(pathInfo') /\ Len(pathInfo') = 0
      BY <1>1, EmptyIsSequence
    <3>4. next' = 1 /\ next' \in 1 .. (Len(InputPaths(Sentence')) + 1)
      BY <1>1, <3>1, <3>2
    <3> QED  BY <3>3, <3>4 DEF LookedUpSoFar
  <2>6. KnownSoFar'
    <3>1. ASSUME ~fault, NEW m \in DOMAIN said', m # Len(said')
          PROVE  Known(said[m])'
      <4>1. m \in DOMAIN said /\ said'[m] = said[m]
        BY <2>2, <3>1
      <4>2. Known(said[m])
        BY <1>1, <3>1, <4>1 DEF LegacyInv, KnownSoFar, Decoding
      <4> QED  BY <1>1, <4>1, <4>2 DEF Known, FirstTable
    <3>2. fault' = fault /\ fault \in BOOLEAN
      BY <1>1 DEF LegacyInv, KnownSoFar
    <3> QED  BY <1>3, <3>1, <3>2 DEF KnownSoFar
  <2>7. OnTheDevice'
    BY <1>3 DEF OnTheDevice
  <2> QED  BY <2>3, <2>4, <2>5, <2>6, <2>7 DEF LegacyInv
<1> QED  BY <1>1, <1>2, <1>3

LEMMA LookupPathKeeps ==
  ASSUME LegacyInv, LookupPath
  PROVE  LegacyInv'
<1> DEFINE paths == InputPaths(Sentence)
           path == paths[next]
           prev == IF next = 1 THEN NoNode ELSE pathInfo[next - 1].node
           new == [range |-> path, node |-> LookupNode(tables[1], Sentence, path, prev),
                   tps |-> <<>>]
<1>1. /\ pc = "lookup" /\ pc' = "lookup" /\ next \in DOMAIN paths
      /\ pathInfo' = Append(pathInfo, new) /\ next' = next + 1
      /\ ffs' = ffs /\ tables' = tables /\ said' = said /\ fault' = fault
  BY DEF LookupPath, config
<1>2. /\ next \in 1 .. (Len(paths) + 1) /\ IsSequence(pathInfo) /\ Len(pathInfo) = next - 1
      /\ \A n \in 1 .. (next - 1) : pathInfo[n] = Entry(n, <<>>)
  BY <1>1 DEF LegacyInv, LookedUpSoFar
<1>3. said # <<>>
  BY <1>1 DEF LegacyInv, Spoken, Decoding
<1>4. /\ Len(said) \in DOMAIN said /\ Sentence = said[Len(said)]
      /\ Sentence \in Seq(Nat) /\ Len(Sentence) \in Nat
      /\ Len(paths) \in Nat /\ DOMAIN paths = 1 .. Len(paths)
  BY <1>3, SentenceIs
<1>5. /\ path \in Ranges /\ path.startPos <= path.endPos /\ path.endPos < Len(Sentence)
      /\ path.startPos # path.endPos =>
           next - 1 \in DOMAIN paths /\ paths[next - 1] = Path(path.startPos, path.endPos - 1)
  <2> DEFINE sentence == Sentence
  <2> HIDE DEF sentence
  <2>1. Len(sentence) \in Nat /\ next \in DOMAIN InputPaths(sentence)
    BY <1>1, <1>4 DEF sentence
  <2> QED  BY <2>1, PathsAre DEF sentence
<1>6. ffs # <<>>
  <2>1. Sentence # <<>>
    BY <1>5, EmptySeq DEF Ranges
  <2> QED  BY <1>1, <1>4, <2>1 DEF LegacyInv, Spoken, Decoding
<1>7. FirstTable \in Seq(TableLines) /\ tables[1] = Load(FirstTable, ffs[1].numScores)
  BY <1>1, <1>6, FirstTableIs DEF Decoding
<1>8. path.startPos # path.endPos =>
        prev = NodeFor(tables[1], WordsOfSpan(Sentence, Path(path.startPos, path.endPos - 1)))
  <2> SUFFICES ASSUME path.startPos # path.endPos
               PROVE  prev = NodeFor(tables[1],
                               WordsOfSpan(Sentence, Path(path.startPos, path.endPos - 1)))
    OBVIOUS
  <2>1. next - 1 \in 1 .. Len(paths) /\ paths[next - 1] = Path(path.startPos, path.endPos - 1)
    BY <1>4, <1>5
  <2>2. next # 1 /\ next - 1 \in 1 .. (next - 1)
    BY <1>2, <2>1
  <2>3. pathInfo[next - 1] = Entry(next - 1, <<>>)
    BY <1>2, <2>2
  <2>4. Entry(next - 1, <<>>).node = NodeFor(tables[1], WordsOfSpan(Sentence, paths[next - 1]))
    BY DEF Entry
  <2> QED  BY <2>1, <2>2, <2>3, <2>4
<1> HIDE DEF paths, path, prev
<1>9. LookupNode(tables[1], Sentence, path, prev) = NodeFor(tables[1], WordsOfSpan(Sentence, path))
  <2> DEFINE sentence == Sentence
             lines == FirstTable
             num == ffs[1].numScores
             t == tables[1]
  <2>1. /\ lines \in Seq(TableLines) /\ sentence \in Seq(Nat) /\ path.endPos < Len(sentence)
        /\ t = Load(lines, num) /\ path \in Ranges /\ path.startPos <= path.endPos
        /\ path.startPos # path.endPos =>
             prev = NodeFor(t, WordsOfSpan(sentence, Path(path.startPos, path.endPos - 1)))
    BY <1>4, <1>5, <1>7, <1>8
  <2> HIDE DEF sentence, lines, num, t
  <2>2. LookupNode(t, sentence, path, prev) = NodeFor(t, WordsOfSpan(sentence, path))
    BY <2>1, LookupFinds
  <2> QED  BY <2>2 DEF sentence, t
<1>10. new = Entry(next, <<>>)
  BY <1>9 DEF Entry, path, paths
<1>11. Sentence' = Sentence /\ \A n, tps : Entry(n, tps)' = Entry(n, tps)
  BY <1>1 DEF Sentence, Entry
<1>12. LookedUpSoFar'
  <2> HIDE DEF new
  <2>1. /\ IsSequence(pathInfo') /\ Len(pathInfo') = next
        /\ \A n \in 1 .. (next - 1) : pathInfo'[n] = pathInfo[n]
        /\ pathInfo'[next] = new
    <3>1. /\ IsSequence(Append(pathInfo, new))
          /\ Len(Append(pathInfo, new)) = Len(pathInfo) + 1
          /\ \A n \in 1 .. Len(pathInfo) : Append(pathInfo, new)[n] = pathInfo[n]
          /\ Append(pathInfo, new)[Len(pathInfo) + 1] = new
      BY <1>2, SequenceGrows
    <3> QED  BY <1>1, <1>2, <3>1
  <2>2. \A n \in 1 .. next : pathInfo'[n] = Entry(n, <<>>)
    BY <1>2, <1>10, <2>1
  <2>3. next' - 1 = next /\ next' \in 1 .. (Len(paths) + 1)
    <3>1. next \in 1 .. Len(paths) /\ Len(paths) \in Nat /\ next' = next + 1
      BY <1>1, <1>4
    <3> QED  BY <3>1
  <2>4. InputPaths(Sentence)' = paths
    BY <1>11 DEF paths
  <2> QED  BY <1>11, <2>1, <2>2, <2>3, <2>4 DEF LookedUpSoFar
<1>13. Starting' /\ Spoken'
  <2>1. TablesLoaded(Len(ffs))
    BY <1>1 DEF LegacyInv, Starting, Decoding
  <2>2. TablesLoaded(Len(ffs))'
    BY <1>1, <2>1 DEF TablesLoaded, FirstTable
  <2>3. Starting'
    BY <1>1, <2>2 DEF LegacyInv, Starting, Preparing
  <2> QED  BY <1>1, <2>3 DEF LegacyInv, Spoken
<1>14. OnTheDevice' /\ KnownSoFar'
  BY <1>1 DEF LegacyInv, OnTheDevice, KnownSoFar, Known, FirstTable
<1> QED  BY <1>12, <1>13, <1>14 DEF LegacyInv

LEMMA WriteMemoryKeeps ==
  ASSUME LegacyInv, WriteMemory
  PROVE  LegacyInv'
<1> DEFINE paths == InputPaths(Sentence)
<1>1. /\ pc = "lookup" /\ pc' \in {"initStacks", "adrift", "exit 1"} /\ next = Len(paths) + 1
      /\ pathInfo' = [n \in DOMAIN pathInfo |->
                        [pathInfo[n] EXCEPT !.tps = PhrasesOf(pathInfo[n].node)]]
      /\ fault' \in BOOLEAN
      /\ ~fault' => ~fault /\ \A n \in DOMAIN pathInfo : pathInfo[n].node # NoNode
      /\ ffs' = ffs /\ tables' = tables /\ said' = said
  BY DEF WriteMemory, Checked, config, systemVars
<1>2. /\ IsSequence(pathInfo) /\ Len(pathInfo) = next - 1
      /\ \A n \in 1 .. (next - 1) : pathInfo[n] = Entry(n, <<>>)
  BY <1>1 DEF LegacyInv, LookedUpSoFar
<1>3. said # <<>>
  BY <1>1 DEF LegacyInv, Spoken, Decoding
<1>4. /\ Len(said) \in DOMAIN said /\ Sentence = said[Len(said)]
      /\ Sentence \in Seq(Nat) /\ Len(Sentence) \in Nat
      /\ Len(paths) \in Nat /\ DOMAIN paths = 1 .. Len(paths)
  BY <1>3, SentenceIs
<1>5. DOMAIN pathInfo = DOMAIN paths /\ \A n \in DOMAIN paths : pathInfo[n] = Entry(n, <<>>)
  <2>1. DOMAIN pathInfo = 1 .. Len(pathInfo)
    BY <1>2, SequenceGrows
  <2>2. next - 1 = Len(paths)
    <3>1. next = Len(paths) + 1 /\ Len(paths) \in Nat
      BY <1>1, <1>4
    <3> QED  BY <3>1
  <2> QED  BY <1>2, <1>4, <2>1, <2>2
<1>6. Sentence' = Sentence /\ \A n, tps : Entry(n, tps)' = Entry(n, tps)
  BY <1>1 DEF Sentence, Entry
<1>7. OnTheDevice'
  <2>1. ASSUME NEW n \in DOMAIN paths
        PROVE  pathInfo'[n] = Entry(n, PhrasesOf(Entry(n, <<>>).node))
    <3>1. pathInfo'[n] = [Entry(n, <<>>) EXCEPT !.tps = PhrasesOf(Entry(n, <<>>).node)]
      BY <1>1, <1>5
    <3>2. \A tps : [Entry(n, <<>>) EXCEPT !.tps = tps] = Entry(n, tps)
      BY DEF Entry
    <3> QED  BY <3>1, <3>2
  <2>2. \A node : PhrasesOf(node)' = PhrasesOf(node)
    BY <1>1 DEF PhrasesOf
  <2>3. DOMAIN pathInfo' = DOMAIN paths /\ InputPaths(Sentence)' = paths
    BY <1>1, <1>5, <1>6
  <2>4. \A n \in DOMAIN paths : pathInfo'[n] = Entry(n, PhrasesOf(Entry(n, <<>>).node))'
    BY <1>6, <2>1, <2>2
  <2> HIDE DEF paths
  <2> QED  BY <2>3, <2>4 DEF OnTheDevice
<1>8. Starting' /\ Spoken' /\ LookedUpSoFar'
  <2>1. TablesLoaded(Len(ffs))
    BY <1>1 DEF LegacyInv, Starting, Decoding
  <2>2. TablesLoaded(Len(ffs))'
    BY <1>1, <2>1 DEF TablesLoaded, FirstTable
  <2>3. Starting'
    BY <1>1, <2>2 DEF LegacyInv, Starting, Preparing
  <2>4. Spoken'
    BY <1>1 DEF LegacyInv, Spoken, Decoding
  <2> QED  BY <1>1, <2>3, <2>4 DEF LookedUpSoFar
<1>9. KnownSoFar'
  <2>1. ASSUME ~fault'
        PROVE  Known(Sentence)
    <3> SUFFICES ASSUME NEW s \in DOMAIN Sentence, NEW e \in DOMAIN Sentence, s <= e
                 PROVE  \E n \in DOMAIN FirstTable :
                          IsPrefix(SubSeq(Sentence, s, e), FirstTable[n].source)
      BY DEF Known
    <3>1. ffs # <<>>
      <4>1. Sentence # <<>>
        BY EmptySeq
      <4> QED  BY <1>1, <1>4, <4>1 DEF LegacyInv, Spoken, Decoding
    <3>2. FirstTable \in Seq(TableLines) /\ tables[1] = Load(FirstTable, ffs[1].numScores)
      BY <1>1, <3>1, FirstTableIs DEF Decoding
    <3>3. s \in 1 .. Len(Sentence) /\ e \in 1 .. Len(Sentence)
      BY <1>4
    <3>4. PICK i \in DOMAIN paths : paths[i] = Path(s - 1, e - 1)
      <4> DEFINE sentence == Sentence
      <4>1. /\ Len(sentence) \in Nat /\ s \in 1 .. Len(sentence) /\ e \in 1 .. Len(sentence)
            /\ s <= e
        BY <1>4, <3>3
      <4> HIDE DEF sentence
      <4>2. \E i \in DOMAIN InputPaths(sentence) : InputPaths(sentence)[i] = Path(s - 1, e - 1)
        BY <4>1, PathsAre
      <4> QED  BY <4>2 DEF sentence
    <3>5. WordsOfSpan(Sentence, paths[i]) = SubSeq(Sentence, s, e)
      <4>1. (s - 1) + 1 = s /\ (e - 1) + 1 = e
        BY <1>4, <3>3
      <4>2. paths[i].startPos = s - 1 /\ paths[i].endPos = e - 1
        BY <3>4 DEF Path
      <4> HIDE DEF paths
      <4> QED  BY <4>1, <4>2 DEF WordsOfSpan
    <3>6. pathInfo[i].node # NoNode
      BY <1>1, <1>5, <2>1
    <3>7. pathInfo[i].node = NodeFor(tables[1], WordsOfSpan(Sentence, paths[i]))
      BY <1>5 DEF Entry
    <3>8. SubSeq(Sentence, s, e) \in DOMAIN tables[1]
      BY <3>5, <3>6, <3>7 DEF NodeFor
    <3> DEFINE words == SubSeq(Sentence, s, e)
               lines == FirstTable
               num == ffs[1].numScores
    <3>9. words \in Seq(Nat) /\ Len(words) > 0
      <4> DEFINE sentence == Sentence
      <4>1. /\ sentence \in Seq(Nat) /\ s \in DOMAIN sentence /\ e \in DOMAIN sentence
        BY <1>4
      <4> HIDE DEF sentence
      <4>2. SubSeq(sentence, s, e) \in Seq(Nat) /\ Len(SubSeq(sentence, s, e)) = e - s + 1
        BY <4>1, SpanGrows
      <4>3. e - s + 1 > 0
        BY <1>4, <3>3
      <4> QED  BY <4>2, <4>3 DEF sentence
    <3>10. lines \in Seq(TableLines) /\ words \in DOMAIN Load(lines, num)
      BY <3>2, <3>8
    <3> HIDE DEF words, lines, num
    <3>11. \E n \in DOMAIN lines : IsPrefix(words, lines[n].source)
      BY <3>9, <3>10, WordsAreKnown
    <3> QED  BY <3>11 DEF words, lines
  <2>2. ASSUME ~fault', NEW m \in DOMAIN said
        PROVE  Known(said[m])
    <3>1. CASE m = Len(said)
      BY <1>4, <2>1, <2>2, <3>1
    <3>2. CASE m # Len(said)
      BY <1>1, <2>2, <3>2 DEF LegacyInv, KnownSoFar, Decoding
    <3> QED  BY <3>1, <3>2
  <2>3. ASSUME ~fault', NEW m \in DOMAIN said
        PROVE  Known(said[m])'
    BY <1>1, <2>2, <2>3 DEF Known, FirstTable
  <2> QED  BY <1>1, <2>3 DEF KnownSoFar
<1> QED  BY <1>7, <1>8, <1>9 DEF LegacyInv

\* The kernels read what there is: neither the sentences nor the tables change,
\* and a failure stays.
Searching == {"initStack", "expand", "processStack", "finalizeStack"}

SearchStep ==
  \/ InitStacks \/ InitStack \/ Expand \/ StackInitialised
  \/ \E t \in Threads : TestValid(t) \/ Judge(t)
  \/ StartFinalize \/ FinalizeHypo \/ StackFinished
  \/ WriteOver \/ Adrift

LEMMA SearchStepIs ==
  ASSUME SearchStep
  PROVE  /\ pc \in Searching \union {"initStacks", "adrift"}
         /\ pc' \in Searching \union {"input", "adrift"}
         /\ UNCHANGED config /\ said' = said
         /\ fault \in BOOLEAN => fault' \in BOOLEAN /\ (fault => fault')
<1>1. CASE InitStacks
  BY <1>1 DEF InitStacks, Kernel, Searching, systemVars, config
<1>2. CASE InitStack
  BY <1>2 DEF InitStack, Searching, systemVars, config
<1>3. CASE Expand
  BY <1>3 DEF Expand, Searching, systemVars, config
<1>4. CASE StackInitialised
  BY <1>4 DEF StackInitialised, Searching, systemVars, config
<1>5. CASE \E t \in Threads : TestValid(t) \/ Judge(t)
  BY <1>5 DEF TestValid, Judge, Running, Searching, systemVars, config
<1>6. CASE StartFinalize
  BY <1>6 DEF StartFinalize, Searching, searchVars, config
<1>7. CASE FinalizeHypo
  <2>1. pc = "finalizeStack" /\ pc' = pc /\ UNCHANGED <<config, said>>
    BY <1>7 DEF FinalizeHypo
  <2>2. fault' = fault \/ \E works \in BOOLEAN : fault' = ~works /\ (fault => works = FALSE)
    <3>1. \A p, q : \A works \in IF p THEN {FALSE} ELSE Kernel(q) :
            works \in BOOLEAN /\ (fault => works = FALSE)
      BY DEF Kernel
    <3> HIDE DEF Kernel
    <3> QED  BY <1>7, <3>1 DEF FinalizeHypo
  <2>3. ASSUME fault \in BOOLEAN  PROVE fault' \in BOOLEAN /\ (fault => fault')
    <3>1. CASE fault' = fault
      BY <2>3, <3>1
    <3>2. CASE \E works \in BOOLEAN : fault' = ~works /\ (fault => works = FALSE)
      BY <2>3, <3>2
    <3> QED  BY <2>2, <3>1, <3>2
  <2>4. UNCHANGED config /\ said' = said
    BY <2>1 DEF config
  <2> QED  BY <2>1, <2>3, <2>4 DEF Searching
<1>8. CASE StackFinished
  BY <1>8 DEF StackFinished, Kernel, Searching, systemVars, config
<1>9. CASE WriteOver
  BY <1>9 DEF WriteOver, WritesPastEnd, Searching, systemVars, config
<1>10. CASE Adrift
  BY <1>10 DEF Adrift, Searching, systemVars, config
<1> QED  BY <1>1, <1>2, <1>3, <1>4, <1>5, <1>6, <1>7, <1>8, <1>9, <1>10 DEF SearchStep

LEMMA SearchKeeps ==
  ASSUME LegacyInv, SearchStep \/ Finish
  PROVE  LegacyInv'
<1>1. /\ pc \in Searching \union {"initStacks", "adrift", "input"}
      /\ pc' \in Searching \union {"input", "adrift", "exit 0", "exit 1"}
      /\ pc = "input" => pc' \in {"exit 0", "exit 1"}
      /\ pc' = "exit 0" => ~fault'
      /\ ffs' = ffs /\ tables' = tables /\ said' = said
      /\ fault' \in BOOLEAN /\ (fault => fault')
  <2>1. fault \in BOOLEAN
    BY DEF LegacyInv, KnownSoFar
  <2>2. CASE SearchStep
    BY <2>1, <2>2, SearchStepIs DEF Searching, config
  <2>3. CASE Finish
    BY <2>1, <2>3 DEF Finish, ExitCode, Checked, Searching, systemVars, config
  <2> QED  BY <2>2, <2>3
<1>2. Starting'
  <2>1. IsSequence(ffs) /\ TablesLoaded(Len(ffs))
    BY <1>1 DEF LegacyInv, Starting, Decoding, Searching
  <2>2. TablesLoaded(Len(ffs))'
    BY <1>1, <2>1 DEF TablesLoaded, FirstTable
  <2> QED  BY <1>1, <2>1, <2>2 DEF Starting, Preparing, Searching
<1>3. Spoken'
  BY <1>1 DEF LegacyInv, Spoken, Decoding, Searching
<1>4. KnownSoFar'
  <2>1. ASSUME ~fault', NEW m \in DOMAIN said
        PROVE  Known(said[m])'
    <3>1. Known(said[m])
      BY <1>1, <2>1 DEF LegacyInv, KnownSoFar, Decoding, Searching
    <3> QED  BY <1>1, <3>1 DEF Known, FirstTable
  <2> QED  BY <1>1, <2>1 DEF KnownSoFar
<1> QED  BY <1>1, <1>2, <1>3, <1>4 DEF LegacyInv, LookedUpSoFar, OnTheDevice, Searching

LEMMA LegacyKeeps == LegacyInv /\ [Next]_vars => LegacyInv'
<1> SUFFICES ASSUME LegacyInv, [Next]_vars  PROVE LegacyInv'
  OBVIOUS
<1>1. CASE SystemNext /\ UNCHANGED <<said, fault, searchVars>>
  BY <1>1, PreparingKeeps
<1>2. CASE \E line \in Sentences : ReadSentence(line)
  BY <1>2, ReadSentenceKeeps
<1>3. CASE LookupPath
  BY <1>3, LookupPathKeeps
<1>4. CASE WriteMemory
  BY <1>4, WriteMemoryKeeps
<1>5. CASE SearchStep \/ Finish
  BY <1>5, SearchKeeps
<1>6. CASE UNCHANGED vars
  BY <1>6, ZenonT(40) DEF vars, systemVars, config, searchVars, LegacyInv, Starting, TablesLoaded, Spoken,
              LookedUpSoFar, OnTheDevice, Entry, PhrasesOf, KnownSoFar, Known, FirstTable, Sentence
<1> QED  BY <1>1, <1>2, <1>3, <1>4, <1>5, <1>6 DEF Next, SearchStep

LEMMA LegacyInvariance == Spec => []LegacyInv
BY LegacyStarts, LegacyKeeps, PTL DEF Spec

(* The program reports success only for sentences whose spans all begin an   *)
(* entry of the first table (Manager.cpp, CUDA.cu, Debug.cuh:100-101):       *)
(* whatever the tables, sentences and threads are.                           *)
THEOREM SuccessAlwaysKnown == Spec => []SuccessMeansKnown
<1>1. LegacyInv => SuccessMeansKnown
  BY DEF LegacyInv, KnownSoFar, Known, Decoding, SuccessMeansKnown
<1> QED  BY <1>1, LegacyInvariance, PTL

-----------------------------------------------------------------------------
(* What the device reads *)

Cells == [is : {"count", "word", "score"}, val : Int]

Phrases == TablePhrases(NUMSCORES)

LEMMA MemoryOfPhrase ==
  ASSUME NEW num \in Nat, NEW tp \in TablePhrases(num)
  PROVE  /\ PhraseMemory(tp) \in Seq(Cells)
         /\ Len(tp.words) \in Nat /\ DOMAIN tp.words = 1 .. Len(tp.words)
         /\ Len(PhraseMemory(tp)) = 1 + Len(tp.words) + num
         /\ PhraseMemory(tp)[1] = Count(Len(tp.words))
         /\ \A n \in 1 .. Len(tp.words) : PhraseMemory(tp)[1 + n] = WordCell(tp.words[n])
         /\ \A n \in 1 .. num :
              PhraseMemory(tp)[1 + Len(tp.words) + n] = ScoreCell(tp.scores[n])
<1> DEFINE L == Len(tp.words)
           first == <<Count(L)>>
           words == [n \in DOMAIN tp.words |-> WordCell(tp.words[n])]
           scores == [n \in DOMAIN tp.scores |-> ScoreCell(tp.scores[n])]
           both == first \o words
<1>1. /\ tp.words \in Seq(Nat) /\ tp.scores \in [1 .. num -> Int]
      /\ L \in Nat /\ DOMAIN tp.words = 1 .. L /\ DOMAIN tp.scores = 1 .. num
  BY DEF TablePhrases
<1>2. /\ Count(L) \in Cells
      /\ \A n \in 1 .. L : WordCell(tp.words[n]) \in Cells
      /\ \A n \in 1 .. num : ScoreCell(tp.scores[n]) \in Cells
  <2>1. \A n \in 1 .. L : tp.words[n] \in Nat
    BY <1>1
  <2>2. \A n \in 1 .. num : tp.scores[n] \in Int
    BY <1>1
  <2> QED  BY <1>1, <2>1, <2>2 DEF Count, WordCell, ScoreCell, Cells
<1> HIDE DEF L
<1>3. words \in Seq(Cells) /\ Len(words) = L /\ \A n \in 1 .. L : words[n] = WordCell(tp.words[n])
  BY <1>1, <1>2
<1>4. /\ scores \in Seq(Cells) /\ Len(scores) = num
      /\ \A n \in 1 .. num : scores[n] = ScoreCell(tp.scores[n])
  BY <1>1, <1>2
<1>5. first \in Seq(Cells) /\ Len(first) = 1 /\ first[1] = Count(L)
  BY <1>2
<1> HIDE DEF first, words, scores
<1>6. /\ both \in Seq(Cells) /\ Len(both) = 1 + L /\ both[1] = Count(L)
      /\ \A n \in 1 .. L : both[1 + n] = WordCell(tp.words[n])
  <2>1. /\ both \in Seq(Cells) /\ Len(both) = Len(first) + Len(words)
        /\ \A i \in 1 .. Len(first) + Len(words) :
             both[i] = IF i <= Len(first) THEN first[i] ELSE words[i - Len(first)]
    BY <1>3, <1>5, ConcatProperties
  <2> HIDE DEF both
  <2>2. 1 \in 1 .. 1 + L /\ \A n \in 1 .. L : 1 + n \in 1 .. 1 + L /\ (1 + n) - 1 = n /\ ~(1 + n <= 1)
    BY <1>1
  <2> QED  BY <1>3, <1>5, <2>1, <2>2
<1>7. PhraseMemory(tp) = both \o scores
  BY DEF PhraseMemory, first, words, scores, L
<1> HIDE DEF both
<1>8. /\ PhraseMemory(tp) \in Seq(Cells) /\ Len(PhraseMemory(tp)) = Len(both) + Len(scores)
      /\ \A i \in 1 .. Len(both) + Len(scores) :
           PhraseMemory(tp)[i] = IF i <= Len(both) THEN both[i] ELSE scores[i - Len(both)]
  <2>1. both \in Seq(Cells) /\ scores \in Seq(Cells)
    BY <1>4, <1>6
  <2>2. /\ both \o scores \in Seq(Cells) /\ Len(both \o scores) = Len(both) + Len(scores)
        /\ \A i \in 1 .. Len(both) + Len(scores) :
             (both \o scores)[i] = IF i <= Len(both) THEN both[i] ELSE scores[i - Len(both)]
    BY <2>1, ConcatProperties
  <2> QED  BY <1>7, <2>2, Zenon
<1>9. ASSUME NEW i \in 1 .. 1 + L
      PROVE  PhraseMemory(tp)[i] = both[i]
  <2>1. i \in 1 .. 1 + L + num /\ i <= 1 + L
    BY <1>1
  <2> QED  BY <1>4, <1>6, <1>8, <2>1
<1>10. ASSUME NEW n \in 1 .. num
       PROVE  PhraseMemory(tp)[1 + L + n] = scores[n]
  <2>1. 1 + L + n \in 1 .. 1 + L + num /\ ~(1 + L + n <= 1 + L) /\ (1 + L + n) - (1 + L) = n
    BY <1>1
  <2> QED  BY <1>4, <1>6, <1>8, <2>1
<1>11. 1 \in 1 .. 1 + L /\ \A n \in 1 .. L : 1 + n \in 1 .. 1 + L
  BY <1>1
<1>12. PhraseMemory(tp)[1] = Count(L) /\ \A n \in 1 .. L : PhraseMemory(tp)[1 + n] = WordCell(tp.words[n])
  BY <1>6, <1>9, <1>11
<1> QED  BY <1>1, <1>4, <1>6, <1>8, <1>10, <1>12 DEF L

LEMMA PhraseMemoryIs ==
  ASSUME NEW tp \in Phrases
  PROVE  /\ PhraseMemory(tp) \in Seq(Cells)
         /\ Len(tp.words) \in Nat /\ DOMAIN tp.words = 1 .. Len(tp.words)
         /\ Len(PhraseMemory(tp)) = 1 + Len(tp.words) + NUMSCORES
         /\ PhraseMemory(tp)[1] = Count(Len(tp.words))
         /\ \A n \in 1 .. Len(tp.words) : PhraseMemory(tp)[1 + n] = WordCell(tp.words[n])
         /\ \A n \in 1 .. NUMSCORES :
              PhraseMemory(tp)[1 + Len(tp.words) + n] = ScoreCell(tp.scores[n])
<1>1. tp \in TablePhrases(NUMSCORES)
  BY DEF Phrases
<1> QED  BY <1>1, NumScoresAssumption, MemoryOfPhrase

\* Phrase tp is in the memory from a on.
IsBlock(mem, a, tp) ==
  \A j \in 1 .. Len(PhraseMemory(tp)) :
    a - 1 + j \in DOMAIN mem /\ mem[a - 1 + j] = PhraseMemory(tp)[j]

LEMMA InitializeReads ==
  ASSUME NEW tp \in Phrases, NEW a \in Nat, a > 0, NEW mem, IsBlock(mem, a, tp)
  PROVE  /\ Initialize(mem, a).end = a + Len(PhraseMemory(tp))
         /\ [w \in DOMAIN Initialize(mem, a).words |-> Initialize(mem, a).words[w].val] = tp.words
         /\ [s \in DOMAIN Initialize(mem, a).scores |-> Initialize(mem, a).scores[s].val] = tp.scores
<1> DEFINE L == Len(tp.words)
           M == PhraseMemory(tp)
           size == Len(M)
<1>1. /\ M \in Seq(Cells) /\ L \in Nat /\ NUMSCORES \in Nat /\ DOMAIN tp.words = 1 .. L
      /\ size = 1 + L + NUMSCORES /\ M[1] = Count(L)
      /\ \A n \in 1 .. L : M[1 + n] = WordCell(tp.words[n])
      /\ \A n \in 1 .. NUMSCORES : M[1 + L + n] = ScoreCell(tp.scores[n])
  BY PhraseMemoryIs, NumScoresAssumption
<1>2. tp.words = [n \in 1 .. L |-> tp.words[n]] /\ tp.scores = [n \in 1 .. NUMSCORES |-> tp.scores[n]]
  <2>1. tp.words \in Seq(Nat) /\ tp.scores \in [1 .. NUMSCORES -> Int]
    BY DEF Phrases, TablePhrases
  <2> QED  BY <1>1, <2>1
<1> HIDE DEF L, M, size
<1>3. \A j \in 1 .. size : a - 1 + j \in DOMAIN mem /\ mem[a - 1 + j] = M[j]
  BY DEF IsBlock, M, size
<1>4. Cell(mem, a) = Count(L)
  <2>1. 1 \in 1 .. size /\ a - 1 + 1 = a
    BY <1>1
  <2>2. a \in DOMAIN mem /\ mem[a] = Count(L)
    BY <1>1, <1>3, <2>1
  <2> QED  BY <2>2 DEF Cell
<1>5. ASSUME NEW n \in 1 .. L
      PROVE  Cell(mem, a + n) = WordCell(tp.words[n])
  <2>1. 1 + n \in 1 .. size /\ a - 1 + (1 + n) = a + n
    BY <1>1
  <2>2. a + n \in DOMAIN mem /\ mem[a + n] = WordCell(tp.words[n])
    BY <1>1, <1>3, <2>1
  <2> QED  BY <2>2 DEF Cell
<1>6. ASSUME NEW n \in 1 .. NUMSCORES
      PROVE  Cell(mem, a + L + n) = ScoreCell(tp.scores[n])
  <2>1. 1 + L + n \in 1 .. size /\ a - 1 + (1 + L + n) = a + L + n
    BY <1>1
  <2>2. a + L + n \in DOMAIN mem /\ mem[a + L + n] = ScoreCell(tp.scores[n])
    BY <1>1, <1>3, <2>1
  <2> QED  BY <2>2 DEF Cell
<1>7. Initialize(mem, a) = [words  |-> [n \in 1 .. L |-> Cell(mem, a + n)],
                            scores |-> [n \in 1 .. NUMSCORES |-> Cell(mem, a + L + n)],
                            end    |-> a + 1 + L + NUMSCORES]
  BY <1>4 DEF Initialize, Count
<1>8. [w \in DOMAIN Initialize(mem, a).words |-> Initialize(mem, a).words[w].val]
        = [n \in 1 .. L |-> tp.words[n]]
  <2> DEFINE cells == Initialize(mem, a).words
  <2>1. cells = [n \in 1 .. L |-> Cell(mem, a + n)]
    BY <1>7
  <2> HIDE DEF cells
  <2>2. DOMAIN cells = 1 .. L /\ \A n \in 1 .. L : cells[n].val = tp.words[n]
    <3>1. DOMAIN cells = 1 .. L /\ \A n \in 1 .. L : cells[n] = Cell(mem, a + n)
      BY <2>1
    <3>2. \A x : WordCell(x).val = x
      BY DEF WordCell
    <3> QED  BY <1>5, <3>1, <3>2
  <2>3. [w \in DOMAIN cells |-> cells[w].val] = [n \in 1 .. L |-> tp.words[n]]
    BY <2>2
  <2> QED  BY <2>3 DEF cells
<1>9. [s \in DOMAIN Initialize(mem, a).scores |-> Initialize(mem, a).scores[s].val]
        = [n \in 1 .. NUMSCORES |-> tp.scores[n]]
  <2> DEFINE cells == Initialize(mem, a).scores
  <2>1. cells = [n \in 1 .. NUMSCORES |-> Cell(mem, a + L + n)]
    BY <1>7
  <2> HIDE DEF cells
  <2>2. DOMAIN cells = 1 .. NUMSCORES /\ \A n \in 1 .. NUMSCORES : cells[n].val = tp.scores[n]
    <3>1. DOMAIN cells = 1 .. NUMSCORES /\ \A n \in 1 .. NUMSCORES : cells[n] = Cell(mem, a + L + n)
      BY <2>1
    <3>2. \A x : ScoreCell(x).val = x
      BY DEF ScoreCell
    <3> QED  BY <1>6, <3>1, <3>2
  <2>3. [s \in DOMAIN cells |-> cells[s].val] = [n \in 1 .. NUMSCORES |-> tp.scores[n]]
    BY <2>2
  <2> QED  BY <2>3 DEF cells
<1>10. Initialize(mem, a).end = a + size
  <2>1. a + 1 + L + NUMSCORES = a + size
    BY <1>1
  <2> QED  BY <1>7, <2>1
<1> QED  BY <1>2, <1>8, <1>9, <1>10 DEF M, size

\* The device reads back each phrase of a node.
LEMMA ReadsBack ==
  ASSUME NEW tpColl \in Seq(Phrases)
  PROVE  LET tps == ReadMemory(NodeMemory(tpColl))
         IN  /\ DOMAIN tps = 1 .. Len(tpColl) /\ Len(tps) = Len(tpColl)
             /\ \A n \in 1 .. Len(tpColl) :
                  /\ [w \in DOMAIN tps[n].words |-> tps[n].words[w].val] = tpColl[n].words
                  /\ [s \in DOMAIN tps[n].scores |-> tps[n].scores[s].val] = tpColl[n].scores
<1> DEFINE N == Len(tpColl)
           seqs == [n \in DOMAIN tpColl |-> PhraseMemory(tpColl[n])]
           flat == FlattenSeq(seqs)
           mem == NodeMemory(tpColl)
<1>1. N \in Nat /\ DOMAIN tpColl = 1 .. N /\ \A n \in 1 .. N : tpColl[n] \in Phrases
  OBVIOUS
<1>2. \A n \in 1 .. N : PhraseMemory(tpColl[n]) \in Seq(Cells)
  BY <1>1, PhraseMemoryIs
<1>3. seqs \in Seq(Seq(Cells)) /\ Len(seqs) = N /\ \A n \in 1 .. N : seqs[n] = PhraseMemory(tpColl[n])
  <2> DEFINE X == Seq(Cells)
  <2> HIDE DEF X, N
  <2>1. \A n \in 1 .. N : PhraseMemory(tpColl[n]) \in X
    BY <1>2 DEF X
  <2>2. seqs \in Seq(X) /\ Len(seqs) = N /\ \A n \in 1 .. N : seqs[n] = PhraseMemory(tpColl[n])
    BY <1>1, <2>1
  <2> QED  BY <2>2 DEF X
<1>4. mem = <<Count(N)>> \o flat
  BY DEF NodeMemory
<1> HIDE DEF N, seqs, flat, mem
<1>5. PICK off : /\ AreOffsets(off, seqs) /\ flat \in Seq(Cells) /\ Len(flat) = off[N]
                 /\ AreAt(flat, off, seqs, N)
  BY <1>3, FlattenedAt DEF flat
<1>6. /\ off \in [0 .. N -> Nat] /\ off[0] = 0
      /\ \A n \in 1 .. N : off[n] = off[n - 1] + Len(PhraseMemory(tpColl[n]))
  BY <1>3, <1>5 DEF AreOffsets
<1>7. /\ mem[1].val = N
      /\ \A i \in 1 .. Len(flat) : 1 + i \in DOMAIN mem /\ mem[1 + i] = flat[i]
  <2>1. Count(N) \in Cells /\ Count(N).val = N
    BY <1>1 DEF Count, Cells, N
  <2> DEFINE first == <<Count(N)>>
  <2>2. first \in Seq(Cells) /\ Len(first) = 1 /\ first[1] = Count(N)
    BY <2>1
  <2> HIDE DEF first
  <2>3. /\ first \o flat \in Seq(Cells) /\ Len(first \o flat) = Len(first) + Len(flat)
        /\ \A i \in 1 .. Len(first) + Len(flat) :
             (first \o flat)[i] = IF i <= Len(first) THEN first[i] ELSE flat[i - Len(first)]
    BY <1>5, <2>2, ConcatProperties
  <2>4. mem = first \o flat
    BY <1>4 DEF first
  <2>5. /\ mem \in Seq(Cells) /\ Len(mem) = 1 + Len(flat)
        /\ \A i \in 1 .. 1 + Len(flat) : mem[i] = IF i <= 1 THEN first[i] ELSE flat[i - 1]
    BY <2>2, <2>3, <2>4
  <2>6. Len(flat) \in Nat /\ DOMAIN mem = 1 .. 1 + Len(flat)
    BY <1>5, <2>5
  <2>7. mem[1] = first[1]
    BY <2>5, <2>6
  <2>8. ASSUME NEW i \in 1 .. Len(flat)
        PROVE  1 + i \in DOMAIN mem /\ mem[1 + i] = flat[i]
    <3>1. 1 + i \in 1 .. 1 + Len(flat) /\ ~(1 + i <= 1) /\ (1 + i) - 1 = i
      BY <2>6
    <3> QED  BY <2>5, <2>6, <3>1
  <2> QED  BY <2>1, <2>2, <2>7, <2>8
<1>8. ASSUME NEW n \in 1 .. N
      PROVE  /\ 2 + off[n - 1] \in Nat /\ 2 + off[n - 1] > 0
             /\ IsBlock(mem, 2 + off[n - 1], tpColl[n])
  <2>1. off[n - 1] \in Nat /\ off[N] \in Nat
    <3>1. N \in Nat /\ n - 1 \in 0 .. N /\ N \in 0 .. N
      BY <1>1
    <3> QED  BY <1>6, <3>1
  <2>2. ASSUME NEW j \in 1 .. Len(PhraseMemory(tpColl[n]))
        PROVE  /\ (2 + off[n - 1]) - 1 + j \in DOMAIN mem
               /\ mem[(2 + off[n - 1]) - 1 + j] = PhraseMemory(tpColl[n])[j]
    <3>1. seqs[n] = PhraseMemory(tpColl[n])
      BY <1>3
    <3>2. ASSUME NEW k \in 1 .. n, n <= N  PROVE k \in 1 .. N
      BY <1>1 DEF N
    <3>3. off[n - 1] + j \in 1 .. off[N] /\ flat[off[n - 1] + j] = seqs[n][j]
      BY <1>5, <3>1 DEF AreAt
    <3>4. (2 + off[n - 1]) - 1 + j = 1 + (off[n - 1] + j)
      <4>1. Len(PhraseMemory(tpColl[n])) \in Nat
        BY <1>2 DEF N
      <4> QED  BY <2>1, <4>1
    <3> QED  BY <1>5, <1>7, <3>1, <3>3, <3>4
  <2> QED  BY <2>1, <2>2 DEF IsBlock
<1>9. ASSUME NEW n \in 1 .. N
      PROVE  /\ Initialize(mem, 2 + off[n - 1]).end = 2 + off[n]
             /\ [w \in DOMAIN Initialize(mem, 2 + off[n - 1]).words |->
                   Initialize(mem, 2 + off[n - 1]).words[w].val] = tpColl[n].words
             /\ [s \in DOMAIN Initialize(mem, 2 + off[n - 1]).scores |->
                   Initialize(mem, 2 + off[n - 1]).scores[s].val] = tpColl[n].scores
  <2> DEFINE a == 2 + off[n - 1]
             tp == tpColl[n]
  <2>1. a \in Nat /\ a > 0 /\ IsBlock(mem, a, tp) /\ tp \in Phrases
    BY <1>1, <1>8 DEF N
  <2> HIDE DEF a, tp
  <2>2. /\ Initialize(mem, a).end = a + Len(PhraseMemory(tp))
        /\ [w \in DOMAIN Initialize(mem, a).words |-> Initialize(mem, a).words[w].val] = tp.words
        /\ [s \in DOMAIN Initialize(mem, a).scores |-> Initialize(mem, a).scores[s].val] = tp.scores
    BY <2>1, InitializeReads
  <2>3. a + Len(PhraseMemory(tp)) = 2 + off[n]
    <3>1. off[n - 1] \in Nat /\ Len(PhraseMemory(tpColl[n])) \in Nat
      <4>1. N \in Nat /\ n - 1 \in 0 .. N
        BY <1>1
      <4>2. off[n - 1] \in Nat
        BY <1>6, <4>1
      <4>3. Len(PhraseMemory(tpColl[n])) \in Nat
        BY <1>2 DEF N
      <4> QED  BY <4>2, <4>3
    <3>2. off[n] = off[n - 1] + Len(PhraseMemory(tpColl[n]))
      BY <1>6
    <3> QED  BY <3>1, <3>2 DEF a, tp
  <2> QED  BY <2>2, <2>3 DEF a, tp
<1> DEFINE IsPlaces(f) ==
             f = [n \in 1 .. N |-> IF n = 1 THEN 2 ELSE Initialize(mem, f[n - 1]).end]
           at == CHOOSE f : IsPlaces(f)
           tps == [n \in 1 .. N |->
                     IF at[n] = Unreadable.end THEN Unreadable ELSE Initialize(mem, at[n])]
<1>10. ReadMemory(mem) = tps
  BY <1>7 DEF ReadMemory
<1>11. IsPlaces([n \in 1 .. N |-> 2 + off[n - 1]])
  <2> DEFINE f == [n \in 1 .. N |-> 2 + off[n - 1]]
  <2>1. ASSUME NEW n \in 1 .. N
        PROVE  f[n] = IF n = 1 THEN 2 ELSE Initialize(mem, f[n - 1]).end
    <3>1. CASE n = 1
      BY <1>6, <3>1
    <3>2. CASE n # 1
      <4>1. n - 1 \in 1 .. N
        BY <1>1, <3>2 DEF N
      <4>2. f[n - 1] = 2 + off[(n - 1) - 1] /\ f[n] = 2 + off[n - 1]
        BY <4>1
      <4>3. Initialize(mem, 2 + off[(n - 1) - 1]).end = 2 + off[n - 1]
        BY <1>9, <4>1
      <4> QED  BY <3>2, <4>2, <4>3
    <3> QED  BY <3>1, <3>2
  <2> QED  BY <2>1
<1> HIDE DEF IsPlaces
<1>12. IsPlaces(at)
  BY <1>11
<1> HIDE DEF at
<1>13. ASSUME NEW n \in 1 .. N
       PROVE  at[n] = IF n = 1 THEN 2 ELSE Initialize(mem, at[n - 1]).end
  BY <1>12 DEF IsPlaces
<1> DEFINE good == {n \in 0 .. N : n # 0 => at[n] = 2 + off[n - 1]}
<1>14. 0 \in good
  BY <1>1 DEF N
<1>15. ASSUME NEW n \in 1 .. N, n - 1 \in good
       PROVE  n \in good
  <2>1. n \in 0 .. N
    BY <1>1 DEF N
  <2>2. CASE n = 1
    BY <1>6, <1>13, <2>1, <2>2
  <2>3. CASE n # 1
    <3>1. n - 1 \in 1 .. N /\ n - 1 # 0
      BY <1>1, <2>3 DEF N
    <3>2. at[n - 1] = 2 + off[(n - 1) - 1]
      BY <1>15, <3>1
    <3>3. at[n] = 2 + off[n - 1]
      <4>1. at[n] = Initialize(mem, at[n - 1]).end
        BY <1>13, <2>3
      <4>2. Initialize(mem, 2 + off[(n - 1) - 1]).end = 2 + off[n - 1]
        BY <1>9, <3>1
      <4> QED  BY <3>2, <4>1, <4>2
    <3> QED  BY <2>1, <3>3
  <2> QED  BY <2>2, <2>3
<1>16. \A n \in 0 .. N : n \in good
  <2> HIDE DEF good
  <2>1. N \in Nat
    BY <1>1 DEF N
  <2> QED  BY <1>14, <1>15, <2>1, UpTo
<1>17. ASSUME NEW n \in 1 .. N
       PROVE  tps[n] = Initialize(mem, 2 + off[n - 1])
  <2>1. n \in 0 .. N /\ n # 0
    BY <1>1 DEF N
  <2>2. at[n] = 2 + off[n - 1] /\ at[n] # 0
    BY <1>8, <1>16, <2>1
  <2> QED  BY <2>2 DEF Unreadable
<1>18. DOMAIN tps = 1 .. N /\ Len(tps) = N
  BY <1>1 DEF N
<1> HIDE DEF tps
<1>19. ASSUME NEW n \in 1 .. N
       PROVE  /\ [w \in DOMAIN tps[n].words |-> tps[n].words[w].val] = tpColl[n].words
              /\ [s \in DOMAIN tps[n].scores |-> tps[n].scores[s].val] = tpColl[n].scores
  BY <1>9, <1>17
<1> QED  BY <1>10, <1>18, <1>19 DEF N, mem

\* What the device reads for some words.
ReadFor(lines, words) ==
  IF words \in DOMAIN Load(lines, NUMSCORES)
  THEN ReadMemory(NodeMemory(Load(lines, NUMSCORES)[words])) ELSE <<>>

AreReadOf(tps, lines, words) ==
  /\ Len(tps) = Cardinality(Matching(lines, words, Len(lines)))
  /\ \A m \in Matching(lines, words, Len(lines)) :
       LET tp == tps[Cardinality(Matching(lines, words, m))]
       IN  /\ [w \in DOMAIN tp.words |-> tp.words[w].val] = lines[m].target
           /\ [s \in DOMAIN tp.scores |-> tp.scores[s].val] = ScoresOf(lines[m], NUMSCORES)

\* The phrases of a node are those of the lines, as the device reads them.
LEMMA PhrasesAreRead ==
  ASSUME NEW lines \in Seq(TableLines), NEW words \in Seq(Nat)
  PROVE  AreReadOf(ReadFor(lines, words), lines, words)
<1> DEFINE tps == ReadFor(lines, words)
<1> DEFINE t == Load(lines, NUMSCORES)
           all == Matching(lines, words, Len(lines))
           c(m) == Cardinality(Matching(lines, words, m))
<1>1. /\ t \in Tables(NUMSCORES) /\ Len(lines) \in Nat /\ DOMAIN lines = 1 .. Len(lines)
      /\ DOMAIN t = {RootNode} \union UNION {Beginnings(lines[m].source) : m \in DOMAIN lines}
      /\ \A p \in DOMAIN t : IsPhrasesOf(t[p], lines, p, NUMSCORES, Len(lines))
  <2>1. Len(lines) \in Nat /\ DOMAIN lines = 1 .. Len(lines)
    OBVIOUS
  <2>2. t \in Tables(NUMSCORES)
    BY LoadIs
  <2>3. DOMAIN t = {RootNode} \union UNION {Beginnings(lines[m].source) : m \in DOMAIN lines}
    BY LoadIs
  <2>4. \A p \in DOMAIN t : IsPhrasesOf(t[p], lines, p, NUMSCORES, Len(lines))
    BY LoadIs
  <2> QED  BY <2>1, <2>2, <2>3, <2>4
<1> HIDE DEF t, tps
<1>2. CASE words \in DOMAIN t
  <2> DEFINE tpColl == t[words]
  <2>1. tpColl \in Seq(Phrases) /\ IsPhrasesOf(tpColl, lines, words, NUMSCORES, Len(lines))
    BY <1>1, <1>2 DEF Tables, Phrases
  <2>2. tps = ReadMemory(NodeMemory(tpColl))
    BY <1>2 DEF t, ReadFor, tps
  <2> HIDE DEF tpColl
  <2>3. /\ Len(tps) = Len(tpColl)
        /\ \A n \in 1 .. Len(tpColl) :
             /\ [w \in DOMAIN tps[n].words |-> tps[n].words[w].val] = tpColl[n].words
             /\ [s \in DOMAIN tps[n].scores |-> tps[n].scores[s].val] = tpColl[n].scores
    <3> DEFINE read == ReadMemory(NodeMemory(tpColl))
    <3>1. /\ Len(read) = Len(tpColl)
          /\ \A n \in 1 .. Len(tpColl) :
               /\ [w \in DOMAIN read[n].words |-> read[n].words[w].val] = tpColl[n].words
               /\ [s \in DOMAIN read[n].scores |-> read[n].scores[s].val] = tpColl[n].scores
      BY <2>1, ReadsBack
    <3> HIDE DEF read
    <3>2. tps = read
      BY <2>2 DEF read
    <3> QED  BY <3>1, <3>2
  <2>4. ASSUME NEW m \in all
        PROVE  c(m) \in 1 .. Len(tpColl) /\ tpColl[c(m)] = PhraseOf(lines[m], NUMSCORES)
    <3>1. c(m) \in Nat /\ c(m) > 0 /\ c(m) <= c(Len(lines)) /\ c(Len(lines)) \in Nat
      BY <1>1, MatchingCounts
    <3>2. Len(tpColl) = c(Len(lines)) /\ tpColl[c(m)] = PhraseOf(lines[m], NUMSCORES)
      BY <2>1 DEF IsPhrasesOf
    <3> HIDE DEF c
    <3> QED  BY <3>1, <3>2
  <2>5. Len(tps) = c(Len(lines))
    BY <2>1, <2>3 DEF IsPhrasesOf
  <2> HIDE DEF c, all
  <2>6. ASSUME NEW m \in all
        PROVE  /\ [w \in DOMAIN tps[c(m)].words |-> tps[c(m)].words[w].val] = lines[m].target
               /\ [s \in DOMAIN tps[c(m)].scores |-> tps[c(m)].scores[s].val]
                    = ScoresOf(lines[m], NUMSCORES)
    <3>1. /\ [w \in DOMAIN tps[c(m)].words |-> tps[c(m)].words[w].val] = tpColl[c(m)].words
          /\ [s \in DOMAIN tps[c(m)].scores |-> tps[c(m)].scores[s].val] = tpColl[c(m)].scores
      BY <2>3, <2>4
    <3>2. tpColl[c(m)].words = lines[m].target /\ tpColl[c(m)].scores = ScoresOf(lines[m], NUMSCORES)
      <4>1. \A line : /\ PhraseOf(line, NUMSCORES).words = line.target
                      /\ PhraseOf(line, NUMSCORES).scores = ScoresOf(line, NUMSCORES)
        BY DEF PhraseOf
      <4> QED  BY <2>4, <4>1
    <3> QED  BY <3>1, <3>2
  <2> QED  BY <2>5, <2>6 DEF c, all, AreReadOf, tps
<1>3. CASE words \notin DOMAIN t
  <2>1. ASSUME NEW m \in all
        PROVE  FALSE
    <3>1. m \in DOMAIN lines /\ lines[m].source = words
      BY <1>1 DEF Matching
    <3>2. words \in {RootNode} \union Beginnings(lines[m].source)
      BY <3>1, BeginningsAre
    <3> QED  BY <1>1, <1>3, <3>1, <3>2
  <2>2. all = {}
    BY <2>1
  <2>3. Len(tps) = 0 /\ Cardinality(all) = 0
    <3>1. tps = <<>>
      BY <1>3 DEF t, ReadFor, tps
    <3> QED  BY <2>2, <3>1, FS_EmptySet
  <2> QED  BY <2>2, <2>3 DEF AreReadOf, tps
<1> QED  BY <1>2, <1>3

(* The device has, for every span, the target phrases of the lines of the    *)
(* first table with that source, in their order (PhraseTableMemory.cpp:      *)
(* 74-112, TargetPhrase.cpp:57-105, TargetPhraseDev.cuh:32-59).              *)
THEOREM DeviceAlwaysHasTheTable == Spec => []DeviceHasTheTable
<1>1. ASSUME LegacyInv, pc = "initStacks", ffs # <<>>, Head(ffs).numScores = NUMSCORES,
             NEW n \in DOMAIN pathInfo
      PROVE  LET lines == LinesFor(pathInfo[n].range)
                 tps   == pathInfo[n].tps
             IN  /\ Len(tps) = Cardinality(lines)
                 /\ \A m \in lines :
                      LET tp == tps[Cardinality({k \in lines : k <= m})]
                      IN  /\ [w \in DOMAIN tp.words |-> tp.words[w].val] = FirstTable[m].target
                          /\ [s \in DOMAIN tp.scores |-> tp.scores[s].val]
                               = ScoresOf(FirstTable[m], NUMSCORES)
  <2> DEFINE path == InputPaths(Sentence)[n]
             words == WordsOfSpan(Sentence, path)
             lines == LinesFor(path)
             tps == pathInfo[n].tps
  <2>1. /\ n \in DOMAIN InputPaths(Sentence)
        /\ pathInfo[n] = Entry(n, PhrasesOf(Entry(n, <<>>).node))
    BY <1>1 DEF LegacyInv, OnTheDevice
  <2>2. /\ pathInfo[n].range = path
        /\ tps = PhrasesOf(NodeFor(tables[1], words))
    <3>1. \A x : Entry(n, x).range = path /\ Entry(n, x).tps = x
                 /\ Entry(n, x).node = NodeFor(tables[1], words)
      BY DEF Entry
    <3> QED  BY <2>1, <3>1
  <2>3. /\ FirstTable \in Seq(TableLines) /\ tables[1] = Load(FirstTable, NUMSCORES)
    <3>1. Head(ffs) = ffs[1]
      <4>1. PICK S : ffs \in Seq(S)
        BY <1>1 DEF LegacyInv, Starting, IsSequence
      <4> QED  BY <1>1, <4>1
    <3> QED  BY <1>1, <3>1, FirstTableIs DEF Decoding
  <2>4. /\ Sentence \in Seq(Nat) /\ Len(Sentence) \in Nat
    BY <1>1, SentenceIs DEF LegacyInv, Spoken, Decoding
  <2>5. path \in Ranges /\ path.startPos <= path.endPos /\ path.endPos < Len(Sentence)
    <3> DEFINE sentence == Sentence
    <3>1. Len(sentence) \in Nat /\ n \in DOMAIN InputPaths(sentence)
      BY <2>1, <2>4
    <3> HIDE DEF sentence
    <3>2. LET p == InputPaths(sentence)[n]
          IN  p \in Ranges /\ p.startPos <= p.endPos /\ p.endPos < Len(sentence)
      BY <3>1, PathsAre
    <3> QED  BY <3>2 DEF sentence
  <2>6. words \in Seq(Nat)
    <3> DEFINE sentence == Sentence
               s == path.startPos + 1
               e == path.endPos + 1
    <3>1. sentence \in Seq(Nat) /\ s \in DOMAIN sentence /\ e \in DOMAIN sentence /\ s <= e
      BY <2>4, <2>5 DEF Ranges
    <3>2. words = SubSeq(sentence, s, e)
      BY DEF WordsOfSpan
    <3> HIDE DEF sentence, s, e, words
    <3> QED  BY <3>1, <3>2, SpanGrows
  <2>7. words # NoNode
    <3> SUFFICES ASSUME words = <<-1>>  PROVE FALSE
      BY DEF NoNode
    <3> HIDE DEF words
    <3>1. Len(words) = 1 /\ words[1] = -1
      OBVIOUS
    <3>2. words[1] \in Nat
      BY <2>6, <3>1
    <3> QED  BY <3>1, <3>2
  <2> DEFINE table == FirstTable
  <2>8. tps = ReadFor(table, words)
    <3> HIDE DEF words, tps
    <3> QED  BY <2>2, <2>3, <2>7 DEF PhrasesOf, NodeFor, ReadFor
  <2>9. lines = Matching(table, words, Len(table))
    <3>1. DOMAIN table = 1 .. Len(table)
      BY <2>3
    <3> QED  BY <3>1 DEF LinesFor, Matching, WordsOfSpan
  <2>10. \A m \in lines : {k \in lines : k <= m} = Matching(table, words, m)
    <3>1. Len(table) \in Nat
      BY <2>3
    <3> HIDE DEF table, words, lines
    <3> QED  BY <2>9, <3>1 DEF Matching
  <2> HIDE DEF table, words, lines, tps, path
  <2>11. /\ Len(tps) = Cardinality(lines)
         /\ \A m \in lines :
              LET tp == tps[Cardinality(Matching(table, words, m))]
              IN  /\ [w \in DOMAIN tp.words |-> tp.words[w].val] = table[m].target
                  /\ [s \in DOMAIN tp.scores |-> tp.scores[s].val] = ScoresOf(table[m], NUMSCORES)
    <3>1. table \in Seq(TableLines)
      BY <2>3 DEF table
    <3>2. AreReadOf(tps, table, words)
      BY <2>6, <2>8, <3>1, PhrasesAreRead
    <3> QED  BY <2>9, <3>2 DEF AreReadOf
  <2>12. /\ Len(tps) = Cardinality(lines)
         /\ \A m \in lines :
              LET tp == tps[Cardinality({k \in lines : k <= m})]
              IN  /\ [w \in DOMAIN tp.words |-> tp.words[w].val] = table[m].target
                  /\ [s \in DOMAIN tp.scores |-> tp.scores[s].val] = ScoresOf(table[m], NUMSCORES)
    BY <2>10, <2>11
  <2>13. LinesFor(pathInfo[n].range) = lines /\ FirstTable = table /\ pathInfo[n].tps = tps
    BY <2>2 DEF lines, table, tps, path
  <2> QED  BY <2>12, <2>13
<1>2. LegacyInv => DeviceHasTheTable
  BY <1>1 DEF DeviceHasTheTable
<1> QED  BY <1>2, LegacyInvariance, PTL

-----------------------------------------------------------------------------
(* The sections of the configuration *)

AllLines == UNION {Range(lines) : lines \in IniFiles}

Values == {line \in AllLines : line.is = "value"}

Keys == {line.key : line \in AllLines}

Sections == UNION {[K -> Seq(Values)] : K \in SUBSET Keys}

Inis ==
  {ini \in [key : Keys \union {NoSection}, params : Sections, ok : BOOLEAN] :
     ini.key # NoSection => ini.key \in DOMAIN ini.params}

LEMMA ReadLineIs ==
  ASSUME NEW ini \in Inis, NEW line \in AllLines, line.is \in {"section", "blank", "value"}
  PROVE  ReadLine(ini, line) \in Inis
<1> DEFINE S == Seq(Values)
           P == ini.params
<1>1. /\ ini.key \in Keys \union {NoSection} /\ P \in Sections /\ ini.ok \in BOOLEAN
      /\ ini.key # NoSection => ini.key \in DOMAIN P
  BY DEF Inis
<1>2. P \in [DOMAIN P -> S] /\ DOMAIN P \in SUBSET Keys
  BY <1>1 DEF Sections
<1> HIDE DEF P, S
<1>3. CASE line.is = "section"
  <2> DEFINE K == DOMAIN P \union {line.key}
             Q == [k \in K |-> IF k \in DOMAIN P THEN P[k] ELSE <<>>]
  <2>1. ReadLine(ini, line) = [key |-> line.key, ok |-> ini.ok, params |-> Q]
    BY <1>3 DEF ReadLine, P
  <2>2. line.key \in Keys
    BY DEF Keys
  <2>3. <<>> \in S
    BY EmptySeq DEF S
  <2>4. Q \in [K -> S] /\ K \in SUBSET Keys /\ line.key \in DOMAIN Q
    BY <1>2, <2>2, <2>3
  <2> HIDE DEF Q
  <2>5. Q \in Sections
    BY <2>4 DEF Sections, S
  <2> QED  BY <1>1, <2>1, <2>2, <2>4, <2>5 DEF Inis
<1>4. CASE line.is = "blank"
  BY <1>4 DEF ReadLine
<1>5. CASE line.is = "value" /\ ini.key = NoSection
  <2>1. ReadLine(ini, line) = [ini EXCEPT !.ok = FALSE]
    BY <1>5 DEF ReadLine
  <2> QED  BY <1>5, <2>1 DEF Inis
<1>6. CASE line.is = "value" /\ ini.key # NoSection
  <2> DEFINE more == Append(P[ini.key], line)
             Q == [P EXCEPT ![ini.key] = more]
  <2>1. ReadLine(ini, line) = [ini EXCEPT !.params = Q]
    BY <1>6 DEF ReadLine, P
  <2>2. more \in S
    <3>1. P[ini.key] \in S /\ line \in Values
      BY <1>1, <1>2, <1>6 DEF Values
    <3> QED  BY <3>1, AppendProperties DEF S
  <2> HIDE DEF more
  <2>3. Q \in [DOMAIN P -> S]
    BY <1>1, <1>2, <1>6, <2>2
  <2>4. Q \in Sections /\ DOMAIN Q = DOMAIN P
    BY <1>2, <2>3 DEF Sections, S
  <2> HIDE DEF Q
  <2> QED  BY <1>1, <1>6, <2>1, <2>4 DEF Inis, P
<1> QED  BY <1>3, <1>4, <1>5, <1>6

\* The sections have lines of the file.
LEMMA IniIs ==
  ASSUME NEW lines \in IniFiles
  PROVE  Ini(lines) \in Inis
<1> DEFINE N == Len(lines)
           step == [n \in 1 .. N |-> [x \in Inis |-> ReadLine(x, lines[n])]]
           IsIni(f) == f = [n \in 0 .. N |->
                              IF n = 0 THEN NothingRead ELSE ReadLine(f[n - 1], lines[n])]
           ini == CHOOSE f : IsIni(f)
<1>1. /\ N \in Nat /\ DOMAIN lines = 1 .. N
      /\ \A n \in 1 .. N : lines[n] \in AllLines /\ lines[n].is \in {"section", "blank", "value"}
  <2>1. lines \in Seq(Range(lines))
    BY IniAssumption DEF IsSequence
  <2>2. N \in Nat /\ DOMAIN lines = 1 .. N
    BY <2>1
  <2> QED  BY <2>2, IniAssumption DEF AllLines, Range
<1>2. Ini(lines) = ini[N]
  BY DEF Ini
<1>3. \A n \in 1 .. N : \A x \in Inis : step[n][x] \in Inis /\ step[n][x] = ReadLine(x, lines[n])
  BY <1>1, ReadLineIs
<1>4. NothingRead \in Inis
  <2>1. [k \in {} |-> <<>>] \in [{} -> Seq(Values)]
    OBVIOUS
  <2>2. [k \in {} |-> <<>>] \in Sections
    BY <2>1 DEF Sections
  <2> QED  BY <2>2 DEF NothingRead, Inis
<1> HIDE DEF N, step
<1>5. PICK f \in [0 .. N -> Inis] : IsRecursion(f, N, NothingRead, step)
  BY <1>1, <1>3, <1>4, RecursionExists
<1>6. ASSUME NEW n \in 0 .. N
      PROVE  f[n] = IF n = 0 THEN NothingRead ELSE ReadLine(f[n - 1], lines[n])
  <2>1. f[n] = IF n = 0 THEN NothingRead ELSE step[n][f[n - 1]]
    BY <1>5 DEF IsRecursion
  <2>2. CASE n # 0
    <3>1. n \in 1 .. N /\ n - 1 \in 0 .. N
      BY <1>1, <2>2
    <3>2. f[n - 1] \in Inis
      BY <1>5, <3>1
    <3> QED  BY <1>3, <2>1, <2>2, <3>1, <3>2
  <2> QED  BY <2>1, <2>2
<1>7. f = [n \in 0 .. N |-> f[n]]
  BY <1>5
<1>8. IsIni(f)
  BY <1>6, <1>7
<1> HIDE DEF IsIni
<1>9. IsIni(ini)
  BY <1>8
<1> HIDE DEF ini
<1>10. /\ ini[0] = NothingRead
       /\ \A n \in 1 .. N : ini[n] = ReadLine(ini[n - 1], lines[n])
  <2>1. ini = [n \in 0 .. N |-> IF n = 0 THEN NothingRead ELSE ReadLine(ini[n - 1], lines[n])]
    BY <1>9 DEF IsIni
  <2>2. 0 \in 0 .. N /\ \A n \in 1 .. N : n \in 0 .. N /\ n # 0
    BY <1>1
  <2> QED  BY <2>1, <2>2
<1> DEFINE good == {n \in 0 .. N : ini[n] \in Inis}
<1>11. 0 \in good
  BY <1>1, <1>4, <1>10
<1>12. ASSUME NEW n \in 1 .. N, n - 1 \in good
       PROVE  n \in good
  <2>1. ini[n - 1] \in Inis /\ ini[n] = ReadLine(ini[n - 1], lines[n])
    BY <1>10, <1>12
  <2>2. \A x \in Inis : ReadLine(x, lines[n]) \in Inis
    BY <1>1, ReadLineIs
  <2>3. n \in 0 .. N
    BY <1>1
  <2> QED  BY <2>1, <2>2, <2>3
<1>13. \A n \in 0 .. N : n \in good
  <2> HIDE DEF good
  <2> QED  BY <1>1, <1>11, <1>12, UpTo
<1> QED  BY <1>1, <1>2, <1>13

LEMMA NumberOfFeatures ==
  ASSUME NEW line \in Values, WellFormed(line)
  PROVE  ArgOr(line, "num-features", 1) \in Nat
<1> DEFINE A == Args(line, "num-features")
<1>1. line.args \in Seq(Range(line.args))
      /\ \A n \in DOMAIN line.args : line.args[n].key = "num-features" => line.args[n].value \in Nat
  <2>1. PICK lines \in IniFiles : line \in Range(lines)
    BY DEF Values, AllLines
  <2>2. PICK n \in DOMAIN lines : line = lines[n]
    BY <2>1 DEF Range
  <2>3. IsFeature(line)
    BY <2>1, <2>2, IniAssumption DEF Values, WellFormed
  <2> QED  BY <2>3 DEF IsFeature, IsSequence
<1>2. CASE A = {}
  BY <1>2 DEF ArgOr
<1>3. CASE A # {}
  <2>1. Len(line.args) \in Nat /\ A \in SUBSET (1 .. Len(line.args))
    BY <1>1 DEF Args
  <2>2. Max(A) \in A
    BY <1>3, <2>1, MaxIs
  <2>3. line.args[Max(A)].value \in Nat
    BY <1>1, <2>2 DEF Args
  <2> QED  BY <1>3, <2>3 DEF ArgOr
<1> QED  BY <1>2, <1>3

-----------------------------------------------------------------------------
(* The weights *)

End(n) == IF n = 0 THEN 0 ELSE ffs[n].startInd + ffs[n].numScores

\* The slots of each feature come just after those of the one before it.
Slots ==
  /\ IsSequence(ffs)
  /\ \A n \in DOMAIN ffs : /\ ffs[n].startInd \in Nat /\ ffs[n].numScores \in Nat
                           /\ ffs[n].startInd = End(n - 1) /\ End(n) <= nextInd
  /\ \A m, n \in DOMAIN ffs : m < n => End(m) <= ffs[n].startInd
  /\ nextInd = End(Len(ffs))

\* Earlier features with the name of one.
Sharing(n) == {m \in 1 .. (n - 1) : ffs[m].name = ffs[n].name}

\* Of the first lines those that are for a feature, or for its name.
LinesTo(n, done) == {m \in 1 .. done : Section("[weight]")[m].name = ffs[n].name}

WeightOf(n, k, done) ==
  IF LinesTo(n, done) = {} \/ Sharing(n) # {} THEN 0
  ELSE Section("[weight]")[Max(LinesTo(n, done))].values[k]

WeightedBy(done) ==
  /\ DOMAIN weights = 0 .. (nextInd - 1)
  /\ \A n \in DOMAIN ffs : \A k \in 1 .. ffs[n].numScores :
       weights[ffs[n].startInd + k - 1] = WeightOf(n, k, done)

WeightLines == Len(Section("[weight]"))

WeightsInv ==
  /\ params \in Sections
  /\ Slots
  /\ pc = "weights" => next \in 1 .. (WeightLines + 1) /\ WeightedBy(next - 1)
  /\ pc \notin {"init", "features", "weights", "crash"} => WeightedBy(WeightLines)

LEMMA SectionIs ==
  ASSUME params \in Sections, NEW key
  PROVE  Section(key) \in Seq(Values)
<1>1. <<>> \in Seq(Values)
  BY EmptySeq
<1> QED  BY <1>1 DEF Section, Sections

LEMMA WeightsStart == Init => WeightsInv
<1> SUFFICES ASSUME Init  PROVE WeightsInv
  OBVIOUS
<1>1. pc = "init" /\ params = [k \in {} |-> <<>>] /\ ffs = <<>> /\ nextInd = 0
  BY DEF Init, SystemInit
<1>2. params \in Sections
  <2>1. params \in [{} -> Seq(Values)]
    BY <1>1
  <2> QED  BY <2>1 DEF Sections
<1>3. IsSequence(ffs) /\ Len(ffs) = 0 /\ DOMAIN ffs = {}
  BY <1>1, EmptyIsSequence
<1>4. Slots
  BY <1>1, <1>3 DEF Slots, End
<1> QED  BY <1>1, <1>2, <1>4 DEF WeightsInv

LEMMA InitFeatureKeepsSlots ==
  ASSUME WeightsInv, InitFeature
  PROVE  Slots'
<1> DEFINE line == Section("[feature]")[next]
           num == ArgOr(line, "num-features", 1)
           new == [name |-> NameOf(line), startInd |-> nextInd, numScores |-> num,
                   path |-> ArgOr(line, "path", "")]
<1>1. CASE UNCHANGED <<ffs, nextInd>>
  BY <1>1 DEF WeightsInv, Slots, End
<1>2. CASE ffs' = Append(ffs, new) /\ nextInd' = nextInd + num /\ WellFormed(line)
           /\ next \in DOMAIN Section("[feature]")
  <2> PICK N : N = Len(ffs)
    OBVIOUS
  <2>1. num \in Nat
    <3>1. Section("[feature]") \in Seq(Values)
      BY SectionIs DEF WeightsInv
    <3> DEFINE lines == Section("[feature]")
    <3>2. line \in Values
      <4> HIDE DEF lines
      <4>1. \A n \in DOMAIN lines : lines[n] \in Values
        BY <3>1 DEF lines
      <4> QED  BY <1>2, <4>1 DEF lines
    <3> HIDE DEF line
    <3> QED  BY <1>2, <3>2, NumberOfFeatures
  <2>2. /\ IsSequence(ffs)
        /\ \A n \in DOMAIN ffs : /\ ffs[n].startInd \in Nat /\ ffs[n].numScores \in Nat
                                 /\ ffs[n].startInd = End(n - 1) /\ End(n) <= nextInd
        /\ \A m, n \in DOMAIN ffs : m < n => End(m) <= ffs[n].startInd
        /\ nextInd = End(N)
    BY DEF WeightsInv, Slots
  <2>3. new.startInd = nextInd /\ new.numScores = num
    OBVIOUS
  <2> HIDE DEF num, new
  <2>4. /\ IsSequence(ffs') /\ Len(ffs') = N + 1 /\ N \in Nat
        /\ DOMAIN ffs = 1 .. N /\ DOMAIN ffs' = 1 .. (N + 1)
        /\ \A n \in 1 .. N : ffs'[n] = ffs[n]
        /\ ffs'[N + 1] = new
    BY <1>2, <2>2, SequenceGrows
  <2>5. nextInd \in Nat
    <3>1. CASE N = 0
      BY <2>2, <3>1 DEF End
    <3>2. CASE N # 0
      <4>1. N \in DOMAIN ffs
        BY <2>4, <3>2
      <4> QED  BY <2>2, <3>2, <4>1 DEF End
    <3> QED  BY <3>1, <3>2
  <2>6. \A n \in 0 .. N : End(n)' = End(n)
    <3>1. \A n \in 0 .. N : n # 0 => n \in 1 .. N
      BY <2>4
    <3> QED  BY <2>4, <3>1 DEF End
  <2>7. End(N + 1)' = nextInd + num
    <3>1. N + 1 # 0
      BY <2>4
    <3> QED  BY <2>3, <2>4, <3>1 DEF End
  <2>8. ASSUME NEW n \in DOMAIN ffs'
        PROVE  /\ ffs'[n].startInd \in Nat /\ ffs'[n].numScores \in Nat
               /\ ffs'[n].startInd = End(n - 1)' /\ End(n)' <= nextInd'
    <3>1. CASE n = N + 1
      <4>1. n - 1 = N /\ N \in 0 .. N
        BY <2>4, <3>1
      <4>2. ffs'[n].startInd = nextInd /\ ffs'[n].numScores = num
        BY <2>3, <2>4, <3>1
      <4>3. End(n - 1)' = nextInd
        BY <2>2, <2>6, <4>1
      <4>4. End(n)' = nextInd'
        BY <1>2, <2>7, <3>1 DEF num
      <4> QED  BY <1>2, <2>1, <2>5, <4>2, <4>3, <4>4 DEF num
    <3>2. CASE n # N + 1
      <4>1. n \in 1 .. N /\ n \in 0 .. N /\ n - 1 \in 0 .. N
        BY <2>4, <3>2
      <4>2. ffs'[n] = ffs[n] /\ End(n)' = End(n) /\ End(n - 1)' = End(n - 1)
        BY <2>4, <2>6, <4>1
      <4>3. /\ ffs[n].startInd \in Nat /\ ffs[n].numScores \in Nat
            /\ ffs[n].startInd = End(n - 1) /\ End(n) <= nextInd
        BY <2>2, <2>4, <4>1
      <4>4. End(n) \in Nat
        BY <4>1, <4>3 DEF End
      <4>5. nextInd <= nextInd' /\ nextInd' \in Nat
        BY <1>2, <2>1, <2>5 DEF num
      <4> QED  BY <2>5, <4>2, <4>3, <4>4, <4>5
    <3> QED  BY <3>1, <3>2
  <2>9. ASSUME NEW m \in DOMAIN ffs', NEW n \in DOMAIN ffs', m < n
        PROVE  End(m)' <= ffs'[n].startInd
    <3>1. m \in 1 .. N /\ m \in 0 .. N
      BY <2>4, <2>9
    <3>2. End(m)' = End(m)
      BY <2>6, <3>1
    <3>3. CASE n = N + 1
      <4>1. ffs'[n].startInd = nextInd
        BY <2>3, <2>4, <3>3
      <4> QED  BY <2>2, <2>4, <3>1, <3>2, <4>1
    <3>4. CASE n # N + 1
      <4>1. n \in 1 .. N
        BY <2>4, <3>4
      <4> QED  BY <2>2, <2>4, <2>9, <3>1, <3>2, <4>1
    <3> QED  BY <3>3, <3>4
  <2>10. nextInd' = End(Len(ffs))'
    BY <1>2, <2>4, <2>7 DEF num
  <2> QED  BY <2>4, <2>8, <2>9, <2>10 DEF Slots
<1> QED  BY <1>1, <1>2 DEF InitFeature, NextInd

\* The weights of a feature are in the vector, and no other feature has them.
LEMMA SlotsAre ==
  ASSUME Slots
  PROVE  /\ Len(ffs) \in Nat /\ DOMAIN ffs = 1 .. Len(ffs) /\ nextInd \in Nat
         /\ \A n \in DOMAIN ffs : \A k \in 1 .. ffs[n].numScores :
              /\ ffs[n].startInd + k - 1 \in 0 .. (nextInd - 1)
              /\ ffs[n].startInd + k - 1 \in SlotsOf(ffs[n])
              /\ \A m \in DOMAIN ffs \ {n} : ffs[n].startInd + k - 1 \notin SlotsOf(ffs[m])
<1>1. Len(ffs) \in Nat /\ DOMAIN ffs = 1 .. Len(ffs)
  BY SequenceGrows DEF Slots
<1>2. \A n \in DOMAIN ffs : End(n) = ffs[n].startInd + ffs[n].numScores
  BY <1>1 DEF End
<1>3. nextInd \in Nat
  <2>1. CASE Len(ffs) = 0
    BY <2>1 DEF Slots, End
  <2>2. CASE Len(ffs) # 0
    <3>1. Len(ffs) \in DOMAIN ffs
      BY <1>1, <2>2
    <3> QED  BY <1>2, <3>1 DEF Slots
  <2> QED  BY <2>1, <2>2
<1>4. ASSUME NEW n \in DOMAIN ffs, NEW k \in 1 .. ffs[n].numScores
      PROVE  /\ ffs[n].startInd + k - 1 \in 0 .. (nextInd - 1)
             /\ ffs[n].startInd + k - 1 \in SlotsOf(ffs[n])
             /\ \A m \in DOMAIN ffs \ {n} : ffs[n].startInd + k - 1 \notin SlotsOf(ffs[m])
  <2>1. /\ ffs[n].startInd \in Nat /\ ffs[n].numScores \in Nat
        /\ ffs[n].startInd + ffs[n].numScores <= nextInd
    BY <1>2 DEF Slots
  <2>2. k \in Nat /\ 1 <= k /\ k <= ffs[n].numScores
    BY <2>1
  <2>3. ASSUME NEW m \in DOMAIN ffs \ {n}
        PROVE  ffs[n].startInd + k - 1 \notin SlotsOf(ffs[m])
    <3>1. ffs[m].startInd \in Nat /\ ffs[m].numScores \in Nat
      BY DEF Slots
    <3>2. CASE m < n
      <4>1. ffs[m].startInd + ffs[m].numScores <= ffs[n].startInd
        BY <1>2, <3>2 DEF Slots
      <4> QED  BY <2>1, <2>2, <3>1, <4>1 DEF SlotsOf
    <3>3. CASE n < m
      <4>1. ffs[n].startInd + ffs[n].numScores <= ffs[m].startInd
        BY <1>2, <3>3 DEF Slots
      <4> QED  BY <2>1, <2>2, <3>1, <4>1 DEF SlotsOf
    <3> QED  BY <1>1, <3>2, <3>3
  <2>4. ffs[n].startInd + k - 1 \in SlotsOf(ffs[n])
    BY <2>1, <2>2 DEF SlotsOf
  <2>5. ffs[n].startInd + k - 1 \in 0 .. (nextInd - 1)
    BY <1>3, <2>1, <2>2
  <2> QED  BY <2>3, <2>4, <2>5
<1> QED  BY <1>1, <1>3, <1>4

LEMMA FeaturesDoneWeighs ==
  ASSUME WeightsInv, FeaturesDone
  PROVE  WeightedBy(0)'
<1>1. /\ weights' = [s \in 0 .. (nextInd - 1) |-> 0]
      /\ UNCHANGED <<params, ffs, nextInd>>
  BY DEF FeaturesDone
<1>2. ASSUME NEW n \in DOMAIN ffs, NEW k \in 1 .. ffs[n].numScores
      PROVE  weights'[ffs[n].startInd + k - 1] = 0 /\ WeightOf(n, k, 0)' = 0
  <2>1. ffs[n].startInd + k - 1 \in 0 .. (nextInd - 1)
    BY SlotsAre DEF WeightsInv
  <2>2. LinesTo(n, 0)' = {}
    BY DEF LinesTo
  <2> QED  BY <1>1, <2>1, <2>2 DEF WeightOf
<1> QED  BY <1>1, <1>2 DEF WeightedBy

LEMMA InitWeightWeighs ==
  ASSUME WeightsInv, InitWeight, pc' = "weights"
  PROVE  next' \in 1 .. (WeightLines' + 1) /\ WeightedBy(next - 1)'
<1> DEFINE line == Section("[weight]")[next]
           ff == FindFeatureFunction(line.name)
<1>1. /\ pc = "weights" /\ next \in DOMAIN Section("[weight]")
      /\ UNCHANGED <<params, ffs, nextInd>> /\ next' = next + 1
      /\ Named(line.name) # {}
      /\ Len(line.values) = ffs[ff].numScores
      /\ weights' = SetWeights(ffs[ff], line.values)
  BY DEF InitWeight
<1>2. /\ next \in 1 .. (WeightLines + 1) /\ WeightedBy(next - 1) /\ Slots
  BY <1>1 DEF WeightsInv
<1> PICK i : i = next
  OBVIOUS
<1>3. i \in 1 .. WeightLines /\ WeightLines \in Nat /\ i - 1 \in Nat
  <2>1. Section("[weight]") \in Seq(Values)
    BY SectionIs DEF WeightsInv
  <2>2. WeightLines \in Nat /\ DOMAIN Section("[weight]") = 1 .. WeightLines
    BY <2>1 DEF WeightLines
  <2> QED  BY <1>1, <2>2
<1>4. /\ Len(ffs) \in Nat /\ DOMAIN ffs = 1 .. Len(ffs) /\ nextInd \in Nat
      /\ \A n \in DOMAIN ffs : \A k \in 1 .. ffs[n].numScores :
           /\ ffs[n].startInd + k - 1 \in 0 .. (nextInd - 1)
           /\ ffs[n].startInd + k - 1 \in SlotsOf(ffs[n])
           /\ \A m \in DOMAIN ffs \ {n} : ffs[n].startInd + k - 1 \notin SlotsOf(ffs[m])
  BY <1>2, SlotsAre
<1>5. ff \in Named(line.name) /\ \A m \in Named(line.name) : ff <= m
  <2> DEFINE S == Named(line.name)
  <2>1. S \in SUBSET Nat
    BY <1>4 DEF Named
  <2>2. S # {}
    BY <1>1
  <2> HIDE DEF S
  <2>3. \E n \in S : \A m \in S : n <= m
    BY <2>1, <2>2, LeastNatural
  <2> QED  BY <2>3 DEF FindFeatureFunction, S
<1>6. /\ ff \in DOMAIN ffs /\ ffs[ff].name = line.name
      /\ \A m \in DOMAIN ffs : ffs[m].name = line.name => ff <= m
  BY <1>5 DEF Named
<1> HIDE DEF ff
<1>7. ASSUME NEW n \in DOMAIN ffs, NEW k \in 1 .. ffs[n].numScores
      PROVE  weights'[ffs[n].startInd + k - 1] = WeightOf(n, k, i)
  <2> DEFINE s == ffs[n].startInd + k - 1
  <2>1. /\ s \in 0 .. (nextInd - 1) /\ s \in SlotsOf(ffs[n])
        /\ \A m \in DOMAIN ffs \ {n} : s \notin SlotsOf(ffs[m])
        /\ weights[s] = WeightOf(n, k, i - 1) /\ DOMAIN weights = 0 .. (nextInd - 1)
    BY <1>2, <1>4 DEF WeightedBy
  <2>2. s - ffs[n].startInd + 1 = k
    <3>1. ffs[n].startInd \in Nat /\ k \in Int
      BY <1>2 DEF Slots
    <3> QED  BY <3>1
  <2> HIDE DEF s
  <2>3. weights'[s] = IF s \in SlotsOf(ffs[ff]) THEN line.values[s - ffs[ff].startInd + 1]
                      ELSE weights[s]
    BY <1>1, <2>1 DEF SetWeights
  <2>4. LinesTo(n, i) = LinesTo(n, i - 1) \union (IF line.name = ffs[n].name THEN {i} ELSE {})
    <3>1. 1 .. i = (1 .. (i - 1)) \union {i}
      BY <1>3
    <3> QED  BY <3>1 DEF LinesTo
  <2>5. CASE n = ff
    <3>1. i \in LinesTo(n, i) /\ LinesTo(n, i) \in SUBSET (1 .. i)
      BY <1>3, <1>6, <2>4, <2>5 DEF LinesTo
    <3>2. Max(LinesTo(n, i)) = i
      <4> DEFINE S == LinesTo(n, i)
      <4>1. i \in Nat /\ i \in S /\ S \in SUBSET (1 .. i)
        BY <1>3, <3>1
      <4> HIDE DEF S
      <4>2. Max(S) \in S /\ \A x \in S : Max(S) >= x
        BY <4>1, MaxIs
      <4>3. Max(S) \in 1 .. i /\ i <= Max(S)
        BY <4>1, <4>2
      <4>4. Max(S) = i
        BY <4>1, <4>3
      <4> QED  BY <4>4 DEF S
    <3>3. Sharing(n) = {}
      BY <1>4, <1>6, <2>5 DEF Sharing
    <3>4. WeightOf(n, k, i) = line.values[k]
      BY <3>1, <3>2, <3>3 DEF WeightOf
    <3> QED  BY <2>1, <2>2, <2>3, <2>5, <3>4 DEF s
  <2>6. CASE n # ff
    <3>1. weights'[s] = WeightOf(n, k, i - 1)
      BY <1>6, <2>1, <2>3, <2>6
    <3>2. CASE line.name = ffs[n].name
      <4>1. ff \in 1 .. (n - 1)
        BY <1>4, <1>6, <2>6, <3>2
      <4>2. Sharing(n) # {}
        BY <1>6, <3>2, <4>1 DEF Sharing
      <4> QED  BY <3>1, <4>2 DEF WeightOf, s
    <3>3. CASE line.name # ffs[n].name
      <4>1. LinesTo(n, i) = LinesTo(n, i - 1)
        BY <2>4, <3>3
      <4> QED  BY <3>1, <4>1 DEF WeightOf, s
    <3> QED  BY <3>2, <3>3
  <2> QED  BY <2>5, <2>6
<1>8. DOMAIN weights' = DOMAIN weights
  BY <1>1 DEF SetWeights
<1>9. \A n, k : WeightOf(n, k, i)' = WeightOf(n, k, i)
  BY <1>1 DEF WeightOf, LinesTo, Sharing, Section
<1>10. WeightedBy(i)'
  BY <1>1, <1>2, <1>7, <1>8, <1>9 DEF WeightedBy
<1>11. WeightLines' = WeightLines
  BY <1>1 DEF WeightLines, Section
<1>12. next' = i + 1 /\ next' - 1 = i /\ next' \in 1 .. (WeightLines + 1)
  BY <1>1, <1>3
<1>13. WeightedBy(next - 1)'
  BY <1>10, <1>12 DEF WeightedBy
<1> QED  BY <1>11, <1>12, <1>13

LEMMA WeightsKeep == WeightsInv /\ [Next]_vars => WeightsInv'
<1> SUFFICES ASSUME WeightsInv, [Next]_vars  PROVE WeightsInv'
  OBVIOUS
<1>1. ASSUME NEW lines \in IniFiles, ReadIni(lines)
      PROVE  WeightsInv'
  <2>1. /\ params' = Ini(lines).params /\ pc' \in {"features", "crash"}
        /\ UNCHANGED <<ffs, nextInd>>
    BY <1>1 DEF ReadIni
  <2>2. params' \in Sections
    BY <2>1, IniIs DEF Inis
  <2>3. Slots'
    BY <2>1 DEF WeightsInv, Slots, End
  <2> QED  BY <2>1, <2>2, <2>3 DEF WeightsInv
<1>2. CASE InitFeature
  <2>1. params' = params /\ pc' \in {"features", "crash"}
    BY <1>2 DEF InitFeature
  <2> QED  BY <1>2, <2>1, InitFeatureKeepsSlots DEF WeightsInv
<1>3. CASE FeaturesDone
  <2>1. UNCHANGED <<params, ffs, nextInd>> /\ pc' = "weights" /\ next' = 1
    BY <1>3 DEF FeaturesDone
  <2>2. Slots'
    BY <2>1 DEF WeightsInv, Slots, End
  <2>3. WeightLines' \in Nat
    <3>1. Section("[weight]") \in Seq(Values)
      BY SectionIs DEF WeightsInv
    <3>2. Section("[weight]")' = Section("[weight]")
      BY <2>1 DEF Section
    <3> QED  BY <3>1, <3>2 DEF WeightLines
  <2>4. WeightedBy(next - 1)'
    <3>1. WeightedBy(0)' /\ next' - 1 = 0
      BY <1>3, <2>1, FeaturesDoneWeighs
    <3> QED  BY <3>1 DEF WeightedBy
  <2>5. next' \in 1 .. (WeightLines' + 1)
    <3>1. PICK last : last = WeightLines'
      OBVIOUS
    <3>2. last \in Nat
      BY <2>3, <3>1, Zenon
    <3>3. 1 \in 1 .. (last + 1)
      BY <3>2
    <3> QED  BY <2>1, <3>1, <3>3
  <2>6. params' \in Sections
    BY <2>1 DEF WeightsInv
  <2> QED  BY <2>1, <2>2, <2>4, <2>5, <2>6 DEF WeightsInv
<1>4. CASE InitWeight
  <2>1. UNCHANGED <<params, ffs, nextInd>> /\ pc' \in {"weights", "crash"}
    BY <1>4 DEF InitWeight
  <2>2. Slots'
    BY <2>1 DEF WeightsInv, Slots, End
  <2>3. pc' = "weights" => next' \in 1 .. (WeightLines' + 1) /\ WeightedBy(next - 1)'
    BY <1>4, InitWeightWeighs
  <2> QED  BY <2>1, <2>2, <2>3 DEF WeightsInv
<1>5. ASSUME UNCHANGED <<params, ffs, nextInd, weights>>,
             pc' \in {"init", "features", "weights"} => pc' = pc /\ next' = next,
             pc' \notin {"init", "features", "weights", "crash"} =>
               \/ pc \notin {"init", "features", "weights", "crash"}
               \/ WeightedBy(WeightLines)
      PROVE  WeightsInv'
  <2>1. Slots'
    BY <1>5 DEF WeightsInv, Slots, End
  <2>2. WeightLines' = WeightLines /\ \A done : WeightedBy(done)' = WeightedBy(done)
    BY <1>5 DEF WeightLines, WeightedBy, WeightOf, LinesTo, Sharing, Section
  <2>3. pc' = "weights" => next' \in 1 .. (WeightLines' + 1) /\ WeightedBy(next - 1)'
    <3> SUFFICES ASSUME pc' = "weights"
                 PROVE  next' \in 1 .. (WeightLines' + 1) /\ WeightedBy(next - 1)'
      OBVIOUS
    <3>1. next' = next /\ next \in 1 .. (WeightLines + 1) /\ WeightedBy(next - 1)
      BY <1>5 DEF WeightsInv
    <3>2. PICK done : done = next - 1
      OBVIOUS
    <3>3. WeightedBy(done)'
      BY <2>2, <3>1, <3>2
    <3>4. WeightedBy(next - 1)'
      BY <3>1, <3>2, <3>3 DEF WeightedBy
    <3> QED  BY <2>2, <3>1, <3>4
  <2>4. pc' \notin {"init", "features", "weights", "crash"} => WeightedBy(WeightLines)'
    <3> SUFFICES ASSUME pc' \notin {"init", "features", "weights", "crash"}
                 PROVE  WeightedBy(WeightLines)'
      OBVIOUS
    <3>1. WeightedBy(WeightLines)
      BY <1>5 DEF WeightsInv
    <3>2. PICK done : done = WeightLines
      OBVIOUS
    <3>3. WeightedBy(done)'
      BY <2>2, <3>1, <3>2
    <3> QED  BY <2>2, <3>2, <3>3 DEF WeightedBy
  <2> QED  BY <1>5, <2>1, <2>3, <2>4 DEF WeightsInv
<1>6. CASE WeightsDone
  <2>1. /\ UNCHANGED <<params, ffs, nextInd, weights>> /\ pc' = "load" /\ pc = "weights"
        /\ next = WeightLines + 1
    BY <1>6 DEF WeightsDone, WeightLines
  <2>2. WeightLines \in Nat
    <3>1. Section("[weight]") \in Seq(Values)
      BY SectionIs DEF WeightsInv
    <3> QED  BY <3>1 DEF WeightLines
  <2>3. next - 1 = WeightLines
    BY <2>1, <2>2
  <2>4. WeightedBy(WeightLines)
    BY <2>1, <2>3 DEF WeightsInv
  <2> QED  BY <1>5, <2>1, <2>4
<1>7. CASE LoadTable \/ LoadDone
  <2>1. /\ UNCHANGED <<params, ffs, nextInd, weights>> /\ pc = "load"
        /\ pc' \in {"load", "input", "exit 1", "crash"}
    BY <1>7 DEF LoadTable, LoadDone, systemVars, config
  <2> QED  BY <1>5, <2>1
<1>8. CASE \E line \in Sentences : ReadSentence(line)
  <2>1. UNCHANGED <<params, ffs, nextInd, weights>> /\ pc = "input" /\ pc' \in {"lookup", "crash"}
    BY <1>8 DEF ReadSentence, config
  <2> QED  BY <1>5, <2>1
<1>9. CASE LookupPath \/ WriteMemory \/ Finish
  <2>1. /\ UNCHANGED <<params, ffs, nextInd, weights>> /\ pc \in {"lookup", "input"}
        /\ pc' \in {"lookup", "initStacks", "adrift", "exit 0", "exit 1"}
    BY <1>9 DEF LookupPath, WriteMemory, Finish, ExitCode, Checked, systemVars, config
  <2> QED  BY <1>5, <2>1
<1>10. CASE SearchStep
  <2>1. /\ UNCHANGED <<params, ffs, nextInd, weights>>
        /\ pc \in Searching \union {"initStacks", "adrift"}
        /\ pc' \in Searching \union {"input", "adrift"}
    BY <1>10, SearchStepIs DEF config
  <2> QED  BY <1>5, <2>1 DEF Searching
<1>11. CASE UNCHANGED vars
  BY <1>5, <1>11 DEF vars, systemVars, config
<1> QED  BY <1>1, <1>2, <1>3, <1>4, <1>6, <1>7, <1>8, <1>9, <1>10, <1>11
         DEF Next, SystemNext, SearchStep

\* The sums in the property are where the slots of the features start.
LEMMA SlotsAreSums ==
  ASSUME Slots, NEW n \in DOMAIN ffs
  PROVE  LET slots[m \in 0 .. (n - 1)] ==
               IF m = 0 THEN 0 ELSE slots[m - 1] + ffs[m].numScores
         IN  slots[n - 1] = ffs[n].startInd
<1> DEFINE IsSum(f) == f = [m \in 0 .. (n - 1) |->
                              IF m = 0 THEN 0 ELSE f[m - 1] + ffs[m].numScores]
           slots == CHOOSE f : IsSum(f)
           ends == [m \in 0 .. (n - 1) |-> End(m)]
<1>1. n \in 1 .. Len(ffs) /\ Len(ffs) \in Nat /\ DOMAIN ffs = 1 .. Len(ffs)
  BY SlotsAre
<1>2. \A m \in 1 .. n : m \in DOMAIN ffs /\ ffs[m].startInd = End(m - 1)
  BY <1>1 DEF Slots
<1>3. \A m \in 1 .. (n - 1) : End(m) = End(m - 1) + ffs[m].numScores
  <2>1. \A m \in 1 .. (n - 1) : m \in 1 .. n /\ m # 0
    BY <1>1
  <2> QED  BY <1>2, <2>1 DEF End
<1>4. IsSum(ends)
  <2>1. ASSUME NEW m \in 0 .. (n - 1)
        PROVE  ends[m] = IF m = 0 THEN 0 ELSE ends[m - 1] + ffs[m].numScores
    <3>1. CASE m = 0
      BY <3>1 DEF End
    <3>2. CASE m # 0
      <4>1. m \in 1 .. (n - 1) /\ m - 1 \in 0 .. (n - 1)
        BY <1>1, <3>2
      <4> QED  BY <1>3, <3>2, <4>1
    <3> QED  BY <3>1, <3>2
  <2> QED  BY <2>1
<1> HIDE DEF IsSum
<1>5. IsSum(slots)
  BY <1>4
<1> HIDE DEF slots
<1>6. \A m \in 0 .. (n - 1) : slots[m] = IF m = 0 THEN 0 ELSE slots[m - 1] + ffs[m].numScores
  BY <1>5 DEF IsSum
<1> DEFINE good == {m \in 0 .. (n - 1) : slots[m] = End(m)}
<1>7. 0 \in good
  BY <1>1, <1>6 DEF End
<1>8. ASSUME NEW m \in 1 .. (n - 1), m - 1 \in good
      PROVE  m \in good
  <2>1. m \in 0 .. (n - 1) /\ m # 0
    BY <1>1
  <2>2. slots[m] = slots[m - 1] + ffs[m].numScores /\ slots[m - 1] = End(m - 1)
    BY <1>6, <1>8, <2>1
  <2> QED  BY <1>3, <2>1, <2>2
<1>9. n - 1 \in Nat /\ n - 1 \in 0 .. (n - 1) /\ n \in 1 .. n
  BY <1>1
<1>10. \A m \in 0 .. (n - 1) : m \in good
  <2> HIDE DEF good
  <2> QED  BY <1>7, <1>8, <1>9, UpTo
<1>11. slots[n - 1] = ffs[n].startInd
  BY <1>2, <1>9, <1>10
<1> QED  BY <1>11 DEF slots, IsSum

LEMMA WeightsInvariance == Spec => []WeightsInv
BY WeightsStart, WeightsKeep, PTL DEF Spec

(* Once the weights are read, a slot has the weight that the last line for   *)
(* the first feature of that name gives it, and no line reaches a feature    *)
(* that shares its name with an earlier one (System.cpp:148-169, 193-203,    *)
(* FeatureFunction.cpp:71-92): for every configuration.                      *)
THEOREM WeightsAlwaysDealt == Spec => []LegacyWeights
<1>1. WeightsInv => LegacyWeights
  <2> SUFFICES ASSUME WeightsInv, pc \notin {"init", "features", "weights", "crash"},
                      NEW n \in DOMAIN ffs, NEW k \in 1 .. ffs[n].numScores
               PROVE  LET lines == {m \in DOMAIN Section("[weight]") :
                                      Section("[weight]")[m].name = ffs[n].name}
                          before == {m \in 1 .. (n - 1) : ffs[m].name = ffs[n].name}
                          slots[m \in 0 .. (n - 1)] ==
                            IF m = 0 THEN 0 ELSE slots[m - 1] + ffs[m].numScores
                      IN  weights[slots[n - 1] + k - 1]
                            = IF lines = {} \/ before # {} THEN 0
                              ELSE Section("[weight]")[Max(lines)].values[k]
    BY DEF LegacyWeights
  <2> DEFINE slots == CHOOSE f : f = [m \in 0 .. (n - 1) |->
                                        IF m = 0 THEN 0 ELSE f[m - 1] + ffs[m].numScores]
  <2>1. slots[n - 1] = ffs[n].startInd
    BY SlotsAreSums DEF WeightsInv
  <2> HIDE DEF slots
  <2>2. weights[slots[n - 1] + k - 1] = WeightOf(n, k, WeightLines)
    BY <2>1 DEF WeightsInv, WeightedBy
  <2>3. {m \in DOMAIN Section("[weight]") : Section("[weight]")[m].name = ffs[n].name}
          = LinesTo(n, WeightLines)
    <3>1. Section("[weight]") \in Seq(Values)
      BY SectionIs DEF WeightsInv
    <3>2. DOMAIN Section("[weight]") = 1 .. WeightLines
      BY <3>1 DEF WeightLines
    <3> QED  BY <3>2 DEF LinesTo
  <2>4. {m \in 1 .. (n - 1) : ffs[m].name = ffs[n].name} = Sharing(n)
    BY DEF Sharing
  <2> QED  BY <2>2, <2>3, <2>4 DEF WeightOf, slots
<1> QED  BY <1>1, WeightsInvariance, PTL

-----------------------------------------------------------------------------
(* No word twice *)

\* Whatever the number of scores, what is read is a sequence.
LEMMA ReadIsSequence ==
  ASSUME NEW num \in Nat, NEW tpColl \in Seq(TablePhrases(num))
  PROVE  IsSequence(ReadMemory(NodeMemory(tpColl)))
<1> DEFINE N == Len(tpColl)
           seqs == [n \in DOMAIN tpColl |-> PhraseMemory(tpColl[n])]
           flat == FlattenSeq(seqs)
           mem == NodeMemory(tpColl)
           first == <<Count(N)>>
<1>1. N \in Nat /\ DOMAIN tpColl = 1 .. N /\ \A n \in 1 .. N : tpColl[n] \in TablePhrases(num)
  OBVIOUS
<1>2. \A n \in 1 .. N : PhraseMemory(tpColl[n]) \in Seq(Cells)
  BY <1>1, MemoryOfPhrase
<1>3. seqs \in Seq(Seq(Cells))
  <2> DEFINE X == Seq(Cells)
  <2> HIDE DEF X, N
  <2>1. \A n \in 1 .. N : PhraseMemory(tpColl[n]) \in X
    BY <1>2 DEF X
  <2>2. seqs \in Seq(X)
    BY <1>1, <2>1
  <2> QED  BY <2>2 DEF X
<1>4. mem = first \o flat
  BY DEF NodeMemory
<1> HIDE DEF N, seqs
<1>5. flat \in Seq(Cells)
  BY <1>3, FlattenedAt
<1>6. first \in Seq(Cells) /\ Len(first) = 1 /\ first[1].val = N
  BY <1>1 DEF Count, Cells
<1> HIDE DEF first, flat, mem
<1>7. mem[1] = first[1]
  <2>1. /\ first \o flat \in Seq(Cells) /\ Len(first \o flat) = Len(first) + Len(flat)
        /\ \A i \in 1 .. Len(first) + Len(flat) :
             (first \o flat)[i] = IF i <= Len(first) THEN first[i] ELSE flat[i - Len(first)]
    BY <1>5, <1>6, ConcatProperties
  <2>2. Len(flat) \in Nat
    BY <1>5
  <2>3. 1 \in 1 .. Len(first) + Len(flat) /\ 1 <= Len(first)
    BY <1>6, <2>2
  <2> QED  BY <1>4, <2>1, <2>3
<1>8. PICK f : ReadMemory(mem) = [n \in 1 .. N |-> f[n]]
  <2>1. mem[1].val = N
    BY <1>6, <1>7
  <2> DEFINE g == ReadMemory(mem)
  <2>2. g = [n \in 1 .. mem[1].val |-> g[n]]
    BY DEF ReadMemory
  <2> HIDE DEF g
  <2> QED  BY <2>1, <2>2 DEF g
<1>9. ReadMemory(mem) \in Seq({f[n] : n \in 1 .. N})
  BY <1>1, <1>8
<1> QED  BY <1>9, SeqOfRange DEF IsSequence, mem

Hypotheses ==
  [prev : Nat \X Nat, range : Ranges, bitmap : SUBSET Nat, covered : Nat, isValid : BOOLEAN]

\* What the hypotheses that extend those of a stack are made of.
PathsAreReady ==
  /\ IsSequence(pathInfo)
  /\ \A n \in DOMAIN pathInfo :
       /\ pathInfo[n].range \in Ranges /\ pathInfo[n].range.startPos <= pathInfo[n].range.endPos
       /\ IsSequence(pathInfo[n].tps)

\* It extends a hypothesis of stack s.  The coverage of the first one may be
\* overwritten, so that it says nothing.
Extends(h, stack, s) ==
  \E p \in DOMAIN stack :
    /\ h.prev = <<s, p>>
    /\ WordsOf(h.range) # {} /\ WordsOf(h.range) \subseteq h.bitmap
    /\ h.covered = s + Cardinality(WordsOf(h.range))
    /\ s # 0 => /\ stack[p].bitmap \subseteq h.bitmap
                /\ stack[p].bitmap \intersect WordsOf(h.range) = {}

Belongs(h, k) ==
  /\ h.covered = k
  /\ IF k = 0 THEN h.prev = NoPrev ELSE \E s \in 0 .. (k - 1) : Extends(h, stacks[s], s)

StacksAreLinked ==
  /\ stacks \in [0 .. InputSize -> Seq(Hypotheses)]
  /\ \A k \in DOMAIN stacks : \A n \in DOMAIN stacks[k] : Belongs(stacks[k][n], k)

\* A slot that is not valid keeps what it had, which is of an earlier stack.
SlotsAreSet ==
  /\ hypos \in [1 .. NumNewHypos -> Hypotheses]
  /\ numHypos \in 0 .. NumNewHypos
  /\ freed.bitmap \in SUBSET Nat
  /\ stackInd \in 0 .. InputSize
  /\ pc \in Searching \ {"initStack"} =>
       \A n \in 1 .. numHypos : hypos[n].isValid => Extends(hypos[n], stacks[stackInd], stackInd)

\* A thread that has found a slot valid still finds it set, whatever the flag is now.
ThreadsAreAtSlots ==
  /\ threads \in [Threads -> [i : Nat \ {0}, at : {"test", "judge"}]]
  /\ \A t \in Threads :
       threads[t].at = "judge" /\ threads[t].i <= numHypos =>
         Extends(hypos[threads[t].i], stacks[stackInd], stackInd)

LinksInv ==
  /\ pc \in Preparing \union {"load"} => stacks = <<>>
  /\ pc = "finalizeStack" => next \in Nat \ {0}
  /\ pc \in Searching \union {"initStacks"} => PathsAreReady
  /\ pc \in Searching => StacksAreLinked /\ SlotsAreSet
  /\ pc = "input" /\ ~overrun => stacks = <<>> \/ (said # <<>> /\ StacksAreLinked)
  /\ pc = "adrift" => overrun
  /\ pc = "processStack" => ThreadsAreAtSlots

-----------------------------------------------------------------------------
(* The words of a chain *)

LEMMA WordsAreCounted ==
  ASSUME NEW r \in Ranges
  PROVE  /\ WordsOf(r) \in SUBSET Nat /\ Cardinality(WordsOf(r)) \in Nat
         /\ WordsOf(r) # {} => Cardinality(WordsOf(r)) > 0
<1>1. r.startPos \in Nat /\ r.endPos \in Nat
  BY DEF Ranges
<1>2. Cardinality(WordsOf(r)) = IF r.startPos > r.endPos THEN 0 ELSE r.endPos - r.startPos + 1
  <2>1. \A a, b \in Int : Cardinality(a .. b) = IF a > b THEN 0 ELSE b - a + 1
    BY FS_Interval
  <2>2. r.startPos \in Int /\ r.endPos \in Int
    BY <1>1
  <2> QED  BY <2>1, <2>2 DEF WordsOf
<1>3. WordsOf(r) # {} => r.startPos <= r.endPos
  BY <1>1 DEF WordsOf
<1>4. WordsOf(r) \in SUBSET Nat
  BY <1>1 DEF WordsOf
<1> QED  BY <1>1, <1>2, <1>3, <1>4

WordsIn(chain) == FoldLeft(LAMBDA sum, r : sum + Cardinality(WordsOf(r)), 0, chain)

AreWordsUpTo(total, chain) ==
  /\ total \in [0 .. Len(chain) -> Nat]
  /\ total[0] = 0
  /\ \A n \in 1 .. Len(chain) : total[n] = total[n - 1] + Cardinality(WordsOf(chain[n]))

LEMMA WordsAddUp ==
  ASSUME NEW chain \in Seq(Ranges)
  PROVE  \E total : AreWordsUpTo(total, chain) /\ WordsIn(chain) = total[Len(chain)]
<1> DEFINE N == Len(chain)
           op(sum, r) == sum + Cardinality(WordsOf(r))
           IsIter(f) == f = [s \in SUBSET (1 .. N) |->
                               IF s = {} THEN 0 ELSE op(f[s \ {Max(s)}], chain[Max(s)])]
           iter == CHOOSE f : IsIter(f)
<1>1. N \in Nat /\ DOMAIN chain = 1 .. N /\ \A n \in 1 .. N : chain[n] \in Ranges
  OBVIOUS
<1>2. WordsIn(chain) = iter[1 .. N]
  BY <1>1 DEF WordsIn, FoldLeft, MapThenFoldSet
<1>3. \A sum \in Nat : \A n \in 1 .. N : op(sum, chain[n]) \in Nat
  <2> SUFFICES ASSUME NEW sum \in Nat, NEW n \in 1 .. N
               PROVE  op(sum, chain[n]) \in Nat
    OBVIOUS
  <2>1. Cardinality(WordsOf(chain[n])) \in Nat
    BY <1>1, WordsAreCounted
  <2> QED  BY <2>1
<1> HIDE DEF op, N
<1>4. IsIter(iter)
  <2> DEFINE step == [k \in 1 .. N |-> [x \in Nat |-> op(x, chain[k])]]
  <2>1. step \in [1 .. N -> [Nat -> Nat]]
    BY <1>3
  <2>2. PICK f \in [SUBSET (1 .. N) -> Nat] : IsFold(f, step, 0, N)
    <3> HIDE DEF step
    <3>1. 0 \in Nat
      OBVIOUS
    <3> QED  BY <1>1, <2>1, <3>1, FoldExists
  <2>3. ASSUME NEW s \in SUBSET (1 .. N)
        PROVE  f[s] = IF s = {} THEN 0 ELSE op(f[s \ {Max(s)}], chain[Max(s)])
    <3>1. CASE s = {}
      BY <2>2, <3>1 DEF IsFold
    <3>2. CASE s # {}
      <4>1. Max(s) \in 1 .. N
        BY <1>1, <3>2, MaxIs
      <4>2. f[s] = step[Max(s)][f[s \ {Max(s)}]] /\ f[s \ {Max(s)}] \in Nat
        <5> HIDE DEF step
        <5> QED  BY <2>2, <3>2 DEF IsFold
      <4> QED  BY <3>2, <4>1, <4>2
    <3> QED  BY <3>1, <3>2
  <2>4. f = [s \in SUBSET (1 .. N) |-> f[s]]
    OBVIOUS
  <2>5. IsIter(f)
    <3> HIDE DEF step
    <3> QED  BY <2>3, <2>4
  <2> HIDE DEF IsIter
  <2> QED  BY <2>5
<1>5. \A s \in SUBSET (1 .. N) :
        iter[s] = IF s = {} THEN 0 ELSE op(iter[s \ {Max(s)}], chain[Max(s)])
  <2> HIDE DEF iter
  <2> QED  BY <1>4
<1> HIDE DEF iter, IsIter
<1> DEFINE total == [n \in 0 .. N |-> iter[1 .. n]]
<1>6. iter[1 .. 0] = 0
  <2>1. 1 .. 0 = {} /\ {} \in SUBSET (1 .. N)
    OBVIOUS
  <2> QED  BY <1>5, <2>1
<1>7. ASSUME NEW k \in 1 .. N
      PROVE  iter[1 .. k] = op(iter[1 .. k - 1], chain[k])
  <2>1. /\ 1 .. k \in SUBSET (1 .. N) /\ 1 .. k # {} /\ Max(1 .. k) = k
        /\ (1 .. k) \ {Max(1 .. k)} = 1 .. k - 1
    BY <1>1, MaxOfPrefix
  <2> QED  BY <1>5, <2>1
<1> DEFINE good == {k \in 0 .. N : iter[1 .. k] \in Nat}
<1>8. 0 \in good
  BY <1>1, <1>6
<1>9. ASSUME NEW k \in 1 .. N, k - 1 \in good
      PROVE  k \in good
  <2>1. iter[1 .. k - 1] \in Nat
    BY <1>9
  <2>2. iter[1 .. k] \in Nat
    BY <1>3, <1>7, <2>1
  <2> QED  BY <1>1, <2>2
<1>10. \A k \in 0 .. N : k \in good
  <2> HIDE DEF good
  <2> QED  BY <1>1, <1>8, <1>9, UpTo
<1>11. total \in [0 .. N -> Nat] /\ total[0] = 0 /\ total[N] = iter[1 .. N]
  BY <1>1, <1>6, <1>10
<1>12. ASSUME NEW n \in 1 .. N
       PROVE  total[n] = total[n - 1] + Cardinality(WordsOf(chain[n]))
  <2>1. n \in 0 .. N /\ n - 1 \in 0 .. N
    BY <1>1
  <2> QED  BY <1>7, <2>1 DEF op
<1> HIDE DEF total
<1>13. AreWordsUpTo(total, chain)
  BY <1>11, <1>12 DEF AreWordsUpTo, N
<1> QED  BY <1>2, <1>11, <1>13 DEF N

LEMMA WordsOfLonger ==
  ASSUME NEW chain \in Seq(Ranges), NEW r \in Ranges
  PROVE  /\ WordsIn(chain) \in Nat
         /\ WordsIn(Append(chain, r)) = WordsIn(chain) + Cardinality(WordsOf(r))
<1> DEFINE more == Append(chain, r)
           N    == Len(chain)
<1>1. /\ more \in Seq(Ranges) /\ N \in Nat /\ Len(more) = N + 1 /\ more[N + 1] = r
      /\ \A n \in 1 .. N : more[n] = chain[n]
  OBVIOUS
<1>2. PICK a : AreWordsUpTo(a, chain) /\ WordsIn(chain) = a[N]
  BY WordsAddUp
<1> HIDE DEF more
<1>3. PICK b : AreWordsUpTo(b, more) /\ WordsIn(more) = b[N + 1]
  BY <1>1, WordsAddUp
<1> HIDE DEF N
<1> DEFINE good == {n \in 0 .. N : a[n] = b[n]}
<1>4. 0 \in good
  BY <1>1, <1>2, <1>3 DEF AreWordsUpTo
<1>5. ASSUME NEW n \in 1 .. N, n - 1 \in good
      PROVE  n \in good
  <2>1. n \in 1 .. (N + 1) /\ n \in 0 .. N
    BY <1>1
  <2>2. a[n] = a[n - 1] + Cardinality(WordsOf(chain[n]))
    BY <1>2 DEF AreWordsUpTo, N
  <2>3. b[n] = b[n - 1] + Cardinality(WordsOf(more[n]))
    BY <1>1, <1>3, <2>1 DEF AreWordsUpTo
  <2> QED  BY <1>1, <1>5, <2>1, <2>2, <2>3
<1>6. \A n \in 0 .. N : n \in good
  <2> HIDE DEF good
  <2> QED  BY <1>1, <1>4, <1>5, UpTo
<1>7. a[N] = b[N] /\ a[N] \in Nat
  <2>1. N \in 0 .. N
    BY <1>1
  <2> QED  BY <1>2, <1>6, <2>1 DEF AreWordsUpTo, N
<1>8. b[N + 1] = b[N] + Cardinality(WordsOf(more[N + 1]))
  <2>1. N + 1 \in 1 .. (N + 1) /\ (N + 1) - 1 = N
    BY <1>1
  <2> QED  BY <1>1, <1>3, <2>1 DEF AreWordsUpTo
<1> QED  BY <1>1, <1>2, <1>3, <1>7, <1>8 DEF more

LEMMA NoWords == WordsIn(<<>>) = 0
<1>1. PICK total : AreWordsUpTo(total, <<>>) /\ WordsIn(<<>>) = total[Len(<<>>)]
  <2>1. <<>> \in Seq(Ranges)
    OBVIOUS
  <2> QED  BY <2>1, WordsAddUp
<1>2. Len(<<>>) = 0
  OBVIOUS
<1> QED  BY <1>1, <1>2 DEF AreWordsUpTo

\* Hypothesis p of stack k extends hypothesis q of stack s.
Follows(k, p, s, q) ==
  /\ s \in 0 .. (k - 1) /\ s \in DOMAIN stacks /\ q \in DOMAIN stacks[s]
  /\ stacks[k][p].prev[1] = s /\ stacks[k][p].prev[2] = q
  /\ WordsOf(stacks[k][p].range) # {}
  /\ WordsOf(stacks[k][p].range) \subseteq stacks[k][p].bitmap
  /\ k = s + Cardinality(WordsOf(stacks[k][p].range))
  /\ s # 0 => /\ stacks[s][q].bitmap \subseteq stacks[k][p].bitmap
              /\ stacks[s][q].bitmap \intersect WordsOf(stacks[k][p].range) = {}

\* What a hypothesis of stack k extends, if anything.
LEMMA HypothesisExtends ==
  ASSUME StacksAreLinked, Len(Sentence) \in Nat,
         NEW k \in DOMAIN stacks, NEW n \in DOMAIN stacks[k]
  PROVE  /\ k \in 0 .. InputSize /\ stacks[k][n] \in Hypotheses
         /\ stacks[k][n].prev = NoPrev => k = 0
         /\ stacks[k][n].prev # NoPrev =>
              \E s, q : Follows(k, n, s, q)
<1>1. /\ DOMAIN stacks = 0 .. InputSize /\ InputSize \in Nat
      /\ \A j \in 0 .. InputSize : stacks[j] \in Seq(Hypotheses)
  BY DEF StacksAreLinked, InputSize
<1>2. k \in 0 .. InputSize /\ stacks[k][n] \in Hypotheses
  BY <1>1
<1>3. Belongs(stacks[k][n], k)
  BY DEF StacksAreLinked
<1>4. CASE k = 0
  BY <1>2, <1>3, <1>4 DEF Belongs
<1>5. CASE k # 0
  <2>1. PICK s \in 0 .. (k - 1) : Extends(stacks[k][n], stacks[s], s)
    BY <1>3, <1>5 DEF Belongs
  <2>2. s \in DOMAIN stacks /\ stacks[s] \in Seq(Hypotheses)
    BY <1>1, <1>2
  <2>3. PICK p \in DOMAIN stacks[s] :
          /\ stacks[k][n].prev = <<s, p>>
          /\ WordsOf(stacks[k][n].range) # {}
          /\ WordsOf(stacks[k][n].range) \subseteq stacks[k][n].bitmap
          /\ stacks[k][n].covered = s + Cardinality(WordsOf(stacks[k][n].range))
          /\ s # 0 => /\ stacks[s][p].bitmap \subseteq stacks[k][n].bitmap
                      /\ stacks[s][p].bitmap \intersect WordsOf(stacks[k][n].range) = {}
    BY <2>1 DEF Extends
  <2>4. p # 0
    BY <2>2
  <2>5. <<s, p>> # NoPrev /\ <<s, p>>[1] = s /\ <<s, p>>[2] = p
    BY <2>4 DEF NoPrev
  <2>6. stacks[k][n].covered = k
    BY <1>3 DEF Belongs
  <2>7. Follows(k, n, s, p)
    BY <2>1, <2>2, <2>3, <2>5, <2>6 DEF Follows
  <2> QED  BY <1>2, <2>3, <2>5, <2>7
<1> QED  BY <1>4, <1>5

\* Going back: where the walk is, and the ranges on its way.
AreApart(ranges) ==
  \A i, j \in DOMAIN ranges : i # j => WordsOf(ranges[i]) \intersect WordsOf(ranges[j]) = {}

Back(acc) ==
  IF acc.at.prev = NoPrev THEN acc
  ELSE [at |-> stacks[acc.at.prev[1]][acc.at.prev[2]],
        ranges |-> Append(acc.ranges, acc.at.range)]

\* After n steps from stack k.
IsOnTheWay(acc, k, n) ==
  /\ acc.ranges \in Seq(Ranges) /\ AreApart(acc.ranges)
  /\ \E j \in DOMAIN stacks : \E p \in DOMAIN stacks[j] :
       /\ acc.at = stacks[j][p]
       /\ WordsIn(acc.ranges) + j = k
       /\ j = 0 \/ j + n <= k
       /\ j # 0 => \A i \in DOMAIN acc.ranges :
                     WordsOf(acc.ranges[i]) \intersect stacks[j][p].bitmap = {}

LEMMA BackIsOnTheWay ==
  ASSUME StacksAreLinked, Len(Sentence) \in Nat, NEW k \in Nat, NEW n \in Nat,
         NEW acc, IsOnTheWay(acc, k, n)
  PROVE  IsOnTheWay(Back(acc), k, n + 1)
<1>1. PICK j \in DOMAIN stacks : \E p \in DOMAIN stacks[j] :
        /\ acc.at = stacks[j][p]
        /\ WordsIn(acc.ranges) + j = k
        /\ j = 0 \/ j + n <= k
        /\ j # 0 => \A i \in DOMAIN acc.ranges :
                      WordsOf(acc.ranges[i]) \intersect stacks[j][p].bitmap = {}
  BY DEF IsOnTheWay
<1>2. PICK p \in DOMAIN stacks[j] :
        /\ acc.at = stacks[j][p]
        /\ WordsIn(acc.ranges) + j = k
        /\ j = 0 \/ j + n <= k
        /\ j # 0 => \A i \in DOMAIN acc.ranges :
                      WordsOf(acc.ranges[i]) \intersect stacks[j][p].bitmap = {}
  BY <1>1
<1>3. acc.ranges \in Seq(Ranges) /\ AreApart(acc.ranges)
  BY DEF IsOnTheWay
<1>4. j \in 0 .. InputSize /\ stacks[j][p] \in Hypotheses /\ j \in Nat
  BY HypothesisExtends DEF InputSize
<1>5. CASE stacks[j][p].prev = NoPrev
  <2>1. j = 0
    BY <1>5, HypothesisExtends
  <2>2. Back(acc) = acc
    BY <1>2, <1>5 DEF Back
  <2> QED  BY <1>2, <1>3, <2>1, <2>2 DEF IsOnTheWay
<1>6. CASE stacks[j][p].prev # NoPrev
  <2> DEFINE h == stacks[j][p]
             r == h.range
  <2>1. PICK s, q : Follows(j, p, s, q)
    BY <1>6, HypothesisExtends
  <2>2. /\ s \in 0 .. (j - 1) /\ s \in DOMAIN stacks /\ q \in DOMAIN stacks[s]
        /\ h.prev[1] = s /\ h.prev[2] = q
        /\ WordsOf(r) # {} /\ WordsOf(r) \subseteq h.bitmap
        /\ j = s + Cardinality(WordsOf(r))
        /\ s # 0 => /\ stacks[s][q].bitmap \subseteq h.bitmap
                    /\ stacks[s][q].bitmap \intersect WordsOf(r) = {}
    BY <2>1 DEF Follows
  <2>r. r \in Ranges
    BY <1>4 DEF Hypotheses
  <2> DEFINE ranges == Append(acc.ranges, r)
             L      == Len(acc.ranges)
  <2>3. Back(acc) = [at |-> stacks[s][q], ranges |-> ranges]
    BY <1>2, <1>6, <2>2 DEF Back
  <2>4. /\ ranges \in Seq(Ranges) /\ L \in Nat /\ DOMAIN ranges = 1 .. (L + 1)
        /\ DOMAIN acc.ranges = 1 .. L
        /\ ranges[L + 1] = r /\ \A i \in 1 .. L : ranges[i] = acc.ranges[i]
    BY <1>3, <2>r
  <2>5. WordsIn(ranges) = WordsIn(acc.ranges) + Cardinality(WordsOf(r)) /\ WordsIn(acc.ranges) \in Nat
    BY <1>3, <2>r, WordsOfLonger
  <2> HIDE DEF h, r, ranges, L
  <2>6. j # 0 /\ \A i \in 1 .. L : WordsOf(acc.ranges[i]) \intersect h.bitmap = {}
    <3>1. j # 0
      BY <1>4, <2>1
    <3> QED  BY <1>2, <2>4, <3>1 DEF h
  <2>7. AreApart(ranges)
    <3> SUFFICES ASSUME NEW a \in 1 .. (L + 1), NEW b \in 1 .. (L + 1), a # b
                 PROVE  WordsOf(ranges[a]) \intersect WordsOf(ranges[b]) = {}
      BY <2>4 DEF AreApart
    <3>1. CASE a = L + 1
      <4>1. b \in 1 .. L
        BY <2>4, <3>1
      <4> QED  BY <2>2, <2>4, <2>6, <3>1, <4>1
    <3>2. CASE b = L + 1
      <4>1. a \in 1 .. L
        BY <2>4, <3>2
      <4> QED  BY <2>2, <2>4, <2>6, <3>2, <4>1
    <3>3. CASE a # L + 1 /\ b # L + 1
      <4>1. a \in 1 .. L /\ b \in 1 .. L
        BY <2>4, <3>3
      <4> QED  BY <1>3, <2>4, <4>1 DEF AreApart
    <3> QED  BY <3>1, <3>2, <3>3
  <2>8. WordsIn(ranges) + s = k /\ (s = 0 \/ s + (n + 1) <= k)
    <3>1. Cardinality(WordsOf(r)) \in Nat /\ s \in Nat
      BY <1>4, <2>2, <2>r, WordsAreCounted
    <3>2. WordsIn(ranges) + s = k
      BY <1>2, <1>4, <2>2, <2>5, <3>1
    <3>3. s < j /\ j + n <= k
      BY <1>2, <1>4, <2>2, <2>6
    <3>4. s + (n + 1) <= k
      BY <1>4, <3>1, <3>3
    <3> QED  BY <3>2, <3>4
  <2>9. s # 0 => \A i \in DOMAIN ranges : WordsOf(ranges[i]) \intersect stacks[s][q].bitmap = {}
    <3> SUFFICES ASSUME s # 0, NEW i \in 1 .. (L + 1)
                 PROVE  WordsOf(ranges[i]) \intersect stacks[s][q].bitmap = {}
      BY <2>4
    <3>1. CASE i = L + 1
      BY <2>2, <2>4, <3>1
    <3>2. CASE i # L + 1
      <4>1. i \in 1 .. L
        BY <2>4, <3>2
      <4> QED  BY <2>2, <2>4, <2>6, <4>1
    <3> QED  BY <3>1, <3>2
  <2>10. Back(acc).at = stacks[s][q] /\ Back(acc).ranges = ranges
    BY <2>3
  <2> QED  BY <2>2, <2>4, <2>7, <2>8, <2>9, <2>10 DEF IsOnTheWay
<1> QED  BY <1>5, <1>6

LEMMA ChainIsRight ==
  ASSUME StacksAreLinked, Len(Sentence) \in Nat,
         NEW k \in DOMAIN stacks, NEW m \in DOMAIN stacks[k]
  PROVE  /\ AreApart(Chain(stacks[k][m]))
         /\ WordsIn(Chain(stacks[k][m])) = k
<1> DEFINE N == Len(Sentence)
           h == stacks[k][m]
           start == [at |-> h, ranges |-> <<>>]
           IsWayBack(f) == f = [n \in 0 .. N |-> IF n = 0 THEN start ELSE Back(f[n - 1])]
           walk == CHOOSE f : IsWayBack(f)
           X(n) == {acc \in [at : Hypotheses, ranges : Seq(Ranges)] : IsOnTheWay(acc, k, n)}
<1>1. N \in Nat /\ k \in 0 .. N /\ h \in Hypotheses
  BY HypothesisExtends DEF InputSize
<1>2. Chain(h) = walk[N].ranges
  BY DEF Chain, Back
<1>3. start \in [at : Hypotheses, ranges : Seq(Ranges)] /\ IsOnTheWay(start, k, 0)
  <2>1. start.at = h /\ start.ranges = <<>>
    OBVIOUS
  <2>2. AreApart(<<>>) /\ <<>> \in Seq(Ranges)
    BY DEF AreApart
  <2>3. WordsIn(<<>>) + k = k /\ k + 0 <= k
    BY <1>1, NoWords
  <2>4. start \in [at : Hypotheses, ranges : Seq(Ranges)]
    BY <1>1, <2>2
  <2> HIDE DEF start
  <2> QED  BY <2>1, <2>2, <2>3, <2>4 DEF IsOnTheWay
<1> HIDE DEF start, N, h
<1>4. ASSUME NEW n \in Nat, NEW acc \in X(n)
      PROVE  Back(acc) \in X(n + 1)
  <2>1. k \in Nat /\ IsOnTheWay(acc, k, n) /\ acc \in [at : Hypotheses, ranges : Seq(Ranges)]
    BY <1>1
  <2>2. IsOnTheWay(Back(acc), k, n + 1)
    BY <1>1, <2>1, BackIsOnTheWay DEF N
  <2>3. Back(acc) \in [at : Hypotheses, ranges : Seq(Ranges)]
    <3>1. PICK j \in DOMAIN stacks : \E p \in DOMAIN stacks[j] : Back(acc).at = stacks[j][p]
      BY <2>2 DEF IsOnTheWay
    <3>2. Back(acc).at \in Hypotheses
      BY <1>1, <3>1, HypothesisExtends DEF N
    <3>3. Back(acc).ranges \in Seq(Ranges)
      BY <2>2 DEF IsOnTheWay
    <3>4. CASE acc.at.prev = NoPrev
      BY <2>1, <3>4 DEF Back
    <3>5. CASE acc.at.prev # NoPrev
      <4>1. Back(acc) = [at |-> Back(acc).at, ranges |-> Back(acc).ranges]
        BY <3>5 DEF Back
      <4> QED  BY <3>2, <3>3, <4>1
    <3> QED  BY <3>4, <3>5
  <2> QED  BY <2>2, <2>3
\* The function that the recursion defines exists.
<1>5. IsWayBack(walk)
  <2> DEFINE good == {n \in 0 .. N : \E f : /\ \A i \in 0 .. n : f[i] \in X(i)
                                            /\ f = [i \in 0 .. n |->
                                                      IF i = 0 THEN start ELSE Back(f[i - 1])]}
  <2>1. 0 \in good
    <3> DEFINE f == [i \in 0 .. 0 |-> start]
    <3>1. f[0] = start /\ f[0] \in X(0) /\ \A i \in 0 .. 0 : i = 0
      BY <1>3
    <3>2. f = [i \in 0 .. 0 |-> IF i = 0 THEN start ELSE Back(f[i - 1])]
      BY <3>1
    <3> HIDE DEF f, X
    <3>3. \A i \in 0 .. 0 : f[i] \in X(i)
      BY <3>1
    <3> QED  BY <1>1, <3>2, <3>3
  <2>2. ASSUME NEW n \in 1 .. N, n - 1 \in good
        PROVE  n \in good
    <3>1. PICK g : /\ \A i \in 0 .. (n - 1) : g[i] \in X(i)
                   /\ g = [i \in 0 .. (n - 1) |-> IF i = 0 THEN start ELSE Back(g[i - 1])]
      BY <2>2
    <3> DEFINE f == [i \in 0 .. n |-> IF i = n THEN Back(g[n - 1]) ELSE g[i]]
    <3>2. n \in Nat /\ n # 0 /\ n - 1 \in 0 .. (n - 1) /\ (n - 1) + 1 = n /\ n - 1 \in Nat
      OBVIOUS
    <3>3. f[n] = Back(g[n - 1]) /\ \A i \in 0 .. (n - 1) : f[i] = g[i]
      BY <3>2
    <3>4. f[n] \in X(n)
      <4> HIDE DEF X, f
      <4>1. g[n - 1] \in X(n - 1)
        BY <3>1, <3>2
      <4>2. Back(g[n - 1]) \in X((n - 1) + 1)
        BY <1>4, <3>2, <4>1
      <4> QED  BY <3>2, <3>3, <4>2
    <3>5. ASSUME NEW i \in 0 .. n
          PROVE  f[i] \in X(i) /\ f[i] = IF i = 0 THEN start ELSE Back(f[i - 1])
      <4> HIDE DEF X, f
      <4>1. CASE i = n
        BY <3>2, <3>3, <3>4, <4>1
      <4>2. CASE i # n
        <5>1. i \in 0 .. (n - 1) /\ (i # 0 => i - 1 \in 0 .. (n - 1))
          BY <3>2, <4>2
        <5>2. g[i] = IF i = 0 THEN start ELSE Back(g[i - 1])
          BY <3>1, <5>1
        <5> QED  BY <3>1, <3>3, <5>1, <5>2
      <4> QED  BY <4>1, <4>2
    <3>6. f = [i \in 0 .. n |-> f[i]]
      OBVIOUS
    <3> HIDE DEF X, f
    <3>7. f = [i \in 0 .. n |-> IF i = 0 THEN start ELSE Back(f[i - 1])]
      BY <3>5, <3>6
    <3>8. n \in 0 .. N
      BY <1>1
    <3> QED  BY <3>5, <3>7, <3>8
  <2>3. N \in good
    <3>1. N \in 0 .. N
      BY <1>1
    <3> HIDE DEF good
    <3> QED  BY <1>1, <2>1, <2>2, <3>1, UpTo
  <2>4. \E f : IsWayBack(f)
    BY <2>3
  <2> HIDE DEF IsWayBack
  <2> QED  BY <2>4
<1>6. walk[0] = start /\ \A n \in 1 .. N : walk[n] = Back(walk[n - 1])
  <2> HIDE DEF walk
  <2>1. 0 \in 0 .. N /\ \A n \in 1 .. N : n \in 0 .. N /\ n # 0
    BY <1>1
  <2> QED  BY <1>5, <2>1
<1> HIDE DEF walk, X
<1> DEFINE good == {n \in 0 .. N : walk[n] \in X(n)}
<1>7. 0 \in good
  BY <1>1, <1>3, <1>6 DEF X
<1>8. ASSUME NEW n \in 1 .. N, n - 1 \in good
      PROVE  n \in good
  <2>1. n - 1 \in Nat /\ (n - 1) + 1 = n /\ n \in 0 .. N
    BY <1>1
  <2>2. Back(walk[n - 1]) \in X((n - 1) + 1)
    BY <1>4, <1>8, <2>1
  <2> QED  BY <1>6, <2>1, <2>2
<1>9. walk[N] \in X(N)
  <2>1. N \in 0 .. N
    BY <1>1
  <2> HIDE DEF good
  <2>2. N \in good
    BY <1>1, <1>7, <1>8, <2>1, UpTo
  <2> QED  BY <2>2 DEF good
<1>10. IsOnTheWay(walk[N], k, N)
  BY <1>9 DEF X
<1>11. PICK j \in DOMAIN stacks : WordsIn(walk[N].ranges) + j = k /\ (j = 0 \/ j + N <= k)
  BY <1>10 DEF IsOnTheWay
<1>12. j = 0
  <2>1. j \in Nat
    BY <1>1 DEF StacksAreLinked, InputSize, N
  <2> QED  BY <1>1, <1>11, <2>1
<1>13. WordsIn(walk[N].ranges) \in Nat /\ AreApart(walk[N].ranges)
  <2>1. walk[N].ranges \in Seq(Ranges) /\ AreApart(walk[N].ranges)
    BY <1>10 DEF IsOnTheWay
  <2>2. PICK total : /\ AreWordsUpTo(total, walk[N].ranges)
                     /\ WordsIn(walk[N].ranges) = total[Len(walk[N].ranges)]
    BY <2>1, WordsAddUp
  <2>3. Len(walk[N].ranges) \in 0 .. Len(walk[N].ranges)
    BY <2>1
  <2> QED  BY <2>1, <2>2, <2>3 DEF AreWordsUpTo
<1>14. WordsIn(walk[N].ranges) = k
  BY <1>11, <1>12, <1>13
<1> QED  BY <1>2, <1>13, <1>14 DEF h

-----------------------------------------------------------------------------
(* The links are kept *)

LEMMA FlagDoesNotMatter ==
  ASSUME NEW h \in Hypotheses, NEW valid \in BOOLEAN, NEW stack, NEW s, Extends(h, stack, s)
  PROVE  /\ [h EXCEPT !.isValid = valid] \in Hypotheses
         /\ Extends([h EXCEPT !.isValid = valid], stack, s)
<1> DEFINE new == [h EXCEPT !.isValid = valid]
<1>1. new \in Hypotheses
  BY DEF Hypotheses
<1>2. new.prev = h.prev /\ new.range = h.range /\ new.bitmap = h.bitmap /\ new.covered = h.covered
  BY DEF Hypotheses
<1> HIDE DEF new
<1>3. Extends(new, stack, s)
  BY <1>2 DEF Extends
<1> QED  BY <1>1, <1>3 DEF new

LEMMA LongerStackIsExtended ==
  ASSUME NEW h, NEW stack \in Seq(Hypotheses), NEW s, NEW last \in Hypotheses,
         Extends(h, stack, s)
  PROVE  Extends(h, Append(stack, last), s)
<1> DEFINE longer == Append(stack, last)
<1>1. \A p \in DOMAIN stack : p \in DOMAIN longer /\ longer[p] = stack[p]
  OBVIOUS
<1> HIDE DEF longer
<1>2. Extends(h, longer, s)
  BY <1>1 DEF Extends
<1> QED  BY <1>2 DEF longer

LEMMA SetHypoExtends ==
  ASSUME NEW slot \in Hypotheses, NEW stack \in Seq(Hypotheses), NEW s \in Nat,
         NEW p \in DOMAIN stack, stack[p].covered = s,
         NEW range \in Ranges, range.startPos <= range.endPos,
         NEW bitmap \in SUBSET Nat, s # 0 => bitmap = stack[p].bitmap
  PROVE  /\ SetHypo(slot, <<s, p>>, stack[p], bitmap, range) \in Hypotheses
         /\ SetHypo(slot, <<s, p>>, stack[p], bitmap, range).isValid =>
              Extends(SetHypo(slot, <<s, p>>, stack[p], bitmap, range), stack, s)
<1> DEFINE new == SetHypo(slot, <<s, p>>, stack[p], bitmap, range)
           words == WordsOf(range)
           covered == stack[p].covered + Cardinality(words)
<1>1. words \in SUBSET Nat /\ Cardinality(words) \in Nat /\ words # {}
  <2>1. range.startPos \in words
    BY DEF WordsOf, Ranges
  <2> QED  BY <2>1, WordsAreCounted
<1>2. p \in Nat /\ covered \in Nat /\ covered = s + Cardinality(words)
  BY <1>1
<1>3. CASE ~IsFree(bitmap, range)
  <2>1. new = [slot EXCEPT !.isValid = FALSE]
    BY <1>3 DEF SetHypo
  <2>2. new \in Hypotheses /\ new.isValid = FALSE
    BY <2>1 DEF Hypotheses
  <2> QED  BY <2>2
<1>4. CASE IsFree(bitmap, range)
  <2>1. new = [slot EXCEPT !.prev = <<s, p>>, !.range = range, !.isValid = TRUE,
                           !.bitmap = bitmap \union words, !.covered = covered]
    BY <1>4 DEF SetHypo
  <2>2. bitmap \intersect words = {}
    BY <1>4 DEF IsFree
  <2> HIDE DEF new, words, covered
  <2>3. /\ new.prev = <<s, p>> /\ new.range = range /\ new.bitmap = bitmap \union words
        /\ new.covered = covered /\ new.isValid = TRUE
    BY <2>1 DEF Hypotheses
  <2>4. <<s, p>> \in Nat \X Nat /\ bitmap \union words \in SUBSET Nat
    BY <1>1, <1>2
  <2>5. new \in Hypotheses
    BY <1>2, <2>1, <2>4 DEF Hypotheses
  <2>6. Extends(new, stack, s)
    <3>1. WordsOf(new.range) = words
      BY <2>3 DEF words
    <3> QED  BY <1>1, <1>2, <2>2, <2>3, <3>1 DEF Extends
  <2> QED  BY <2>5, <2>6 DEF new
<1> QED  BY <1>3, <1>4

LEMMA ExpansionsAre ==
  ASSUME PathsAreReady, NEW stack \in Seq(Hypotheses), stack = stacks[stackInd]
  PROVE  /\ Len(Expansions) \in Nat
         /\ \A i \in 1 .. Len(Expansions) :
              /\ Expansions[i].prev \in DOMAIN stack
              /\ \E n \in DOMAIN pathInfo : Expansions[i].range = pathInfo[n].range
<1> DEFINE X == [prev : DOMAIN stack, range : {pathInfo[n].range : n \in DOMAIN pathInfo}]
           of(p, n) == [k \in DOMAIN pathInfo[n].tps |-> [prev |-> p, range |-> pathInfo[n].range]]
           from(p) == [n \in DOMAIN pathInfo |-> of(p, n)]
           all == [p \in DOMAIN stack |-> FlattenSeq(from(p))]
<1>1. \A q : IsSequence(q) => Len(q) \in Nat /\ DOMAIN q = 1 .. Len(q)
  BY SequenceGrows
<1>2. Expansions = FlattenSeq(all)
  BY DEF Expansions
<1>3. ASSUME NEW p \in DOMAIN stack, NEW n \in DOMAIN pathInfo
      PROVE  of(p, n) \in Seq(X)
  <2>1. [prev |-> p, range |-> pathInfo[n].range] \in X
    OBVIOUS
  <2>2. Len(pathInfo[n].tps) \in Nat /\ DOMAIN pathInfo[n].tps = 1 .. Len(pathInfo[n].tps)
    BY <1>1 DEF PathsAreReady
  <2> HIDE DEF X
  <2> QED  BY <2>1, <2>2
<1> HIDE DEF X, of
<1> DEFINE Y == Seq(X)
<1>4. ASSUME NEW p \in DOMAIN stack
      PROVE  FlattenSeq(from(p)) \in Seq(X)
  <2>1. Len(pathInfo) \in Nat /\ DOMAIN pathInfo = 1 .. Len(pathInfo)
    BY <1>1 DEF PathsAreReady
  <2>2. from(p) \in Seq(Y)
    <3> HIDE DEF Y
    <3>1. \A n \in DOMAIN pathInfo : of(p, n) \in Y
      BY <1>3 DEF Y
    <3> QED  BY <2>1, <3>1
  <2> HIDE DEF from
  <2> QED  BY <2>2, FlattenedAt
<1> HIDE DEF from
<1>5. all \in Seq(Y)
  <2> HIDE DEF Y
  <2>1. \A p \in DOMAIN stack : FlattenSeq(from(p)) \in Y
    BY <1>4 DEF Y
  <2>2. Len(stack) \in Nat /\ DOMAIN stack = 1 .. Len(stack)
    OBVIOUS
  <2> QED  BY <2>1, <2>2
<1> HIDE DEF all
<1>6. FlattenSeq(all) \in Seq(X)
  BY <1>5, FlattenedAt
<1>7. Expansions \in Seq(X)
  BY <1>2, <1>6
<1>8. Len(Expansions) \in Nat /\ \A i \in 1 .. Len(Expansions) : Expansions[i] \in X
  BY <1>7
<1> QED  BY <1>8 DEF X

LEMMA LinksStart == Init => LinksInv
BY DEF Init, SystemInit, LinksInv, Searching

\* Steps before the search: the memory for the device is what starts it.
LEMMA WriteMemoryLinks ==
  ASSUME LegacyInv, LegacyInv', WeightsInv, WriteMemory
  PROVE  LinksInv'
<1>1. /\ pc = "lookup" /\ pc' \in {"initStacks", "adrift", "exit 1"} /\ said' = said
      /\ ffs' = ffs /\ tables' = tables
      /\ pc' = "adrift" => overrun'
  <2>1. pc' = "adrift" => overrun'
    BY Zenon DEF WriteMemory, Checked
  <2> QED  BY <2>1 DEF WriteMemory, Checked, config, systemVars
<1>2. ASSUME pc' = "initStacks"
      PROVE  PathsAreReady'
  <2> DEFINE paths == InputPaths(Sentence)
  <2>1. said # <<>>
    BY <1>1 DEF LegacyInv, Spoken, Decoding
  <2>2. /\ Sentence \in Seq(Nat) /\ Len(Sentence) \in Nat /\ Sentence = said[Len(said)]
        /\ Len(said) \in DOMAIN said
        /\ Len(paths) \in Nat /\ DOMAIN paths = 1 .. Len(paths)
    BY <2>1, SentenceIs
  <2>3. \A n \in DOMAIN paths : /\ paths[n] \in Ranges /\ paths[n].startPos <= paths[n].endPos
                                /\ paths[n].endPos < Len(Sentence)
    <3> DEFINE sentence == Sentence
    <3>1. Len(sentence) \in Nat
      BY <2>2
    <3> HIDE DEF sentence
    <3>2. \A n \in DOMAIN InputPaths(sentence) :
            LET path == InputPaths(sentence)[n]
            IN  path \in Ranges /\ path.startPos <= path.endPos /\ path.endPos < Len(sentence)
      BY <3>1, PathsAre
    <3> QED  BY <3>2 DEF sentence
  <2>4. /\ DOMAIN pathInfo' = DOMAIN paths
        /\ \A n \in DOMAIN paths : pathInfo'[n] = Entry(n, PhrasesOf(Entry(n, <<>>).node))
    <3>1. OnTheDevice'
      BY DEF LegacyInv
    <3> QED  BY <1>1, <1>2, <3>1 DEF OnTheDevice, Entry, PhrasesOf, Sentence
  <2>5. ASSUME NEW n \in DOMAIN paths
        PROVE  IsSequence(PhrasesOf(Entry(n, <<>>).node))
    <3> DEFINE words == WordsOfSpan(Sentence, paths[n])
               node == NodeFor(tables[1], words)
               num == ffs[1].numScores
               lines == FirstTable
    <3>1. Entry(n, <<>>).node = node
      BY DEF Entry
    <3>2. CASE node = NoNode
      BY <3>1, <3>2, EmptyIsSequence DEF PhrasesOf
    <3>3. CASE node # NoNode
      <4>1. node \in DOMAIN tables[1]
        BY <3>3 DEF NodeFor
      <4>2. ffs # <<>>
        <5>1. Sentence # <<>>
          BY <2>3, EmptySeq DEF Ranges
        <5> QED  BY <1>1, <2>2, <5>1 DEF LegacyInv, Spoken, Decoding
      <4>3. lines \in Seq(TableLines) /\ tables[1] = Load(lines, num)
        BY <1>1, <4>2, FirstTableIs DEF Decoding
      <4>4. num \in Nat
        <5>1. Slots
          BY DEF WeightsInv
        <5>2. 1 \in DOMAIN ffs
          <6>1. IsSequence(ffs) /\ DOMAIN ffs = 1 .. Len(ffs) /\ Len(ffs) \in Nat
            BY <5>1, SlotsAre DEF Slots
          <6>2. Len(ffs) # 0
            <7>1. PICK S : ffs \in Seq(S)
              BY <6>1 DEF IsSequence
            <7> QED  BY <4>2, <7>1, EmptySeq
          <6> QED  BY <6>1, <6>2
        <5> QED  BY <5>1, <5>2 DEF Slots
      <4> HIDE DEF node, num, lines
      <4>5. tables[1] \in Tables(num)
        <5>1. Load(lines, num) \in Tables(num)
          BY <4>3, LoadIs, Zenon
        <5> QED  BY <4>3, <5>1
      <4>6. tables[1][node] \in Seq(TablePhrases(num))
        BY <4>1, <4>5 DEF Tables
      <4>7. IsSequence(ReadMemory(NodeMemory(tables[1][node])))
        BY <4>4, <4>6, ReadIsSequence
      <4> QED  BY <3>1, <3>3, <4>7 DEF PhrasesOf
    <3> QED  BY <3>2, <3>3
  <2>6. \A n \in DOMAIN paths : /\ pathInfo'[n].range = paths[n]
                                /\ IsSequence(pathInfo'[n].tps)
    <3>1. \A n, tps : Entry(n, tps).range = paths[n] /\ Entry(n, tps).tps = tps
      BY DEF Entry
    <3> HIDE DEF paths
    <3> QED  BY <2>4, <2>5, <3>1
  <2> HIDE DEF paths
  <2>7. IsSequence(pathInfo')
    <3>1. pathInfo' = [n \in DOMAIN pathInfo' |-> pathInfo'[n]]
      BY DEF WriteMemory
    <3>2. PICK q : q = pathInfo'
      OBVIOUS
    <3>3. q \in Seq({q[n] : n \in 1 .. Len(paths)})
      BY <2>2, <2>4, <3>1, <3>2
    <3> QED  BY <3>2, <3>3, SeqOfRange DEF IsSequence
  <2> QED  BY <2>3, <2>4, <2>6, <2>7 DEF PathsAreReady
<1> QED  BY <1>1, <1>2 DEF LinksInv, Preparing, Searching

LEMMA EarlierStepLinks ==
  ASSUME LinksInv, LegacyInv,
         \/ SystemNext /\ UNCHANGED <<said, fault, searchVars>>
         \/ LookupPath
         \/ \E line \in Sentences : ReadSentence(line)
         \/ Finish
  PROVE  LinksInv'
<1>1. CASE SystemNext /\ UNCHANGED <<said, fault, searchVars>>
  <2>1. /\ pc \in Preparing \union {"load"} /\ stacks' = stacks
        /\ pc' \in Preparing \union {"load", "input", "crash", "exit 1"}
    BY <1>1 DEF SystemNext, InitFeature, FeaturesDone, InitWeight, WeightsDone, LoadTable, LoadDone,
         ReadIni, Preparing, searchVars
  <2>2. stacks' = <<>>
    BY <2>1 DEF LinksInv
  <2> QED  BY <2>1, <2>2 DEF LinksInv, Preparing, Searching
<1>2. CASE LookupPath \/ (\E line \in Sentences : ReadSentence(line)) \/ Finish
  <2>1. pc' \in {"lookup", "crash", "exit 0", "exit 1"}
    BY <1>2 DEF LookupPath, ReadSentence, Finish, ExitCode, Checked
  <2> QED  BY <2>1 DEF LinksInv, Preparing, Searching
<1> QED  BY <1>1, <1>2

LEMMA FirstHypothesisIs ==
  /\ EmptyHypothesis \in Hypotheses
  /\ EmptyHypothesis.prev = NoPrev /\ EmptyHypothesis.covered = 0
<1>1. Path(0, 0) \in Ranges /\ <<0, 0>> \in Nat \X Nat
  BY DEF Path, Ranges
<1> QED  BY <1>1 DEF EmptyHypothesis, Hypotheses, NoPrev

LEMMA InitStacksLinks ==
  ASSUME LinksInv, LegacyInv, InitStacks
  PROVE  LinksInv'
<1> DEFINE N == InputSize
<1>1. /\ pc = "initStacks" /\ pc' \in {"input", "initStack"} /\ said' = said
      /\ pathInfo' = pathInfo /\ stackInd' = 0 /\ numHypos' = 0
      /\ freed' = [reused |-> FALSE, bitmap |-> {}]
      /\ hypos' = [n \in 1 .. NumNewHypos |-> EmptyHypothesis]
      /\ \/ stacks' = [k \in 0 .. N |-> IF k = 0 THEN <<EmptyHypothesis>> ELSE <<>>]
         \/ stacks' = [k \in 0 .. N |-> <<>>]
  BY DEF InitStacks, systemVars
<1>2. said # <<>>
  BY <1>1 DEF LegacyInv, Spoken, Decoding
<1>3. N \in Nat /\ InputSize' = N
  BY <1>1, <1>2, SentenceIs DEF InputSize, Sentence
<1> HIDE DEF N
<1>4. StacksAreLinked'
  <2>1. stacks' \in [0 .. N -> Seq(Hypotheses)]
    <3>1. <<EmptyHypothesis>> \in Seq(Hypotheses) /\ <<>> \in Seq(Hypotheses)
      BY FirstHypothesisIs
    <3> DEFINE X == Seq(Hypotheses)
    <3> HIDE DEF X
    <3>2. <<EmptyHypothesis>> \in X /\ <<>> \in X
      BY <3>1 DEF X
    <3>3. stacks' \in [0 .. N -> X]
      BY <1>1, <3>2
    <3> QED  BY <3>3 DEF X
  <2>2. \A k \in 0 .. N : \A n \in DOMAIN stacks'[k] : k = 0 /\ stacks'[k][n] = EmptyHypothesis
    <3>1. \A k \in 0 .. N : stacks'[k] = <<>> \/ (k = 0 /\ stacks'[k] = <<EmptyHypothesis>>)
      BY <1>1
    <3> QED  BY <3>1
  <2>3. \A k \in 0 .. N : \A n \in DOMAIN stacks'[k] : Belongs(stacks[k][n], k)'
    BY <2>2, FirstHypothesisIs DEF Belongs
  <2> QED  BY <1>3, <2>1, <2>3 DEF StacksAreLinked
<1>5. SlotsAreSet' \/ pc' = "input"
  <2>1. hypos' \in [1 .. NumNewHypos -> Hypotheses]
    BY <1>1, FirstHypothesisIs
  <2>2. freed'.bitmap \in SUBSET Nat /\ numHypos' \in 0 .. NumNewHypos /\ stackInd' \in 0 .. N
    BY <1>1, <1>3, CapacityAssumption
  <2> QED  BY <1>1, <1>3, <2>1, <2>2 DEF SlotsAreSet
<1>6. PathsAreReady'
  BY <1>1 DEF LinksInv, PathsAreReady
<1> QED  BY <1>1, <1>2, <1>4, <1>5, <1>6 DEF LinksInv, Preparing, Searching

\* Steps that change neither the stacks nor the slots.
LEMMA MovingOnLinks ==
  ASSUME LinksInv, LegacyInv, InitStack \/ StackInitialised \/ StartFinalize \/ StackFinished
  PROVE  LinksInv'
<1>1. /\ pc \in Searching /\ UNCHANGED <<said, pathInfo, stacks, hypos, freed>>
      /\ pc' \in Searching \union {"input"}
  BY DEF InitStack, StackInitialised, StartFinalize, StackFinished, Searching, searchVars
<1>2. said # <<>>
  BY <1>1 DEF LegacyInv, Spoken, Decoding, Searching
<1>3. InputSize \in Nat /\ InputSize' = InputSize
  BY <1>1, <1>2, SentenceIs DEF InputSize, Sentence
<1>4. PathsAreReady /\ StacksAreLinked /\ SlotsAreSet
  BY <1>1 DEF LinksInv
<1>5. PathsAreReady' /\ StacksAreLinked'
  BY <1>1, <1>3, <1>4 DEF PathsAreReady, StacksAreLinked, Belongs
<1>6. CASE InitStack
  <2>1. pc' = "expand" /\ numHypos' = 0 /\ stackInd' = stackInd
    BY <1>6 DEF InitStack
  <2>2. SlotsAreSet'
    BY <1>1, <1>3, <1>4, <2>1, CapacityAssumption DEF SlotsAreSet
  <2> QED  BY <1>5, <2>1, <2>2 DEF LinksInv, Preparing, Searching
<1>7. CASE StackInitialised
  <2>1. /\ pc = "expand" /\ pc' = "processStack" /\ numHypos' = numHypos /\ stackInd' = stackInd
        /\ threads' = [t \in Threads |-> [i |-> 1, at |-> "test"]]
    BY <1>7 DEF StackInitialised
  <2>2. SlotsAreSet'
    BY <1>1, <1>3, <1>4, <2>1 DEF SlotsAreSet, Searching
  <2>3. ThreadsAreAtSlots'
    BY <2>1 DEF ThreadsAreAtSlots
  <2> QED  BY <1>5, <2>1, <2>2, <2>3 DEF LinksInv, Preparing, Searching
<1>8. CASE StartFinalize
  <2>1. /\ pc = "processStack" /\ pc' = "finalizeStack" /\ next' = 1
        /\ numHypos' = numHypos /\ stackInd' = stackInd
    BY <1>8 DEF StartFinalize, searchVars
  <2>2. SlotsAreSet'
    BY <1>1, <1>3, <1>4, <2>1 DEF SlotsAreSet, Searching
  <2> QED  BY <1>5, <2>1, <2>2 DEF LinksInv, Preparing, Searching
<1>9. CASE StackFinished
  <2>1. /\ pc = "finalizeStack" /\ numHypos' = numHypos /\ stackInd' = stackInd + 1
        /\ pc' = IF stackInd + 1 < InputSize THEN "initStack" ELSE "input"
    BY <1>9 DEF StackFinished
  <2>2. ASSUME pc' = "initStack"
        PROVE  SlotsAreSet'
    <3>1. stackInd + 1 \in 0 .. InputSize
      BY <1>3, <1>4, <2>1, <2>2 DEF SlotsAreSet
    <3> QED  BY <1>1, <1>3, <1>4, <2>1, <2>2, <3>1 DEF SlotsAreSet
  <2> QED  BY <1>1, <1>2, <1>5, <2>1, <2>2 DEF LinksInv, Preparing, Searching
<1> QED  BY <1>6, <1>7, <1>8, <1>9

LEMMA ExpandLinks ==
  ASSUME LinksInv, LegacyInv, Expand
  PROVE  LinksInv'
<1> DEFINE stack == stacks[stackInd]
           x == Expansions[numHypos + 1]
           bitmap == IF stackInd = 0 THEN freed.bitmap ELSE stack[x.prev].bitmap
           new == SetHypo(hypos[numHypos + 1], <<stackInd, x.prev>>, stack[x.prev], bitmap, x.range)
<1>1. /\ pc = "expand" /\ pc' = pc /\ UNCHANGED <<said, pathInfo, stacks, stackInd>>
      /\ numHypos < Len(Expansions)
      /\ \/ UNCHANGED <<hypos, numHypos, freed>>
         \/ /\ numHypos < NumNewHypos
            /\ hypos' = [hypos EXCEPT ![numHypos + 1] = new]
            /\ numHypos' = numHypos + 1
            /\ freed' = freed \/ (new.isValid /\ freed'.bitmap = new.bitmap)
  <2>1. pc = "expand" /\ pc' = pc /\ UNCHANGED <<said, pathInfo, stacks, stackInd>>
        /\ numHypos < Len(Expansions)
    BY DEF Expand
  <2>2. \/ UNCHANGED <<hypos, numHypos, freed>>
        \/ /\ numHypos < NumNewHypos
           /\ hypos' = [hypos EXCEPT ![numHypos + 1] = new]
           /\ numHypos' = numHypos + 1
           /\ freed' = freed \/ freed' = [reused |-> TRUE, bitmap |-> new.bitmap]
           /\ freed' = freed \/ new.isValid
    BY Zenon DEF Expand
  <2> HIDE DEF new
  <2> QED  BY <2>1, <2>2
<1> HIDE DEF new, x, bitmap
<1>2. said # <<>>
  BY <1>1 DEF LegacyInv, Spoken, Decoding
<1>3. InputSize \in Nat /\ InputSize' = InputSize
  BY <1>1, <1>2, SentenceIs DEF InputSize, Sentence
<1>4. PathsAreReady /\ StacksAreLinked /\ SlotsAreSet
  BY <1>1 DEF LinksInv, Searching
<1>5. PathsAreReady' /\ StacksAreLinked'
  BY <1>1, <1>3, <1>4 DEF PathsAreReady, StacksAreLinked, Belongs
<1>6. /\ stackInd \in 0 .. InputSize /\ stackInd \in Nat /\ stackInd \in DOMAIN stacks
      /\ stack \in Seq(Hypotheses) /\ numHypos \in Nat
      /\ hypos \in [1 .. NumNewHypos -> Hypotheses] /\ freed.bitmap \in SUBSET Nat
      /\ numHypos \in 0 .. NumNewHypos
  BY <1>3, <1>4, CapacityAssumption DEF StacksAreLinked, SlotsAreSet
<1>7. \A n \in 1 .. numHypos : hypos[n].isValid => Extends(hypos[n], stack, stackInd)
  BY <1>1, <1>4 DEF SlotsAreSet, Searching
<1>8. CASE UNCHANGED <<hypos, numHypos, freed>>
  <2>1. SlotsAreSet'
    BY <1>1, <1>3, <1>6, <1>7, <1>8 DEF SlotsAreSet
  <2> QED  BY <1>1, <1>5, <2>1 DEF LinksInv, Preparing, Searching
<1>9. CASE ~UNCHANGED <<hypos, numHypos, freed>>
  <2>1. x.prev \in DOMAIN stack /\ \E n \in DOMAIN pathInfo : x.range = pathInfo[n].range
    <3>1. /\ Len(Expansions) \in Nat
          /\ \A i \in 1 .. Len(Expansions) :
               /\ Expansions[i].prev \in DOMAIN stack
               /\ \E n \in DOMAIN pathInfo : Expansions[i].range = pathInfo[n].range
      BY <1>4, <1>6, ExpansionsAre
    <3>2. numHypos + 1 \in 1 .. Len(Expansions)
      BY <1>1, <1>6, <3>1
    <3> QED  BY <3>1, <3>2 DEF x
  <2>2. x.range \in Ranges /\ x.range.startPos <= x.range.endPos
    BY <1>4, <2>1 DEF PathsAreReady
  <2>3. stack[x.prev].covered = stackInd /\ stack[x.prev] \in Hypotheses
    <3>1. Belongs(stack[x.prev], stackInd)
      BY <1>4, <1>6, <2>1 DEF StacksAreLinked
    <3> QED  BY <1>6, <2>1, <3>1 DEF Belongs
  <2>4. bitmap \in SUBSET Nat /\ (stackInd # 0 => bitmap = stack[x.prev].bitmap)
    BY <1>6, <2>3 DEF Hypotheses, bitmap
  <2>5. /\ numHypos + 1 \in 1 .. NumNewHypos /\ numHypos' = numHypos + 1
        /\ hypos' = [hypos EXCEPT ![numHypos + 1] = new]
        /\ freed' = freed \/ freed'.bitmap = new.bitmap
    <3>1. numHypos < NumNewHypos
      BY <1>1, <1>9
    <3>2. numHypos + 1 \in 1 .. NumNewHypos
      BY <1>6, <3>1, CapacityAssumption
    <3> QED  BY <1>1, <1>9, <3>2
  <2>6. hypos[numHypos + 1] \in Hypotheses
    BY <1>6, <2>5
  <2> HIDE DEF stack
  <2>7. new \in Hypotheses /\ (new.isValid => Extends(new, stack, stackInd))
    BY <1>6, <2>1, <2>2, <2>3, <2>4, <2>6, SetHypoExtends DEF new
  <2>8. hypos' \in [1 .. NumNewHypos -> Hypotheses] /\ freed'.bitmap \in SUBSET Nat
    <3>1. new.bitmap \in SUBSET Nat
      BY <2>7 DEF Hypotheses
    <3> QED  BY <1>6, <2>5, <2>7, <3>1
  <2>9. ASSUME NEW n \in 1 .. numHypos', hypos'[n].isValid
        PROVE  Extends(hypos'[n], stack, stackInd)
    <3>1. CASE n = numHypos + 1
      BY <1>6, <2>5, <2>7, <2>9, <3>1
    <3>2. CASE n # numHypos + 1
      <4>1. n \in 1 .. numHypos
        BY <1>6, <2>5, <3>2
      <4>2. hypos'[n] = hypos[n]
        BY <1>6, <2>5, <3>2, <4>1
      <4> QED  BY <1>7, <2>9, <4>1, <4>2
    <3> QED  BY <3>1, <3>2
  <2>10. stacks'[stackInd'] = stack /\ stackInd' = stackInd
    BY <1>1 DEF stack
  <2>11. SlotsAreSet'
    BY <1>3, <1>6, <2>5, <2>8, <2>9, <2>10 DEF SlotsAreSet
  <2> QED  BY <1>1, <1>5, <2>11 DEF LinksInv, Preparing, Searching
<1> QED  BY <1>8, <1>9

LEMMA TestValidLinks ==
  ASSUME LinksInv, LegacyInv, NEW t \in Threads, TestValid(t)
  PROVE  LinksInv'
<1> DEFINE i == threads[t].i
<1>1. /\ pc = "processStack" /\ pc' = pc
      /\ UNCHANGED <<said, pathInfo, stacks, stackInd, hypos, numHypos, freed>>
      /\ i <= NumToProcess
      /\ threads' = IF hypos[i].isValid THEN [threads EXCEPT ![t].at = "judge"] ELSE NextHypo(t)
  BY DEF TestValid, Running, systemVars
<1>2. said # <<>>
  BY <1>1 DEF LegacyInv, Spoken, Decoding
<1>3. InputSize \in Nat /\ InputSize' = InputSize
  BY <1>1, <1>2, SentenceIs DEF InputSize, Sentence
<1>4. PathsAreReady /\ StacksAreLinked /\ SlotsAreSet /\ ThreadsAreAtSlots
  BY <1>1 DEF LinksInv, Searching
<1>5. PathsAreReady' /\ StacksAreLinked' /\ SlotsAreSet'
  BY <1>1, <1>3, <1>4 DEF PathsAreReady, StacksAreLinked, Belongs, SlotsAreSet
<1>6. threads \in [Threads -> [i : Nat \ {0}, at : {"test", "judge"}]]
  BY <1>4 DEF ThreadsAreAtSlots
<1>7. threads[t] \in [i : Nat \ {0}, at : {"test", "judge"}] /\ i \in Nat \ {0}
  BY <1>6
<1>8. \A u \in Threads \ {t} : threads'[u] = threads[u]
  BY <1>1, <1>6 DEF NextHypo
<1>9. CASE ~hypos[i].isValid
  <2>1. threads' = [threads EXCEPT ![t] = [i |-> i + 1, at |-> "test"]]
    BY <1>1, <1>9 DEF NextHypo
  <2>2. threads' \in [Threads -> [i : Nat \ {0}, at : {"test", "judge"}]]
    BY <1>6, <1>7, <2>1
  <2>3. threads'[t].at = "test"
    BY <1>6, <2>1
  <2>4. ThreadsAreAtSlots'
    BY <1>1, <1>4, <1>8, <2>2, <2>3 DEF ThreadsAreAtSlots
  <2> QED  BY <1>1, <1>5, <2>4 DEF LinksInv, Preparing, Searching
<1>10. CASE hypos[i].isValid
  <2>1. threads' = [threads EXCEPT ![t].at = "judge"]
    BY <1>1, <1>10
  <2>2. /\ threads' \in [Threads -> [i : Nat \ {0}, at : {"test", "judge"}]]
        /\ threads'[t].i = i
    BY <1>6, <1>7, <2>1
  <2>3. numHypos \in Nat
    BY <1>4, CapacityAssumption DEF SlotsAreSet
  <2>4. ASSUME i <= numHypos
        PROVE  Extends(hypos[i], stacks[stackInd], stackInd)
    <3>1. i \in 1 .. numHypos
      BY <1>7, <2>3, <2>4
    <3> QED  BY <1>1, <1>4, <1>10, <3>1 DEF SlotsAreSet, Searching
  <2>5. ThreadsAreAtSlots'
    <3> SUFFICES ASSUME NEW u \in Threads, threads'[u].at = "judge", threads'[u].i <= numHypos
                 PROVE  Extends(hypos[threads'[u].i], stacks[stackInd], stackInd)
      BY <1>1, <2>2 DEF ThreadsAreAtSlots
    <3>1. CASE u = t
      BY <2>2, <2>4, <3>1
    <3>2. CASE u # t
      <4>1. threads'[u] = threads[u]
        BY <1>8, <3>2
      <4> QED  BY <1>4, <4>1 DEF ThreadsAreAtSlots
    <3> QED  BY <3>1, <3>2
  <2> QED  BY <1>1, <1>5, <2>5 DEF LinksInv, Preparing, Searching
<1> QED  BY <1>9, <1>10

\* The thread may be at a slot that another one has made invalid by now.
LEMMA JudgeLinks ==
  ASSUME LinksInv, LegacyInv, NEW t \in Threads, Judge(t)
  PROVE  LinksInv'
<1> DEFINE i == threads[t].i
           stack == stacks[stackInd]
<1>1. PICK within \in BOOLEAN : hypos' = [hypos EXCEPT ![i].isValid = within]
  BY DEF Judge
<1>2. /\ pc = "processStack" /\ pc' = pc
      /\ UNCHANGED <<said, pathInfo, stacks, stackInd, numHypos, freed>>
      /\ i <= NumToProcess /\ threads[t].at = "judge"
      /\ threads' = [threads EXCEPT ![t] = [i |-> i + 1, at |-> "test"]]
  BY DEF Judge, Running, NextHypo, systemVars
<1>3. said # <<>>
  BY <1>2 DEF LegacyInv, Spoken, Decoding
<1>4. InputSize \in Nat /\ InputSize' = InputSize
  BY <1>2, <1>3, SentenceIs DEF InputSize, Sentence
<1>5. PathsAreReady /\ StacksAreLinked /\ SlotsAreSet /\ ThreadsAreAtSlots
  BY <1>2 DEF LinksInv, Searching
<1>6. PathsAreReady' /\ StacksAreLinked'
  BY <1>2, <1>4, <1>5 DEF PathsAreReady, StacksAreLinked, Belongs
<1>7. /\ threads \in [Threads -> [i : Nat \ {0}, at : {"test", "judge"}]]
      /\ hypos \in [1 .. NumNewHypos -> Hypotheses] /\ numHypos \in 0 .. NumNewHypos
  BY <1>5 DEF ThreadsAreAtSlots, SlotsAreSet
<1>8. threads[t] \in [i : Nat \ {0}, at : {"test", "judge"}] /\ i \in Nat \ {0}
  BY <1>7
<1>9. i <= numHypos /\ i \in 1 .. NumNewHypos
  <2>1. i <= numHypos
    BY <1>2, <1>7, <1>8 DEF NumToProcess
  <2> QED  BY <1>7, <1>8, <2>1, CapacityAssumption
<1>10. Extends(hypos[i], stack, stackInd)
  BY <1>2, <1>5, <1>9 DEF ThreadsAreAtSlots
<1> DEFINE new == [hypos[i] EXCEPT !.isValid = within]
<1> HIDE DEF stack, i
<1>11. new \in Hypotheses /\ Extends(new, stack, stackInd)
  BY <1>7, <1>9, <1>10, FlagDoesNotMatter
<1>12. hypos' = [hypos EXCEPT ![i] = new]
  BY <1>1
<1> HIDE DEF new
<1>13. hypos' \in [1 .. NumNewHypos -> Hypotheses]
  BY <1>7, <1>11, <1>12
<1>14. \A n \in 1 .. NumNewHypos : hypos'[n] = IF n = i THEN new ELSE hypos[n]
  BY <1>7, <1>12
<1>15. \A n \in 1 .. numHypos : n \in 1 .. NumNewHypos
  BY <1>7, CapacityAssumption
<1>16. stacks'[stackInd'] = stack /\ stackInd' = stackInd /\ numHypos' = numHypos
  BY <1>2 DEF stack
<1>17. SlotsAreSet'
  <2>1. ASSUME NEW n \in 1 .. numHypos, hypos'[n].isValid
        PROVE  Extends(hypos'[n], stack, stackInd)
    <3>1. CASE n = i
      BY <1>11, <1>14, <1>15, <3>1
    <3>2. CASE n # i
      <4>1. hypos'[n] = hypos[n]
        BY <1>14, <1>15, <3>2
      <4>2. hypos[n].isValid => Extends(hypos[n], stack, stackInd)
        BY <1>2, <1>5 DEF SlotsAreSet, Searching, stack
      <4> QED  BY <2>1, <4>1, <4>2
    <3> QED  BY <3>1, <3>2
  <2> QED  BY <1>2, <1>4, <1>5, <1>13, <1>16, <2>1 DEF SlotsAreSet
<1>18. ThreadsAreAtSlots'
  <2>1. threads' \in [Threads -> [i : Nat \ {0}, at : {"test", "judge"}]]
    BY <1>2, <1>7, <1>8 DEF i
  <2>2. \A u \in Threads : threads'[u].at = "judge" => u # t /\ threads'[u] = threads[u]
    BY <1>2, <1>7
  <2>3. ASSUME NEW u \in Threads, threads'[u].at = "judge", threads'[u].i <= numHypos
        PROVE  Extends(hypos'[threads'[u].i], stack, stackInd)
    <3> DEFINE n == threads[u].i
    <3>1. threads'[u].i = n /\ threads[u].at = "judge" /\ n <= numHypos
      BY <2>2, <2>3
    <3>2. n \in 1 .. numHypos
      <4>1. threads[u] \in [i : Nat \ {0}, at : {"test", "judge"}]
        BY <1>7
      <4> QED  BY <1>7, <3>1, <4>1, CapacityAssumption
    <3>3. Extends(hypos[n], stack, stackInd)
      BY <1>5, <3>1 DEF ThreadsAreAtSlots, stack
    <3> HIDE DEF n
    <3>4. Extends(hypos'[n], stack, stackInd)
      BY <1>11, <1>14, <1>15, <3>2, <3>3
    <3> QED  BY <3>1, <3>4
  <2> QED  BY <1>16, <2>1, <2>3 DEF ThreadsAreAtSlots
<1> QED  BY <1>2, <1>6, <1>17, <1>18 DEF LinksInv, Preparing, Searching

LEMMA FinalizeHypoLinks ==
  ASSUME LinksInv, LegacyInv, FinalizeHypo
  PROVE  LinksInv'
<1> DEFINE h == hypos[next]
           c == hypos[next].covered
<1>1. /\ pc = "finalizeStack" /\ pc' = pc /\ next' = next + 1 /\ next <= NumToProcess
      /\ UNCHANGED <<said, pathInfo, stackInd, hypos, numHypos, freed>>
      /\ stacks' = stacks \/ (h.isValid /\ stacks' = [stacks EXCEPT ![c] = Append(@, h)])
  BY DEF FinalizeHypo
<1>2. said # <<>>
  BY <1>1 DEF LegacyInv, Spoken, Decoding
<1>3. InputSize \in Nat /\ InputSize' = InputSize
  BY <1>1, <1>2, SentenceIs DEF InputSize, Sentence
<1>4. PathsAreReady /\ StacksAreLinked /\ SlotsAreSet /\ next \in Nat \ {0}
  BY <1>1 DEF LinksInv, Searching
<1>5. /\ stackInd \in 0 .. InputSize /\ numHypos \in 0 .. NumNewHypos
      /\ hypos \in [1 .. NumNewHypos -> Hypotheses]
      /\ stacks \in [0 .. InputSize -> Seq(Hypotheses)]
  BY <1>4 DEF SlotsAreSet, StacksAreLinked
<1>6. next \in 1 .. numHypos /\ h \in Hypotheses
  <2>1. next <= numHypos
    BY <1>1, <1>4, <1>5 DEF NumToProcess
  <2>2. next \in 1 .. numHypos /\ next \in 1 .. NumNewHypos
    BY <1>4, <1>5, <2>1, CapacityAssumption
  <2> QED  BY <1>5, <2>2
<1>7. h.isValid => Extends(h, stacks[stackInd], stackInd)
  BY <1>1, <1>4, <1>6 DEF SlotsAreSet, Searching
<1>8. PathsAreReady'
  BY <1>1, <1>4 DEF PathsAreReady
\* What is linked stays so, when stacks only become longer.
<1>9. ASSUME NEW s \in 0 .. InputSize
      PROVE  /\ stacks'[s] \in Seq(Hypotheses)
             /\ stacks'[s] = stacks[s] \/ (s = c /\ h.isValid /\ stacks'[s] = Append(stacks[s], h))
             /\ \A g : Extends(g, stacks[s], s) => Extends(g, stacks'[s], s)
  <2> DEFINE stack == stacks[s]
             longer == Append(stack, h)
  <2>1. stack \in Seq(Hypotheses)
    BY <1>5
  <2>2. stacks'[s] = stack \/ (s = c /\ h.isValid /\ stacks'[s] = longer)
    BY <1>1, <1>5
  <2>3. longer \in Seq(Hypotheses)
    <3> HIDE DEF stack, h
    <3> QED  BY <1>6, <2>1
  <2>4. \A g : Extends(g, stack, s) => Extends(g, longer, s)
    <3> HIDE DEF stack, h
    <3> QED  BY <1>6, <2>1, LongerStackIsExtended
  <2> HIDE DEF stack, longer, h, c
  <2>5. \A g : Extends(g, stack, s) => Extends(g, stacks'[s], s)
    BY <2>2, <2>4, Zenon
  <2> QED  BY <2>1, <2>2, <2>3, <2>5 DEF stack, longer
<1>10. DOMAIN stacks' = 0 .. InputSize /\ stacks' = [s \in 0 .. InputSize |-> stacks'[s]]
  BY <1>1, <1>5
<1>11. stacks' \in [0 .. InputSize -> Seq(Hypotheses)]
  <2> DEFINE X == Seq(Hypotheses)
  <2>1. \A s \in 0 .. InputSize : stacks'[s] \in X
    BY <1>9
  <2> HIDE DEF X
  <2>2. stacks' \in [0 .. InputSize -> X]
    BY <1>10, <2>1
  <2> QED  BY <2>2 DEF X
<1>12. ASSUME NEW k \in 0 .. InputSize, NEW n \in DOMAIN stacks'[k]
       PROVE  /\ stacks'[k][n].covered = k
              /\ IF k = 0 THEN stacks'[k][n].prev = NoPrev
                 ELSE \E s \in 0 .. (k - 1) : Extends(stacks'[k][n], stacks'[s], s)
  <2>1. \A s \in 0 .. (k - 1) : s \in 0 .. InputSize
    BY <1>3
  <2>2. CASE n \in DOMAIN stacks[k] /\ stacks'[k][n] = stacks[k][n]
    <3>1. Belongs(stacks[k][n], k)
      BY <1>4, <1>5, <2>2 DEF StacksAreLinked
    <3> QED  BY <1>9, <2>1, <2>2, <3>1 DEF Belongs
  <2>3. CASE k = c /\ h.isValid /\ stacks'[k][n] = h
    <3>1. Extends(h, stacks[stackInd], stackInd)
      BY <1>7, <2>3
    <3>2. Extends(h, stacks'[stackInd], stackInd)
      BY <1>5, <1>9, <3>1
    <3>3. stackInd \in 0 .. (k - 1)
      <4>1. WordsOf(h.range) # {} /\ c = stackInd + Cardinality(WordsOf(h.range))
        BY <3>1 DEF Extends
      <4>2. h.range \in Ranges
        BY <1>6 DEF Hypotheses
      <4>3. Cardinality(WordsOf(h.range)) \in Nat /\ Cardinality(WordsOf(h.range)) > 0
        <5> DEFINE r == h.range
        <5> HIDE DEF r
        <5>1. r \in Ranges /\ WordsOf(r) # {}
          BY <4>1, <4>2 DEF r
        <5>2. Cardinality(WordsOf(r)) \in Nat /\ Cardinality(WordsOf(r)) > 0
          BY <5>1, WordsAreCounted
        <5> QED  BY <5>2 DEF r
      <4>4. stackInd \in Nat
        BY <1>5
      <4> HIDE DEF c
      <4> QED  BY <2>3, <4>1, <4>3, <4>4
    <3>4. k # 0
      BY <1>3, <3>3
    <3> QED  BY <2>3, <3>2, <3>3, <3>4
  <2>4. CASE stacks'[k] = stacks[k]
    BY <2>2, <2>4
  <2>5. CASE k = c /\ h.isValid /\ stacks'[k] = Append(stacks[k], h)
    <3> DEFINE stack == stacks[k]
    <3>1. stack \in Seq(Hypotheses)
      BY <1>5
    <3>2. \/ n \in DOMAIN stack /\ stacks'[k][n] = stack[n]
          \/ stacks'[k][n] = h
      <4> HIDE DEF stack, h
      <4>1. stacks'[k] = Append(stack, h) /\ n \in DOMAIN Append(stack, h)
        BY <2>5 DEF stack
      <4> QED  BY <3>1, <4>1
    <3> QED  BY <2>2, <2>3, <2>5, <3>2
  <2> QED  BY <1>9, <2>4, <2>5
<1>13. StacksAreLinked'
  BY <1>3, <1>10, <1>11, <1>12 DEF StacksAreLinked, Belongs
<1>14. SlotsAreSet'
  <2>1. \A n \in 1 .. numHypos : hypos[n].isValid => Extends(hypos[n], stacks'[stackInd], stackInd)
    <3>1. \A n \in 1 .. numHypos : hypos[n].isValid => Extends(hypos[n], stacks[stackInd], stackInd)
      BY <1>1, <1>4 DEF SlotsAreSet, Searching
    <3> QED  BY <1>5, <1>9, <3>1
  <2> QED  BY <1>1, <1>3, <1>4, <2>1 DEF SlotsAreSet
<1> QED  BY <1>1, <1>4, <1>8, <1>13, <1>14 DEF LinksInv, Preparing, Searching

LEMMA LinksKeep ==
  LegacyInv /\ LegacyInv' /\ WeightsInv /\ LinksInv /\ [Next]_vars => LinksInv'
<1> SUFFICES ASSUME LegacyInv, LegacyInv', WeightsInv, LinksInv, [Next]_vars
             PROVE  LinksInv'
  OBVIOUS
<1>1. CASE \/ SystemNext /\ UNCHANGED <<said, fault, searchVars>>
           \/ LookupPath
           \/ \E line \in Sentences : ReadSentence(line)
           \/ Finish
  BY <1>1, EarlierStepLinks
<1>2. CASE WriteMemory
  BY <1>2, WriteMemoryLinks
<1>3. CASE InitStacks
  BY <1>3, InitStacksLinks
<1>4. CASE InitStack \/ StackInitialised \/ StartFinalize \/ StackFinished
  BY <1>4, MovingOnLinks
<1>5. CASE Expand
  BY <1>5, ExpandLinks
<1>6. CASE \E t \in Threads : TestValid(t) \/ Judge(t)
  BY <1>6, TestValidLinks, JudgeLinks
<1>7. CASE FinalizeHypo
  BY <1>7, FinalizeHypoLinks
<1>8. CASE WriteOver \/ Adrift
  <2>1. \/ pc' = "adrift" /\ overrun'
        \/ pc' = "input" /\ overrun'
    BY <1>8, Zenon DEF WriteOver, Adrift, searchVars, LinksInv
  <2> QED  BY <2>1 DEF LinksInv, Preparing, Searching
<1>9. CASE UNCHANGED vars
  BY <1>9, ZenonT(40) DEF vars, systemVars, config, searchVars, LinksInv, PathsAreReady,
       StacksAreLinked, Belongs, SlotsAreSet, ThreadsAreAtSlots, InputSize, Sentence
<1> QED  BY <1>1, <1>2, <1>3, <1>4, <1>5, <1>6, <1>7, <1>8, <1>9 DEF Next

(* A hypothesis of stack k has translated k words, none of them twice, along *)
(* the pointers to the hypotheses it extends (Hypothesis.cuh:35-68, 87-97,   *)
(* CUDA.cu:228-280, 321-349, Stack.cuh:15-19): whatever the sentences are,   *)
(* for any number of threads and any size of the stacks and of the array of  *)
(* new hypotheses, until a write past one of these overwrites the stacks.    *)
THEOREM WordsNeverTwice == Spec => []NoWordTwice
<1>1. LegacyInv /\ LinksInv => NoWordTwice
  <2> SUFFICES ASSUME LegacyInv, LinksInv, pc \in {"initStack", "input"}, ~overrun,
                      NEW k \in DOMAIN stacks, NEW n \in DOMAIN stacks[k]
               PROVE  LET chain == Chain(stacks[k][n])
                      IN  AreApart(chain) /\ WordsIn(chain) = k
    BY DEF NoWordTwice, AreApart, WordsIn
  <2>1. stacks # <<>>
    OBVIOUS
  <2>2. StacksAreLinked
    BY <2>1 DEF LinksInv, Searching
  <2>3. said # <<>>
    BY <2>1 DEF LegacyInv, LinksInv, Spoken, Decoding
  <2>4. Len(Sentence) \in Nat
    BY <2>3, SentenceIs
  <2> QED  BY <2>2, <2>4, ChainIsRight
<1> QED  BY <1>1, LegacyInvariance, WeightsInvariance, LinksStart, LinksKeep, PTL DEF Spec

=============================================================================
