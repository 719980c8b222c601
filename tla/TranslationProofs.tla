------------------------- MODULE TranslationProofs -------------------------
(***************************************************************************)
(* Proofs about what a decode does on the device.                          *)
(*                                                                         *)
(* Translation, for files of any lines, sentences of any length and words  *)
(* of any set: a lookup finds the lines of a phrase and no others, a word  *)
(* is read back through the chain, and what is printed is the target side  *)
(* of the lines that were used.                                            *)
(*                                                                         *)
(* Stack, for every stack size, every set of blocks, every list of         *)
(* hypotheses they make and every number of blocks that run at a time: the *)
(* lock protects the collection, no hypothesis leaks or dangles, and a     *)
(* stack implements the beam that the search relies on.                    *)
(***************************************************************************)
EXTENDS Translation, Stack, TrieProofs, FiniteSetTheorems

-----------------------------------------------------------------------------
(* The vocabulary. *)

Ids(v) == 0 .. (Len(v.coll) - 1)

\* The two maps of a vocabulary are inverse to each other.
Vocabularies ==
  {v \in [coll : Seq(Words), collInv : UNION {[D -> Nat] : D \in SUBSET Words}] :
     /\ \A k \in 1 .. Len(v.coll) :
          v.coll[k] \in DOMAIN v.collInv /\ v.collInv[v.coll[k]] = k - 1
     /\ \A w \in DOMAIN v.collInv :
          v.collInv[w] + 1 \in 1 .. Len(v.coll) /\ v.coll[v.collInv[w] + 1] = w}

\* The words of one vocabulary have the same identifiers in another.
Extends(v, u) ==
  /\ Len(v.coll) <= Len(u.coll)
  /\ \A k \in 1 .. Len(v.coll) : u.coll[k] = v.coll[k]

LEMMA ExtendsIsTransitive ==
  ASSUME NEW v \in Vocabularies, NEW u \in Vocabularies, NEW t \in Vocabularies,
         Extends(v, u), Extends(u, t)
  PROVE  Extends(v, t)
<1>1. Len(v.coll) \in Nat /\ Len(u.coll) \in Nat /\ Len(t.coll) \in Nat
  BY DEF Vocabularies
<1> QED  BY <1>1 DEF Extends

LEMMA WordIsAdded ==
  ASSUME NEW v \in Vocabularies, NEW w \in Words
  PROVE  /\ WithWord(v, w) \in Vocabularies
         /\ Extends(v, WithWord(v, w))
         /\ w \in DOMAIN WithWord(v, w).collInv
<1>0. v.coll \in Seq(Words) /\ Len(v.coll) \in Nat
  BY DEF Vocabularies
<1>1. CASE w \in DOMAIN v.collInv
  BY <1>0, <1>1 DEF WithWord, Extends
<1>2. CASE w \notin DOMAIN v.collInv
  <2> DEFINE longer == Append(v.coll, w)
             inv  == [x \in DOMAIN v.collInv \union {w} |->
                        IF x = w THEN Len(v.coll) ELSE v.collInv[x]]
  <2>1. WithWord(v, w) = [coll |-> longer, collInv |-> inv]
    BY <1>2 DEF WithWord
  <2>2. /\ longer \in Seq(Words) /\ Len(longer) = Len(v.coll) + 1
        /\ longer[Len(v.coll) + 1] = w
        /\ \A k \in 1 .. Len(v.coll) : longer[k] = v.coll[k]
    BY <1>0
  <2>3. PICK D \in SUBSET Words : v.collInv \in [D -> Nat]
    BY DEF Vocabularies
  <2>4. inv \in [D \union {w} -> Nat] /\ D \union {w} \in SUBSET Words
    BY <1>0, <2>3
  <2>5. /\ DOMAIN inv = D \union {w} /\ inv[w] = Len(v.coll)
        /\ \A x \in D : inv[x] = v.collInv[x]
    BY <1>2, <2>3
  <2> HIDE DEF longer, inv
  <2>6. ASSUME NEW k \in 1 .. Len(longer)
        PROVE  longer[k] \in DOMAIN inv /\ inv[longer[k]] = k - 1
    <3>1. CASE k = Len(v.coll) + 1
      BY <1>0, <2>2, <2>5, <3>1
    <3>2. CASE k # Len(v.coll) + 1
      <4>1. k \in 1 .. Len(v.coll)
        BY <1>0, <2>2, <3>2
      <4> QED  BY <2>2, <2>3, <2>5, <4>1 DEF Vocabularies
    <3> QED  BY <3>1, <3>2
  <2>7. ASSUME NEW x \in DOMAIN inv
        PROVE  inv[x] + 1 \in 1 .. Len(longer) /\ longer[inv[x] + 1] = x
    <3>1. CASE x = w
      BY <1>0, <2>2, <2>5, <3>1
    <3>2. CASE x # w
      <4>1. /\ x \in DOMAIN v.collInv /\ inv[x] = v.collInv[x]
            /\ v.collInv[x] + 1 \in 1 .. Len(v.coll) /\ v.coll[v.collInv[x] + 1] = x
        BY <2>3, <2>5, <3>2 DEF Vocabularies
      <4> QED  BY <1>0, <2>2, <4>1
    <3> QED  BY <3>1, <3>2
  <2> DEFINE u == [coll |-> longer, collInv |-> inv]
  <2>8. u \in Vocabularies
    <3>1. inv \in UNION {[E -> Nat] : E \in SUBSET Words}
      BY <2>4
    <3>2. u \in [coll : Seq(Words), collInv : UNION {[E -> Nat] : E \in SUBSET Words}]
      BY <2>2, <3>1
    <3>3. u.coll = longer /\ u.collInv = inv
      OBVIOUS
    <3> HIDE DEF u
    <3> QED  BY <2>6, <2>7, <3>2, <3>3 DEF Vocabularies
  <2> QED  BY <1>0, <2>1, <2>2, <2>5, <2>8 DEF Extends
<1> QED  BY <1>1, <1>2

LEMMA StaysKnown ==
  ASSUME NEW v \in Vocabularies, NEW u \in Vocabularies, Extends(v, u),
         NEW w \in DOMAIN v.collInv
  PROVE  w \in DOMAIN u.collInv /\ u.collInv[w] = v.collInv[w]
<1>1. v.collInv[w] + 1 \in 1 .. Len(v.coll) /\ v.coll[v.collInv[w] + 1] = w
  BY DEF Vocabularies
<1>2. v.collInv[w] \in Nat /\ Len(v.coll) \in Nat /\ Len(u.coll) \in Nat
  BY SMTT(20) DEF Vocabularies
<1>3. v.collInv[w] + 1 \in 1 .. Len(u.coll) /\ u.coll[v.collInv[w] + 1] = w
  BY <1>1, <1>2 DEF Extends
<1> DEFINE k == v.collInv[w] + 1
<1>4. w \in DOMAIN u.collInv /\ u.collInv[w] = k - 1
  <2>1. k \in 1 .. Len(u.coll) /\ u.coll[k] = w
    BY <1>3
  <2> HIDE DEF k
  <2> QED  BY <2>1 DEF Vocabularies
<1> QED  BY <1>2, <1>4

LEMMA WordsAreAdded ==
  ASSUME NEW v \in Vocabularies, NEW ws \in Seq(Words)
  PROVE  /\ WithWords(v, ws) \in Vocabularies
         /\ Extends(v, WithWords(v, ws))
         /\ \A n \in DOMAIN ws : ws[n] \in DOMAIN WithWords(v, ws).collInv
<1> DEFINE N == Len(ws)
           IsAfter(f) == f = [n \in 0 .. N |-> IF n = 0 THEN v ELSE WithWord(f[n - 1], ws[n])]
           step == [n \in 1 .. N |-> [u \in Vocabularies |-> WithWord(u, ws[n])]]
           after == CHOOSE f : IsAfter(f)
<1>1. N \in Nat /\ DOMAIN ws = 1 .. N
  OBVIOUS
<1>2. \A n \in 1 .. N : ws[n] \in Words
  OBVIOUS
<1>3. WithWords(v, ws) = after[N]
  BY DEF WithWords
<1>4. IsAfter(after)
  <2>1. \A n \in 1 .. N : \A u \in Vocabularies : step[n][u] \in Vocabularies
    BY <1>2, WordIsAdded
  <2>2. PICK f \in [0 .. N -> Vocabularies] : IsRecursion(f, N, v, step)
    <3> HIDE DEF N, step
    <3> QED  BY <1>1, <2>1, RecursionExists
  <2>3. \A n \in 0 .. N : f[n] = IF n = 0 THEN v ELSE WithWord(f[n - 1], ws[n])
    <3> SUFFICES ASSUME NEW n \in 0 .. N
                 PROVE  f[n] = IF n = 0 THEN v ELSE WithWord(f[n - 1], ws[n])
      OBVIOUS
    <3>1. f[n] = IF n = 0 THEN v ELSE step[n][f[n - 1]]
      BY <2>2 DEF IsRecursion
    <3>2. n # 0 => n \in 1 .. N /\ f[n - 1] \in Vocabularies
      BY <1>1, <2>2
    <3> QED  BY <3>1, <3>2
  <2>4. IsAfter(f)
    BY <2>2, <2>3
  <2> HIDE DEF IsAfter
  <2> QED  BY <2>4
<1> HIDE DEF after
<1>5. after[0] = v /\ \A n \in 1 .. N : after[n] = WithWord(after[n - 1], ws[n])
  BY <1>1, <1>4
<1> DEFINE good == {n \in 0 .. N :
                      /\ after[n] \in Vocabularies /\ Extends(v, after[n])
                      /\ \A m \in 1 .. n : ws[m] \in DOMAIN after[n].collInv}
<1>6. 0 \in good
  <2>1. Extends(v, v)
    <3>1. Len(v.coll) \in Nat
      BY DEF Vocabularies
    <3> QED  BY <3>1 DEF Extends
  <2>2. 0 \in 0 .. N /\ 1 .. 0 = {}
    BY <1>1
  <2> QED  BY <1>5, <2>1, <2>2
<1>7. ASSUME NEW n \in 1 .. N, n - 1 \in good
      PROVE  n \in good
  <2>1. /\ after[n - 1] \in Vocabularies /\ Extends(v, after[n - 1])
        /\ \A m \in 1 .. n - 1 : ws[m] \in DOMAIN after[n - 1].collInv
    BY <1>7
  <2>2. /\ after[n] \in Vocabularies
        /\ Extends(after[n - 1], after[n])
        /\ ws[n] \in DOMAIN after[n].collInv
    BY <1>2, <1>5, <2>1, WordIsAdded
  <2>3. Extends(v, after[n])
    BY <2>1, <2>2, ExtendsIsTransitive
  <2>4. ASSUME NEW m \in 1 .. n
        PROVE  ws[m] \in DOMAIN after[n].collInv
    <3>1. CASE m = n
      BY <2>2, <3>1
    <3>2. CASE m # n
      <4>1. m \in 1 .. n - 1
        BY <1>1, <3>2
      <4> QED  BY <2>1, <2>2, <4>1, StaysKnown
    <3> QED  BY <3>1, <3>2
  <2> QED  BY <1>1, <2>2, <2>3, <2>4
<1>8. \A n \in 0 .. N : n \in good
  <2> HIDE DEF good, N
  <2> QED  BY <1>1, <1>6, <1>7, UpTo
<1>9. N \in good
  <2> HIDE DEF good
  <2> QED  BY <1>1, <1>8
<1> QED  BY <1>1, <1>3, <1>9

LEMMA Spelled ==
  ASSUME NEW v \in Vocabularies, NEW ids \in Seq(Ids(v))
  PROVE  /\ Spell(v, ids) \in Seq(Words)
         /\ Len(Spell(v, ids)) = Len(ids)
         /\ \A n \in 1 .. Len(ids) : /\ Spell(v, ids)[n] = v.coll[ids[n] + 1]
                                     /\ ids[n] + 1 \in 1 .. Len(v.coll)
<1>1. v.coll \in Seq(Words) /\ Len(v.coll) \in Nat /\ Len(ids) \in Nat /\ DOMAIN ids = 1 .. Len(ids)
  BY DEF Vocabularies
<1>2. \A n \in 1 .. Len(ids) : ids[n] + 1 \in 1 .. Len(v.coll)
  <2> SUFFICES ASSUME NEW n \in 1 .. Len(ids)
               PROVE  ids[n] + 1 \in 1 .. Len(v.coll)
    OBVIOUS
  <2>1. ids[n] \in Ids(v)
    BY <1>1
  <2> QED  BY <1>1, <2>1 DEF Ids
<1>3. \A k \in 1 .. Len(v.coll) : v.coll[k] \in Words
  BY <1>1
<1>4. Spell(v, ids) = [n \in 1 .. Len(ids) |-> v.coll[ids[n] + 1]]
  BY <1>1 DEF Spell, GetString
<1>5. Spell(v, ids) \in [1 .. Len(ids) -> Words]
  BY <1>2, <1>3, <1>4
<1>6. Spell(v, ids) \in Seq(Words) /\ Len(Spell(v, ids)) = Len(ids)
  BY <1>1, <1>5, SeqDef
<1> QED  BY <1>2, <1>4, <1>6

LEMMA SpelledAlike ==
  ASSUME NEW v \in Vocabularies, NEW u \in Vocabularies, Extends(v, u),
         NEW ids \in Seq(Ids(v))
  PROVE  ids \in Seq(Ids(u)) /\ Spell(u, ids) = Spell(v, ids)
<1>1. Len(v.coll) \in Nat /\ Len(u.coll) \in Nat /\ Len(v.coll) <= Len(u.coll)
  BY DEF Vocabularies, Extends
<1>2. Ids(v) \subseteq Ids(u)
  BY <1>1 DEF Ids
<1>3. ids \in Seq(Ids(u))
  BY <1>2
<1>4. /\ Spell(u, ids) \in Seq(Words) /\ Spell(v, ids) \in Seq(Words)
      /\ Len(Spell(u, ids)) = Len(Spell(v, ids))
      /\ \A n \in 1 .. Len(ids) : Spell(u, ids)[n] = Spell(v, ids)[n]
      /\ Len(Spell(v, ids)) = Len(ids)
  BY <1>3, Spelled DEF Extends
<1>5. Spell(u, ids) = Spell(v, ids)
  BY <1>4, SeqEqual
<1> QED  BY <1>3, <1>5

\* Identifiers that spell the same words are the same.
LEMMA SpellingIsUnique ==
  ASSUME NEW v \in Vocabularies, NEW ids \in Seq(Ids(v)), NEW others \in Seq(Ids(v)),
         Spell(v, ids) = Spell(v, others)
  PROVE  ids = others
<1>1. Len(ids) = Len(others)
  BY Spelled
<1>2. Len(v.coll) \in Nat /\ Len(ids) \in Nat
  BY DEF Vocabularies
<1>3. ASSUME NEW n \in 1 .. Len(ids)
      PROVE  ids[n] = others[n]
  <2>1. ids[n] \in Int /\ others[n] \in Int
    BY <1>1, <1>2 DEF Ids
  <2> DEFINE a == ids[n] + 1
             b == others[n] + 1
  <2>2. v.coll[a] = v.coll[b] /\ a \in 1 .. Len(v.coll) /\ b \in 1 .. Len(v.coll)
    BY <1>1, Spelled
  <2>3. a - 1 = b - 1
    <3> HIDE DEF a, b
    <3> QED  BY <2>2 DEF Vocabularies
  <2> QED  BY <2>1, <2>3
<1> QED  BY <1>1, <1>3, SeqEqual

\* GetOrCreateIds returns identifiers that spell the words.
LEMMA IdsSpellTheWords ==
  ASSUME NEW v \in Vocabularies, NEW ws \in Seq(Words)
  PROVE  /\ GetOrCreateIds(v, ws) \in Seq(Ids(WithWords(v, ws)))
         /\ Spell(WithWords(v, ws), GetOrCreateIds(v, ws)) = ws
<1> DEFINE u == WithWords(v, ws)
           ids == GetOrCreateIds(v, ws)
<1>1. u \in Vocabularies /\ \A n \in DOMAIN ws : ws[n] \in DOMAIN u.collInv
  BY WordsAreAdded
<1>2. ids = [n \in DOMAIN ws |-> u.collInv[ws[n]]] /\ DOMAIN ws = 1 .. Len(ws) /\ Len(ws) \in Nat
  BY DEF GetOrCreateIds
<1> HIDE DEF u, ids
<1>3. ASSUME NEW n \in 1 .. Len(ws)
      PROVE  ids[n] \in Ids(u) /\ u.coll[ids[n] + 1] = ws[n]
  <2>1. ws[n] \in DOMAIN u.collInv /\ ids[n] = u.collInv[ws[n]]
    BY <1>1, <1>2
  <2>2. ids[n] \in Nat /\ ids[n] + 1 \in 1 .. Len(u.coll) /\ u.coll[ids[n] + 1] = ws[n]
    BY <1>1, <2>1, SMTT(20) DEF Vocabularies
  <2>3. Len(u.coll) \in Nat
    BY <1>1 DEF Vocabularies
  <2> QED  BY <2>2, <2>3 DEF Ids
<1>4. ids \in [1 .. Len(ws) -> Ids(u)]
  BY <1>2, <1>3
<1>5. ids \in Seq(Ids(u)) /\ Len(ids) = Len(ws)
  BY <1>2, <1>4, SeqDef
<1>6. /\ Spell(u, ids) \in Seq(Words) /\ Len(Spell(u, ids)) = Len(ws)
      /\ \A n \in 1 .. Len(ws) : Spell(u, ids)[n] = ws[n]
  BY <1>1, <1>3, <1>5, Spelled
<1>7. Spell(u, ids) = ws
  BY <1>6, SeqEqual
<1> QED  BY <1>5, <1>7 DEF u, ids

LEMMA SpellOfParts ==
  ASSUME NEW v \in Vocabularies, NEW ids \in Seq(Ids(v)), NEW others \in Seq(Ids(v))
  PROVE  Spell(v, ids \o others) = Spell(v, ids) \o Spell(v, others)
<1> DEFINE both == ids \o others
           spelled == Spell(v, ids) \o Spell(v, others)
<1>1. /\ both \in Seq(Ids(v)) /\ Len(both) = Len(ids) + Len(others)
      /\ Len(ids) \in Nat /\ Len(others) \in Nat
      /\ \A n \in 1 .. Len(ids) : both[n] = ids[n]
      /\ \A n \in Len(ids) + 1 .. Len(ids) + Len(others) : both[n] = others[n - Len(ids)]
  OBVIOUS
<1>2. /\ Spell(v, ids) \in Seq(Words) /\ Len(Spell(v, ids)) = Len(ids)
      /\ Spell(v, others) \in Seq(Words) /\ Len(Spell(v, others)) = Len(others)
  BY Spelled
<1>3. /\ spelled \in Seq(Words) /\ Len(spelled) = Len(ids) + Len(others)
      /\ \A n \in 1 .. Len(ids) : spelled[n] = Spell(v, ids)[n]
      /\ \A n \in Len(ids) + 1 .. Len(ids) + Len(others) :
           spelled[n] = Spell(v, others)[n - Len(ids)]
  BY <1>2
<1> HIDE DEF both, spelled
<1>4. /\ Spell(v, both) \in Seq(Words) /\ Len(Spell(v, both)) = Len(both)
      /\ \A n \in 1 .. Len(both) : Spell(v, both)[n] = v.coll[both[n] + 1]
  BY <1>1, Spelled
<1>5. ASSUME NEW n \in 1 .. Len(both)
      PROVE  Spell(v, both)[n] = spelled[n]
  <2>1. CASE n <= Len(ids)
    <3>1. n \in 1 .. Len(ids)
      BY <2>1
    <3>2. Spell(v, ids)[n] = v.coll[ids[n] + 1]
      BY <3>1, Spelled
    <3> QED  BY <1>1, <1>3, <1>4, <3>1, <3>2
  <2>2. CASE n > Len(ids)
    <3>1. n - Len(ids) \in 1 .. Len(others) /\ n \in Len(ids) + 1 .. Len(ids) + Len(others)
      BY <1>1, <2>2
    <3>2. Spell(v, others)[n - Len(ids)] = v.coll[others[n - Len(ids)] + 1]
      BY <3>1, Spelled
    <3> QED  BY <1>1, <1>3, <1>4, <3>1, <3>2
  <2> QED  BY <1>1, <2>1, <2>2
<1>6. Spell(v, both) = spelled
  BY <1>1, <1>3, <1>4, <1>5, SeqEqual
<1> QED  BY <1>6 DEF both, spelled

LEMMA SpellOfSpan ==
  ASSUME NEW v \in Vocabularies, NEW ids \in Seq(Ids(v)),
         NEW first \in 1 .. Len(ids), NEW last \in first .. Len(ids)
  PROVE  /\ SubSeq(ids, first, last) \in Seq(Ids(v))
         /\ Spell(v, SubSeq(ids, first, last)) = SubSeq(Spell(v, ids), first, last)
<1> DEFINE part == SubSeq(ids, first, last)
           all == Spell(v, ids)
           spelled == SubSeq(all, first, last)
           N == last - first + 1
<1>1. Len(ids) \in Nat /\ N \in Nat
  OBVIOUS
<1>2. /\ part \in Seq(Ids(v)) /\ Len(part) = N
      /\ \A n \in 1 .. N : part[n] = ids[first + n - 1]
  BY <1>1
<1>3. all \in Seq(Words) /\ Len(all) = Len(ids) /\ \A n \in 1 .. Len(ids) : all[n] = v.coll[ids[n] + 1]
  BY Spelled
<1> HIDE DEF part, all
<1>4. /\ spelled \in Seq(Words) /\ Len(spelled) = N
      /\ \A n \in 1 .. N : spelled[n] = all[first + n - 1]
  BY <1>1, <1>3
<1> HIDE DEF spelled
<1>5. /\ Spell(v, part) \in Seq(Words) /\ Len(Spell(v, part)) = N
      /\ \A n \in 1 .. N : Spell(v, part)[n] = v.coll[part[n] + 1]
  BY <1>2, Spelled
<1>6. \A n \in 1 .. N : Spell(v, part)[n] = spelled[n]
  <2> SUFFICES ASSUME NEW n \in 1 .. N
               PROVE  Spell(v, part)[n] = spelled[n]
    OBVIOUS
  <2>1. first + n - 1 \in 1 .. Len(ids)
    BY <1>1
  <2> QED  BY <1>2, <1>3, <1>4, <1>5, <2>1, ZenonT(40)
<1>7. Spell(v, part) = spelled
  BY <1>4, <1>5, <1>6, SeqEqual
<1> QED  BY <1>2, <1>7 DEF part, all, spelled

-----------------------------------------------------------------------------
(* The lines with a source phrase. *)

\* The lines that are found among the first ones.
AreFound(f, lines, source) ==
  /\ f[0] = <<>>
  /\ \A n \in 1 .. Len(lines) :
       f[n] = IF lines[n].source = source THEN Append(f[n - 1], lines[n]) ELSE f[n - 1]

LEMMA LinesAreFound ==
  ASSUME NEW L, NEW lines \in Seq(L), NEW source
  PROVE  \E f : /\ AreFound(f, lines, source)
                /\ \A n \in 0 .. Len(lines) : f[n] \in Seq(L)
                /\ LinesWith(lines, source) = f[Len(lines)]
<1> DEFINE N == Len(lines)
           IsFound(f) == f = [n \in 0 .. N |->
                                IF n = 0 THEN <<>>
                                ELSE IF lines[n].source = source
                                     THEN Append(f[n - 1], lines[n])
                                     ELSE f[n - 1]]
           step == [n \in 1 .. N |-> [x \in Seq(L) |->
                                        IF lines[n].source = source
                                        THEN Append(x, lines[n]) ELSE x]]
           found == CHOOSE f : IsFound(f)
<1>1. N \in Nat /\ \A n \in 1 .. N : lines[n] \in L
  OBVIOUS
<1>2. LinesWith(lines, source) = found[N]
  BY DEF LinesWith
<1>3. IsFound(found)
  <2>1. <<>> \in Seq(L)
    OBVIOUS
  <2>2. \A n \in 1 .. N : \A x \in Seq(L) : step[n][x] \in Seq(L)
    BY <1>1
  <2>3. PICK f \in [0 .. N -> Seq(L)] : IsRecursion(f, N, <<>>, step)
    <3> HIDE DEF N, step
    <3> QED  BY <1>1, <2>1, <2>2, RecursionExists
  <2>4. ASSUME NEW n \in 0 .. N
        PROVE  f[n] = IF n = 0 THEN <<>>
                      ELSE IF lines[n].source = source THEN Append(f[n - 1], lines[n])
                      ELSE f[n - 1]
    <3>1. f[n] = IF n = 0 THEN <<>> ELSE step[n][f[n - 1]]
      BY <2>3 DEF IsRecursion
    <3>2. n # 0 => n \in 1 .. N /\ f[n - 1] \in Seq(L)
      BY <1>1, <2>3
    <3> QED  BY <3>1, <3>2
  <2>5. IsFound(f)
    BY <2>3, <2>4
  <2> HIDE DEF IsFound
  <2> QED  BY <2>5
<1> HIDE DEF found
<1>4. /\ found[0] = <<>>
      /\ \A n \in 1 .. N :
           found[n] = IF lines[n].source = source THEN Append(found[n - 1], lines[n])
                      ELSE found[n - 1]
  <2>1. 0 \in 0 .. N /\ \A n \in 1 .. N : n \in 0 .. N /\ n # 0
    BY <1>1
  <2> HIDE DEF N
  <2> QED  BY <1>3, <2>1
<1> DEFINE good == {n \in 0 .. N : found[n] \in Seq(L)}
<1>5. 0 \in good
  <2>1. <<>> \in Seq(L)
    OBVIOUS
  <2>2. found[0] \in Seq(L)
    BY <1>4, <2>1
  <2>3. 0 \in 0 .. N
    BY <1>1
  <2> QED  BY <2>2, <2>3
<1>6. ASSUME NEW n \in 1 .. N, n - 1 \in good
      PROVE  n \in good
  <2>1. found[n - 1] \in Seq(L) /\ lines[n] \in L
    BY <1>1, <1>6
  <2>2. Append(found[n - 1], lines[n]) \in Seq(L)
    BY <2>1
  <2>3. found[n] = IF lines[n].source = source THEN Append(found[n - 1], lines[n])
                   ELSE found[n - 1]
    BY <1>4
  <2>4. found[n] \in Seq(L)
    BY <2>1, <2>2, <2>3
  <2>5. n \in 0 .. N
    BY <1>1
  <2> QED  BY <2>4, <2>5
<1>7. \A n \in 0 .. N : n \in good
  <2> HIDE DEF good, N
  <2> QED  BY <1>1, <1>5, <1>6, UpTo
<1>8. AreFound(found, lines, source)
  BY <1>4 DEF AreFound
<1> QED  BY <1>2, <1>7, <1>8

\* A line more is found if it has the source phrase.
LEMMA OneLineMore ==
  ASSUME NEW L, NEW lines \in Seq(L), NEW line \in L, NEW source
  PROVE  LinesWith(Append(lines, line), source)
           = IF line.source = source
             THEN Append(LinesWith(lines, source), line)
             ELSE LinesWith(lines, source)
<1> DEFINE more == Append(lines, line)
           N == Len(lines)
<1>1. /\ more \in Seq(L) /\ Len(more) = N + 1 /\ more[N + 1] = line /\ N \in Nat
      /\ \A n \in 1 .. N : more[n] = lines[n]
  OBVIOUS
<1> HIDE DEF more
<1>2. PICK f : AreFound(f, lines, source) /\ LinesWith(lines, source) = f[N]
  BY LinesAreFound
<1>3. PICK g : AreFound(g, more, source) /\ LinesWith(more, source) = g[N + 1]
  BY <1>1, LinesAreFound
<1> DEFINE good == {n \in 0 .. N : g[n] = f[n]}
<1>4. 0 \in good
  BY <1>1, <1>2, <1>3 DEF AreFound
<1>5. ASSUME NEW n \in 1 .. N, n - 1 \in good
      PROVE  n \in good
  BY <1>1, <1>2, <1>3, <1>5 DEF AreFound
<1>6. \A n \in 0 .. N : n \in good
  <2> HIDE DEF good, N
  <2> QED  BY <1>1, <1>4, <1>5, UpTo
<1>7. g[N] = f[N]
  BY <1>1, <1>6
<1>8. g[N + 1] = IF more[N + 1].source = source THEN Append(g[N], more[N + 1]) ELSE g[N]
  <2>1. N + 1 \in 1 .. Len(more) /\ N + 1 - 1 = N
    BY <1>1
  <2> QED  BY <1>3, <2>1 DEF AreFound
<1> QED  BY <1>1, <1>2, <1>3, <1>7, <1>8 DEF more

LEMMA NoLinesFound ==
  ASSUME NEW L, NEW lines \in Seq(L), NEW source,
         \A n \in 1 .. Len(lines) : lines[n].source # source
  PROVE  LinesWith(lines, source) = <<>>
<1> DEFINE N == Len(lines)
<1>1. PICK f : AreFound(f, lines, source) /\ LinesWith(lines, source) = f[N]
  BY LinesAreFound
<1>2. N \in Nat
  OBVIOUS
<1> DEFINE good == {n \in 0 .. N : f[n] = <<>>}
<1>3. 0 \in good
  BY <1>1, <1>2 DEF AreFound
<1>4. ASSUME NEW n \in 1 .. N, n - 1 \in good
      PROVE  n \in good
  BY <1>1, <1>2, <1>4 DEF AreFound
<1>5. \A n \in 0 .. N : n \in good
  <2> HIDE DEF good, N
  <2> QED  BY <1>2, <1>3, <1>4, UpTo
<1> QED  BY <1>1, <1>2, <1>5

-----------------------------------------------------------------------------
(* The table. *)

LineRecords == [source : Seq(Words), target : Seq(Words)]

\* The target phrases, as identifiers, are those of the lines.
AreTargetsOf(tps, v, lines) ==
  /\ tps \in Seq(Seq(Ids(v)))
  /\ Len(tps) = Len(lines)
  /\ \A n \in 1 .. Len(lines) : lines[n].target = Spell(v, tps[n])

\* The node of each phrase has the target phrases of its lines, and each line
\* has a node.
IsTableOf(trie, path, v, lines) ==
  /\ IsTrie(trie, path, Ids(v))
  /\ \A n \in DOMAIN trie :
       AreTargetsOf(trie[n].value, v, LinesWith(lines, Spell(v, path[n])))
  /\ \A k \in 1 .. Len(lines) : \E n \in DOMAIN trie : lines[k].source = Spell(v, path[n])

LEMMA TrieOfMoreWords ==
  ASSUME NEW W, NEW X, W \subseteq X, NEW trie, NEW path, IsTrie(trie, path, W)
  PROVE  IsTrie(trie, path, X)
<1>1. Seq(W) \subseteq Seq(X)
  OBVIOUS
<1>2. path \in [DOMAIN trie -> Seq(X)]
  BY <1>1 DEF IsTrie
<1>3. \A n \in DOMAIN trie : IsNode(trie[n], X)
  BY DEF IsTrie, IsNode
<1>4. \A n \in DOMAIN trie \ {Root} :
       \E parent \in DOMAIN trie, w \in X :
         /\ parent < n
         /\ w \in DOMAIN trie[parent].children
         /\ trie[parent].children[w] = n
  BY DEF IsTrie
<1> QED  BY <1>2, <1>3, <1>4 DEF IsTrie

LEMMA TargetsStay ==
  ASSUME NEW v \in Vocabularies, NEW u \in Vocabularies, Extends(v, u),
         NEW tps, NEW lines, AreTargetsOf(tps, v, lines)
  PROVE  AreTargetsOf(tps, u, lines)
<1>1. tps \in Seq(Seq(Ids(v))) /\ Len(tps) = Len(lines) /\ Len(tps) \in Nat
  BY DEF AreTargetsOf
<1>2. \A n \in 1 .. Len(tps) : tps[n] \in Seq(Ids(v))
  BY <1>1
<1>3. \A n \in 1 .. Len(tps) : tps[n] \in Seq(Ids(u)) /\ Spell(u, tps[n]) = Spell(v, tps[n])
  BY <1>2, SpelledAlike
<1>4. tps = [n \in 1 .. Len(tps) |-> tps[n]]
  BY <1>1
<1>5. tps \in Seq(Seq(Ids(u)))
  <2> DEFINE S == Seq(Ids(u))
  <2>1. \A n \in 1 .. Len(tps) : tps[n] \in S
    BY <1>3
  <2> HIDE DEF S
  <2>2. tps \in [1 .. Len(tps) -> S]
    BY <1>4, <2>1
  <2>3. Len(tps) \in Nat
    BY <1>1
  <2>4. tps \in Seq(S)
    BY <2>2, <2>3, SeqDef
  <2> QED  BY <2>4 DEF S
<1> QED  BY <1>1, <1>3, <1>5 DEF AreTargetsOf

\* New words in the vocabulary leave the table as it is.
LEMMA TableStays ==
  ASSUME NEW v \in Vocabularies, NEW u \in Vocabularies, Extends(v, u),
         NEW trie, NEW path, NEW lines, IsTableOf(trie, path, v, lines)
  PROVE  IsTableOf(trie, path, u, lines)
<1>1. IsTrie(trie, path, Ids(v))
  BY DEF IsTableOf
<1>2. IsTrie(trie, path, Ids(u))
  <2>1. Ids(v) \subseteq Ids(u)
    <3>1. Len(v.coll) \in Nat /\ Len(u.coll) \in Nat /\ Len(v.coll) <= Len(u.coll)
      BY DEF Vocabularies, Extends
    <3> QED  BY <3>1 DEF Ids
  <2> QED  BY <1>1, <2>1, TrieOfMoreWords
<1>3. \A n \in DOMAIN trie : Spell(u, path[n]) = Spell(v, path[n])
  <2>1. \A n \in DOMAIN trie : path[n] \in Seq(Ids(v))
    BY <1>1 DEF IsTrie
  <2> QED  BY <2>1, SpelledAlike
<1>4. ASSUME NEW n \in DOMAIN trie
      PROVE  AreTargetsOf(trie[n].value, u, LinesWith(lines, Spell(u, path[n])))
  <2>1. AreTargetsOf(trie[n].value, v, LinesWith(lines, Spell(v, path[n])))
    BY DEF IsTableOf
  <2> QED  BY <1>3, <2>1, TargetsStay
<1> QED  BY <1>2, <1>3, <1>4 DEF IsTableOf

\* A phrase that is looked up has the target phrases of its lines.
LEMMA PhraseIsFound ==
  ASSUME NEW v \in Vocabularies, NEW lines \in Seq(LineRecords),
         NEW trie, NEW path, IsTableOf(trie, path, v, lines),
         NEW phrase \in Seq(Ids(v))
  PROVE  LET node == NodeAt(trie, phrase)
         IN  AreTargetsOf(IF node = NULL THEN NoTargetPhrases ELSE trie[node].value,
                          v, LinesWith(lines, Spell(v, phrase)))
<1> DEFINE node == NodeAt(trie, phrase)
<1>1. IsTrie(trie, path, Ids(v))
  BY DEF IsTableOf
<1>2. CASE node # NULL
  <2>1. node \in DOMAIN trie /\ path[node] = phrase
    <3> DEFINE W == Ids(v)
    <3>1. IsTrie(trie, path, W) /\ phrase \in Seq(W)
      BY <1>1
    <3> HIDE DEF W
    <3> QED  BY <1>2, <3>1, LookupIsSound
  <2> HIDE DEF node
  <2>2. AreTargetsOf(trie[node].value, v, LinesWith(lines, Spell(v, path[node])))
    BY <2>1 DEF IsTableOf
  <2> QED  BY <1>2, <2>1, <2>2 DEF node
<1>3. CASE node = NULL
  <2>1. ASSUME NEW k \in 1 .. Len(lines), lines[k].source = Spell(v, phrase)
        PROVE  FALSE
    <3>1. PICK n \in DOMAIN trie : lines[k].source = Spell(v, path[n])
      BY DEF IsTableOf
    <3>2. path[n] \in Seq(Ids(v))
      BY <1>1 DEF IsTrie
    <3>3. path[n] = phrase
      BY <2>1, <3>1, <3>2, SpellingIsUnique
    <3>4. NodeAt(trie, path[n]) = n
      BY <1>1, LookupIsComplete
    <3>5. n # NULL
      BY <1>1, TrieIsASequence DEF NULL
    <3> QED  BY <1>3, <3>3, <3>4, <3>5
  <2>2. LinesWith(lines, Spell(v, phrase)) = <<>>
    BY <2>1, NoLinesFound
  <2>3. AreTargetsOf(<<>>, v, <<>>)
    BY DEF AreTargetsOf
  <2> QED  BY <1>3, <2>2, <2>3 DEF NoTargetPhrases
<1> QED  BY <1>2, <1>3

\* A line is loaded, whose words are in the vocabulary.
LEMMA LineIsLoaded ==
  ASSUME NEW v \in Vocabularies, NEW lines \in Seq(LineRecords), NEW line \in LineRecords,
         NEW trie, NEW path, IsTableOf(trie, path, v, lines),
         NEW sourceIds \in Seq(Ids(v)), Spell(v, sourceIds) = line.source,
         NEW targetIds \in Seq(Ids(v)), Spell(v, targetIds) = line.target
  PROVE  LET at  == AddOrCreateNode(trie, sourceIds, NoTargetPhrases)
             set == [at.trie EXCEPT ![at.node].value = WithTargetPhrase(@, targetIds)]
         IN  \E paths : IsTableOf(set, paths, v, Append(lines, line))
<1> DEFINE W   == Ids(v)
           at  == AddOrCreateNode(trie, sourceIds, NoTargetPhrases)
           val == Append(at.trie[at.node].value, targetIds)
           set == [at.trie EXCEPT ![at.node].value = WithTargetPhrase(@, targetIds)]
           more == Append(lines, line)
<1>1. IsTrie(trie, path, W)
  BY DEF IsTableOf
<1>2. PICK paths : Adds(trie, path, at, paths, sourceIds, NoTargetPhrases, W)
  <2>1. sourceIds \in Seq(W)
    OBVIOUS
  <2> HIDE DEF W
  <2> QED  BY <1>1, <2>1, AddedNode
<1> HIDE DEF at
<1>3. /\ IsTrie(at.trie, paths, W)
      /\ \A n \in DOMAIN trie : paths[n] = path[n] /\ at.trie[n].value = trie[n].value
      /\ \A n \in DOMAIN at.trie : n > Len(trie) => at.trie[n].value = <<>>
      /\ at.node \in DOMAIN at.trie
      /\ paths[at.node] = sourceIds
      /\ Len(trie) <= Len(at.trie)
  BY <1>2 DEF Adds, Grows, NoTargetPhrases
<1>4. /\ Len(trie) \in Nat /\ DOMAIN trie = 1 .. Len(trie)
      /\ Len(at.trie) \in Nat /\ DOMAIN at.trie = 1 .. Len(at.trie)
  BY <1>1, <1>3, TrieIsASequence
<1>5. \A n \in DOMAIN at.trie : paths[n] \in Seq(W)
  BY <1>3 DEF IsTrie
\* The words of a node are its own.
<1>6. ASSUME NEW n \in DOMAIN at.trie, NEW m \in DOMAIN at.trie,
             Spell(v, paths[n]) = Spell(v, paths[m])
      PROVE  n = m
  <2>1. paths[n] = paths[m]
    BY <1>5, <1>6, SpellingIsUnique
  <2>2. NodeAt(at.trie, paths[n]) = n /\ NodeAt(at.trie, paths[m]) = m
    BY <1>3, LookupIsComplete
  <2> QED  BY <2>1, <2>2
<1>7. ASSUME NEW n \in DOMAIN at.trie
      PROVE  AreTargetsOf(at.trie[n].value, v, LinesWith(lines, Spell(v, paths[n])))
  <2>1. CASE n <= Len(trie)
    <3>1. n \in DOMAIN trie
      BY <1>4, <2>1
    <3>2. paths[n] = path[n] /\ at.trie[n].value = trie[n].value
      BY <1>3, <3>1
    <3> QED  BY <3>1, <3>2 DEF IsTableOf
  <2>2. CASE n > Len(trie)
    <3>1. at.trie[n].value = <<>>
      BY <1>3, <2>2
    <3>2. ASSUME NEW k \in 1 .. Len(lines), lines[k].source = Spell(v, paths[n])
          PROVE  FALSE
      <4>1. PICK m \in DOMAIN trie : lines[k].source = Spell(v, path[m])
        BY DEF IsTableOf
      <4>2. m \in DOMAIN at.trie /\ paths[m] = path[m] /\ m <= Len(trie)
        BY <1>3, <1>4
      <4>3. m = n
        BY <1>6, <3>2, <4>1, <4>2
      <4> QED  BY <1>4, <2>2, <4>2, <4>3
    <3>3. LinesWith(lines, Spell(v, paths[n])) = <<>>
      BY <3>2, NoLinesFound
    <3>4. AreTargetsOf(<<>>, v, <<>>)
      BY DEF AreTargetsOf
    <3> QED  BY <3>1, <3>3, <3>4
  <2> QED  BY <1>4, <2>1, <2>2
<1>8. set = [at.trie EXCEPT ![at.node].value = val]
  BY DEF WithTargetPhrase
<1> HIDE DEF set, val
<1>9. /\ IsTrie(set, paths, W)
      /\ DOMAIN set = DOMAIN at.trie
      /\ set[at.node].value = val
      /\ \A n \in DOMAIN at.trie : n # at.node => set[n].value = at.trie[n].value
  <2> DEFINE tr == at.trie
             nd == at.node
  <2>1. IsTrie(tr, paths, W) /\ nd \in DOMAIN tr
    BY <1>3
  <2> HIDE DEF tr, nd, W
  <2>2. LET s == [tr EXCEPT ![nd].value = val]
        IN  /\ IsTrie(s, paths, W)
            /\ DOMAIN s = DOMAIN tr
            /\ s[nd].value = val
            /\ \A n \in DOMAIN tr : n # nd => s[n].value = tr[n].value
    BY <2>1, ValueIsSet
  <2> QED  BY <1>8, <2>2 DEF tr, nd
<1>10. ASSUME NEW n \in DOMAIN set
       PROVE  AreTargetsOf(set[n].value, v, LinesWith(more, Spell(v, paths[n])))
  <2> DEFINE found == LinesWith(lines, Spell(v, paths[n]))
             tps == at.trie[n].value
  <2>1. n \in DOMAIN at.trie /\ AreTargetsOf(tps, v, found)
    BY <1>7, <1>9
  <2>2. LinesWith(more, Spell(v, paths[n]))
          = IF line.source = Spell(v, paths[n]) THEN Append(found, line) ELSE found
    BY OneLineMore
  <2>3. found \in Seq(LineRecords)
    <3>1. PICK f : /\ \A k \in 0 .. Len(lines) : f[k] \in Seq(LineRecords)
                   /\ found = f[Len(lines)]
      BY LinesAreFound
    <3> QED  BY <3>1
  <2> HIDE DEF more, found
  <2>4. CASE n = at.node
    <3>1. line.source = Spell(v, paths[n]) /\ set[n].value = Append(tps, targetIds)
      BY <1>3, <1>9, <2>4 DEF val
    <3>2. /\ tps \in Seq(Seq(Ids(v))) /\ Len(tps) = Len(found)
          /\ \A k \in 1 .. Len(found) : found[k].target = Spell(v, tps[k])
      BY <2>1 DEF AreTargetsOf
    <3> HIDE DEF tps
    <3>3. /\ Append(tps, targetIds) \in Seq(Seq(Ids(v)))
          /\ Len(Append(tps, targetIds)) = Len(tps) + 1
          /\ Append(tps, targetIds)[Len(tps) + 1] = targetIds
          /\ \A k \in 1 .. Len(tps) : Append(tps, targetIds)[k] = tps[k]
          /\ Len(tps) \in Nat
      <4> DEFINE S == Seq(Ids(v))
      <4>1. tps \in Seq(S) /\ targetIds \in S
        BY <3>2
      <4> HIDE DEF S
      <4>2. /\ Append(tps, targetIds) \in Seq(S)
            /\ Len(Append(tps, targetIds)) = Len(tps) + 1
            /\ Append(tps, targetIds)[Len(tps) + 1] = targetIds
            /\ \A k \in 1 .. Len(tps) : Append(tps, targetIds)[k] = tps[k]
            /\ Len(tps) \in Nat
        BY <4>1
      <4> QED  BY <4>2 DEF S
    <3>4. /\ Len(Append(found, line)) = Len(found) + 1
          /\ Append(found, line)[Len(found) + 1] = line
          /\ \A k \in 1 .. Len(found) : Append(found, line)[k] = found[k]
          /\ Len(found) \in Nat
      BY <2>3
    <3>5. ASSUME NEW k \in 1 .. Len(found) + 1
          PROVE  Append(found, line)[k].target = Spell(v, Append(tps, targetIds)[k])
      <4>1. CASE k = Len(found) + 1
        BY <3>2, <3>3, <3>4, <4>1
      <4>2. CASE k # Len(found) + 1
        <5>1. k \in 1 .. Len(found)
          BY <3>4, <4>2
        <5> QED  BY <3>2, <3>3, <3>4, <5>1
      <4> QED  BY <4>1, <4>2
    <3>6. AreTargetsOf(Append(tps, targetIds), v, Append(found, line))
      BY <3>2, <3>3, <3>4, <3>5 DEF AreTargetsOf
    <3> QED  BY <2>2, <3>1, <3>6
  <2>5. CASE n # at.node
    <3>1. line.source # Spell(v, paths[n])
      BY <1>3, <1>6, <2>1, <2>5
    <3> QED  BY <1>9, <2>1, <2>2, <2>5, <3>1
  <2> QED  BY <2>4, <2>5
<1>11. ASSUME NEW k \in 1 .. Len(more)
       PROVE  \E n \in DOMAIN set : more[k].source = Spell(v, paths[n])
  <2>1. CASE k = Len(lines) + 1
    <3>1. more[k] = line
      BY <2>1
    <3> HIDE DEF more
    <3> QED  BY <1>3, <1>9, <3>1
  <2>2. CASE k # Len(lines) + 1
    <3>1. k \in 1 .. Len(lines) /\ more[k] = lines[k]
      BY <2>2
    <3>2. PICK m \in DOMAIN trie : lines[k].source = Spell(v, path[m])
      BY <3>1 DEF IsTableOf
    <3>3. m \in DOMAIN set /\ paths[m] = path[m]
      BY <1>3, <1>4, <1>9
    <3> QED  BY <3>1, <3>2, <3>3
  <2> QED  BY <2>1, <2>2
<1>12. IsTableOf(set, paths, v, more)
  BY <1>9, <1>10, <1>11 DEF IsTableOf
<1> QED  BY <1>12 DEF set, at

-----------------------------------------------------------------------------
(* The invariant of the table, whatever becomes of its translations. *)

TableInv ==
  /\ file \in Seq(LineRecords)
  /\ vocab \in Vocabularies
  /\ input \in Seq(Seq(Words))
  /\ \E path : IsTableOf(root, path, vocab, file)
  /\ input = <<>> => tpsVec = <<>>
  /\ input # <<>> =>
       \A r \in DOMAIN tpsVec : AreTargetsOf(tpsVec[r], vocab, LinesOf(r))

LEMMA EmptyTableIsRight ==
  ASSUME TableInit
  PROVE  TableInv
<1> DEFINE path == <<(<<>>)>>
<1>1. vocab \in Vocabularies
  <2>1. vocab = [coll |-> <<>>, collInv |-> <<>>]
    BY DEF TableInit, EmptyVocabulary
  <2> DEFINE none == <<>>
  <2>2. none \in Seq(Words) /\ Len(none) = 0 /\ DOMAIN none = {}
    OBVIOUS
  <2>3. none \in UNION {[D -> Nat] : D \in SUBSET Words}
    <3>1. none \in [{} -> Nat] /\ {} \in SUBSET Words
      OBVIOUS
    <3> HIDE DEF none
    <3> QED  BY <3>1
  <2> HIDE DEF none
  <2>4. vocab.coll = none /\ vocab.collInv = none
        /\ vocab \in [coll : Seq(Words), collInv : UNION {[D -> Nat] : D \in SUBSET Words}]
    BY <2>1, <2>2, <2>3 DEF none
  <2> QED  BY <2>2, <2>4 DEF Vocabularies
<1>2. /\ IsTrie(root, path, Ids(vocab))
      /\ DOMAIN root = {Root}
      /\ root[Root].value = <<>>
  BY EmptyTrieIsTrie DEF TableInit, NoTargetPhrases
<1>3. file = <<>> /\ file \in Seq(LineRecords)
  BY DEF TableInit
<1>4. LinesWith(file, Spell(vocab, path[Root])) = <<>>
  <2>1. \A n \in 1 .. Len(file) : file[n].source # Spell(vocab, path[Root])
    BY <1>3
  <2> HIDE DEF path
  <2> QED  BY <1>3, <2>1, NoLinesFound
<1>5. AreTargetsOf(<<>>, vocab, <<>>)
  BY DEF AreTargetsOf
<1> HIDE DEF path
<1>6. IsTableOf(root, path, vocab, file)
  BY <1>2, <1>3, <1>4, <1>5 DEF IsTableOf
<1>7. input = <<>> /\ tpsVec = <<>> /\ input \in Seq(Seq(Words))
  BY DEF TableInit
<1> QED  BY <1>1, <1>3, <1>6, <1>7 DEF TableInv

LEMMA LoadLineKeeps ==
  ASSUME TableInv, NEW source \in Seq(Words), NEW target \in Seq(Words),
         LoadLine(source, target)
  PROVE  TableInv'
<1> DEFINE between == WithWords(vocab, source)
           after   == WithWords(between, target)
           sourceIds == GetOrCreateIds(vocab, source)
           targetIds == GetOrCreateIds(between, target)
           line == [source |-> source, target |-> target]
           at   == AddOrCreateNode(root, sourceIds, NoTargetPhrases)
           set  == [at.trie EXCEPT ![at.node].value = WithTargetPhrase(@, targetIds)]
           more == Append(file, line)
<1>1. /\ input = <<>> /\ input' = input /\ tpsVec' = tpsVec
      /\ file' = more /\ vocab' = after /\ root' = set
  BY DEF LoadLine
<1>2. PICK path : IsTableOf(root, path, vocab, file)
  BY DEF TableInv
<1>3. /\ file \in Seq(LineRecords) /\ vocab \in Vocabularies /\ input \in Seq(Seq(Words))
      /\ tpsVec = <<>>
  BY <1>1 DEF TableInv
<1>4. line \in LineRecords /\ line.source = source /\ line.target = target
  BY DEF LineRecords
<1>5. between \in Vocabularies /\ Extends(vocab, between)
  BY <1>3, WordsAreAdded
<1>6. sourceIds \in Seq(Ids(between)) /\ Spell(between, sourceIds) = source
  BY <1>3, IdsSpellTheWords
<1> HIDE DEF between, sourceIds
<1>7. after \in Vocabularies /\ Extends(between, after)
  BY <1>5, WordsAreAdded
<1>8. targetIds \in Seq(Ids(after)) /\ Spell(after, targetIds) = target
  BY <1>5, IdsSpellTheWords
<1> HIDE DEF after, targetIds
<1>9. sourceIds \in Seq(Ids(after)) /\ Spell(after, sourceIds) = source
  BY <1>5, <1>6, <1>7, SpelledAlike
<1>10. Extends(vocab, after)
  BY <1>3, <1>5, <1>7, ExtendsIsTransitive
<1>11. IsTableOf(root, path, after, file)
  BY <1>2, <1>3, <1>7, <1>10, TableStays
<1> HIDE DEF line
<1>12. \E paths : IsTableOf(set, paths, after, more)
  BY <1>3, <1>4, <1>7, <1>8, <1>9, <1>11, LineIsLoaded
<1>13. more \in Seq(LineRecords)
  BY <1>3, <1>4
<1> HIDE DEF more, set
<1>14. \E paths : IsTableOf(root', paths, vocab', file')
  BY <1>1, <1>12
<1>15. file' \in Seq(LineRecords) /\ vocab' \in Vocabularies /\ input' \in Seq(Seq(Words))
       /\ input' = <<>> /\ tpsVec' = <<>>
  BY <1>1, <1>3, <1>7, <1>13
<1> QED  BY <1>14, <1>15 DEF TableInv

LEMMA LastIsAppended ==
  ASSUME NEW S, NEW s \in Seq(S), NEW x \in S
  PROVE  Append(s, x) \in Seq(S) /\ Last(Append(s, x)) = x /\ Append(s, x) # <<>>
BY DEF Last

LEMMA TranslateKeeps ==
  ASSUME TableInv, NEW sentence \in Seq(Words), Translate(sentence)
  PROVE  /\ TableInv'
         /\ input' # <<>>
<1> DEFINE after == WithWords(vocab, sentence)
           ids   == GetOrCreateIds(vocab, sentence)
<1>1. /\ input' = Append(input, sentence) /\ vocab' = after
      /\ tpsVec' = [r \in {s \in [start : PositionsOf(sentence),
                                  end : PositionsOf(sentence)] : s.start <= s.end}
                      |-> TargetPhrasesOf(ids, r.start, r.end)]
      /\ file' = file /\ root' = root
  BY DEF Translate
<1>2. PICK path : IsTableOf(root, path, vocab, file)
  BY DEF TableInv
<1>3. /\ file \in Seq(LineRecords) /\ vocab \in Vocabularies /\ input \in Seq(Seq(Words))
  BY DEF TableInv
<1>4. after \in Vocabularies /\ Extends(vocab, after)
  BY <1>3, WordsAreAdded
<1>5. ids \in Seq(Ids(after)) /\ Spell(after, ids) = sentence
  BY <1>3, IdsSpellTheWords
<1> HIDE DEF after, ids
<1>6. IsTableOf(root, path, after, file)
  BY <1>2, <1>3, <1>4, TableStays
<1>7. ASSUME NEW r \in DOMAIN tpsVec'
      PROVE  AreTargetsOf(tpsVec'[r], after,
                          LinesWith(file, SubSeq(sentence, r.start + 1, r.end + 1)))
  <2> DEFINE first == r.start + 1
             last  == r.end + 1
             phrase == SubSeq(ids, first, last)
  <2>1. r.start \in PositionsOf(sentence) /\ r.end \in PositionsOf(sentence) /\ r.start <= r.end
        /\ tpsVec'[r] = TargetPhrasesOf(ids, r.start, r.end)
    BY <1>1
  <2>2. Len(ids) = Len(sentence) /\ Len(ids) \in Nat
    BY <1>4, <1>5, Spelled
  <2>3. first \in 1 .. Len(ids) /\ last \in first .. Len(ids)
    BY <2>1, <2>2 DEF PositionsOf
  <2>4. phrase \in Seq(Ids(after)) /\ Spell(after, phrase) = SubSeq(sentence, first, last)
    <3> HIDE DEF first, last
    <3> QED  BY <1>4, <1>5, <2>3, SpellOfSpan
  <2>5. tpsVec'[r] = LET node == NodeAt(root, phrase)
                     IN  IF node = NULL THEN NoTargetPhrases ELSE root[node].value
    BY <2>1 DEF TargetPhrasesOf, Lookup
  <2> HIDE DEF first, last, phrase
  <2>6. AreTargetsOf(tpsVec'[r], after, LinesWith(file, Spell(after, phrase)))
    BY <1>3, <1>4, <1>6, <2>4, <2>5, PhraseIsFound
  <2> QED  BY <2>4, <2>6 DEF first, last
<1>8. input' \in Seq(Seq(Words)) /\ Last(input') = sentence /\ input' # <<>>
  <2> DEFINE S == Seq(Words)
  <2>1. input \in Seq(S) /\ sentence \in S
    BY <1>3
  <2> HIDE DEF S
  <2>2. Append(input, sentence) \in Seq(S) /\ Last(Append(input, sentence)) = sentence
        /\ Append(input, sentence) # <<>>
    BY <2>1, LastIsAppended
  <2> QED  BY <1>1, <2>2 DEF S
<1>9. \A r \in DOMAIN tpsVec' : AreTargetsOf(tpsVec'[r], vocab', LinesOf(r)')
  BY <1>1, <1>7, <1>8 DEF LinesOf
<1>10. file' \in Seq(LineRecords) /\ vocab' \in Vocabularies
       /\ \E paths : IsTableOf(root', paths, vocab', file')
  BY <1>1, <1>3, <1>4, <1>6
<1> QED  BY <1>8, <1>9, <1>10 DEF TableInv

LEMMA TableUnchanged ==
  ASSUME TableInv, UNCHANGED tableVars
  PROVE  TableInv'
BY DEF TableInv, tableVars, LinesOf

-----------------------------------------------------------------------------
(* The chain of hypotheses. *)

HypothesesOver(S) == [targetPhrase : Seq(S), startPos : Nat, endPos : Nat]

WordsOf(c) == FlattenSeq([n \in DOMAIN c |-> c[n].targetPhrase])

\* GetWord and WordsReadBack of a chain c.
WordAt(c, n, wordPos) ==
  LET reached == {m \in 1 .. n : ~(wordPos < c[m].startPos)}
      h       == c[Side!Max(reached)]
      offset  == wordPos - h.startPos
  IN  IF reached # {} /\ offset < Len(h.targetPhrase)
      THEN {h.targetPhrase[offset + 1]}
      ELSE {}

ReadsBack(c) ==
  \A n \in DOMAIN c :
    \A p \in 1 .. Len(WordsOf(SubSeq(c, 1, n))) :
      WordAt(c, n, p - 1) = {WordsOf(SubSeq(c, 1, n))[p]}

LEMMA SideReadsBack == WordsReadBack <=> ReadsBack(chain)
BY DEF WordsReadBack, Side!WordsReadBack, ReadsBack, WordAt, Side!GetWord, Side!WordsOf,
       WordsOf, Side!FlattenSeq, FlattenSeq

LEMMA SideWordsOf ==
  ASSUME NEW c
  PROVE  Side!WordsOf(c) = WordsOf(c)
BY DEF Side!WordsOf, WordsOf, Side!FlattenSeq, FlattenSeq

LEMMA PhrasesOfChain ==
  ASSUME NEW S, NEW c \in Seq(HypothesesOver(S))
  PROVE  [n \in DOMAIN c |-> c[n].targetPhrase] \in Seq(Seq(S))
<1> DEFINE T == Seq(S)
           phrases == [n \in DOMAIN c |-> c[n].targetPhrase]
<1>1. Len(c) \in Nat /\ DOMAIN c = 1 .. Len(c)
  OBVIOUS
<1>2. \A n \in 1 .. Len(c) : c[n] \in HypothesesOver(S)
  OBVIOUS
<1>3. \A n \in 1 .. Len(c) : c[n].targetPhrase \in T
  BY <1>2 DEF HypothesesOver
<1> HIDE DEF T
<1>4. phrases \in [1 .. Len(c) -> T]
  BY <1>1, <1>3
<1> HIDE DEF phrases
<1>5. phrases \in Seq(T)
  BY <1>1, <1>4, SeqDef
<1> QED  BY <1>5 DEF T, phrases

LEMMA WordsOfLonger ==
  ASSUME NEW S, NEW c \in Seq(HypothesesOver(S)), NEW h \in HypothesesOver(S)
  PROVE  /\ WordsOf(c) \in Seq(S)
         /\ WordsOf(Append(c, h)) = WordsOf(c) \o h.targetPhrase
<1> DEFINE phrases == [n \in DOMAIN c |-> c[n].targetPhrase]
           more == Append(c, h)
           longer == [n \in DOMAIN more |-> more[n].targetPhrase]
           N == Len(c)
<1>1. N \in Nat /\ DOMAIN c = 1 .. N /\ DOMAIN more = 1 .. N + 1 /\ more[N + 1] = h
      /\ (\A n \in 1 .. N : more[n] = c[n]) /\ more \in Seq(HypothesesOver(S)) /\ Len(more) = N + 1
  OBVIOUS
<1>2. phrases \in Seq(Seq(S)) /\ longer \in Seq(Seq(S))
  <2> HIDE DEF more
  <2> QED  BY <1>1, PhrasesOfChain
<1>3. h.targetPhrase \in Seq(S)
  BY DEF HypothesesOver
<1> HIDE DEF more
<1>4. longer = Append(phrases, h.targetPhrase)
  <2>1. Len(phrases) = N /\ \A n \in 1 .. N : phrases[n] = c[n].targetPhrase
    BY <1>1, <1>2
  <2>2. Len(longer) = N + 1 /\ \A n \in 1 .. N + 1 : longer[n] = more[n].targetPhrase
    BY <1>1, <1>2
  <2> HIDE DEF phrases, longer
  <2> DEFINE T == Seq(S)
             x == h.targetPhrase
  <2>3. phrases \in Seq(T) /\ longer \in Seq(T) /\ x \in T
    BY <1>2, <1>3
  <2> HIDE DEF T, x
  <2>4. /\ Append(phrases, x) \in Seq(T) /\ Len(Append(phrases, x)) = N + 1
        /\ Append(phrases, x)[N + 1] = x
        /\ \A n \in 1 .. N : Append(phrases, x)[n] = phrases[n]
    BY <2>1, <2>3
  <2>5. ASSUME NEW n \in 1 .. N + 1
        PROVE  longer[n] = Append(phrases, x)[n]
    <3>1. CASE n = N + 1
      BY <1>1, <2>2, <2>4, <3>1 DEF x
    <3>2. CASE n # N + 1
      <4>1. n \in 1 .. N
        BY <1>1, <3>2
      <4> QED  BY <1>1, <2>1, <2>2, <2>4, <4>1
    <3> QED  BY <3>1, <3>2
  <2>6. longer = Append(phrases, x)
    BY <2>2, <2>3, <2>4, <2>5, SeqEqual
  <2> QED  BY <2>6 DEF x
<1>5. /\ FlattenSeq(phrases) \in Seq(S)
      /\ FlattenSeq(longer) = FlattenSeq(phrases) \o h.targetPhrase
  <2> HIDE DEF phrases, longer
  <2> QED  BY <1>2, <1>3, <1>4, JoinedWithOneMore
<1> QED  BY <1>5 DEF WordsOf, more

LEMMA NoWordsYet == WordsOf(<<>>) = <<>>
<1>1. [n \in DOMAIN (<<>>) |-> (<<>>)[n].targetPhrase] = <<>>
  OBVIOUS
<1> QED  BY <1>1, NoneJoined DEF WordsOf

\* The words up to the end of a phrase.
LEMMA WordsUpTo ==
  ASSUME NEW S, NEW c \in Seq(HypothesesOver(S)), NEW n \in 1 .. Len(c)
  PROVE  /\ WordsOf(SubSeq(c, 1, n - 1)) \in Seq(S)
         /\ c[n].targetPhrase \in Seq(S)
         /\ WordsOf(SubSeq(c, 1, n)) = WordsOf(SubSeq(c, 1, n - 1)) \o c[n].targetPhrase
<1> DEFINE before == SubSeq(c, 1, n - 1)
<1>1. before \in Seq(HypothesesOver(S)) /\ c[n] \in HypothesesOver(S)
  OBVIOUS
<1>2. SubSeq(c, 1, n) = Append(before, c[n])
  <2> DEFINE H == HypothesesOver(S)
  <2>1. c \in Seq(H)
    OBVIOUS
  <2> HIDE DEF H
  <2> QED  BY <2>1
<1> HIDE DEF before
<1>3. c[n].targetPhrase \in Seq(S)
  BY <1>1 DEF HypothesesOver
<1> QED  BY <1>1, <1>2, <1>3, WordsOfLonger DEF before

\* A set of positive numbers up to a bound has a greatest element.
LEMMA Greatest ==
  ASSUME NEW N \in Nat, NEW R \in SUBSET (1 .. N), R # {}
  PROVE  Side!Max(R) \in R /\ \A y \in R : y <= Side!Max(R)
<1> DEFINE below == {N - x : x \in R}
<1>1. below \in SUBSET Nat /\ below # {}
  <2>1. \A x \in R : N - x \in Nat
    OBVIOUS
  <2> QED  BY <2>1
<1>2. PICK least \in below : \A y \in below : least <= y
  <2> HIDE DEF below
  <2> QED  BY <1>1, LeastNatural
<1>3. PICK x \in R : least = N - x
  BY <1>2
<1>4. \A y \in R : x >= y
  <2> SUFFICES ASSUME NEW y \in R
               PROVE  x >= y
    OBVIOUS
  <2>1. N - y \in below /\ y \in 1 .. N /\ x \in 1 .. N
    OBVIOUS
  <2>2. N - x <= N - y
    BY <1>2, <1>3, <2>1
  <2> QED  BY <2>1, <2>2
<1>5. \E z \in R : \A y \in R : z >= y
  BY <1>4
<1>6. Side!Max(R) \in R /\ \A y \in R : Side!Max(R) >= y
  BY <1>5 DEF Side!Max
<1> QED  BY <1>6

LEMMA ReadsBackGrows ==
  ASSUME NEW S, NEW c \in Seq(HypothesesOver(S)), NEW h \in HypothesesOver(S),
         Len(c) > 0, ReadsBack(c), h.startPos = Len(WordsOf(c))
  PROVE  ReadsBack(Append(c, h))
<1> DEFINE more == Append(c, h)
           N == Len(c)
           words(n) == WordsOf(SubSeq(c, 1, n))
           longer(n) == WordsOf(SubSeq(more, 1, n))
           all == WordsOf(more)
           E == Len(WordsOf(c))
           tp == h.targetPhrase
<1>1. N \in Nat \ {0} /\ DOMAIN c = 1 .. N /\ DOMAIN more = 1 .. N + 1 /\ more[N + 1] = h
      /\ (\A n \in 1 .. N : more[n] = c[n]) /\ more \in Seq(HypothesesOver(S)) /\ Len(more) = N + 1
  OBVIOUS
<1>2. (\A n \in 1 .. N : SubSeq(more, 1, n) = SubSeq(c, 1, n))
      /\ SubSeq(c, 1, N) = c /\ SubSeq(more, 1, N + 1) = more
  <2> DEFINE H == HypothesesOver(S)
  <2>1. c \in Seq(H) /\ h \in H
    OBVIOUS
  <2> HIDE DEF H
  <2> QED  BY <2>1
<1>3. /\ WordsOf(c) \in Seq(S) /\ tp \in Seq(S) /\ all = WordsOf(c) \o tp /\ E \in Nat
      /\ Len(tp) \in Nat
  <2>1. WordsOf(c) \in Seq(S) /\ all = WordsOf(c) \o tp
    BY WordsOfLonger
  <2>2. tp \in Seq(S)
    BY DEF HypothesesOver
  <2> HIDE DEF all, tp
  <2> QED  BY <2>1, <2>2
<1> HIDE DEF more
<1>4. ASSUME NEW n \in 1 .. N, NEW p \in 1 .. Len(longer(n))
      PROVE  WordAt(more, n, p - 1) = {longer(n)[p]}
  <2>1. longer(n) = words(n) /\ n \in DOMAIN c
    BY <1>1, <1>2
  <2>2. p \in 1 .. Len(words(n))
    BY <2>1
  <2>3. WordAt(c, n, p - 1) = {words(n)[p]}
    BY <2>1, <2>2 DEF ReadsBack
  <2> DEFINE reached == {m \in 1 .. n : ~(p - 1 < c[m].startPos)}
             again == {m \in 1 .. n : ~(p - 1 < more[m].startPos)}
  <2>4. again = reached
    BY <1>1
  <2>5. reached # {}
    BY <2>3 DEF WordAt
  <2>6. Side!Max(reached) \in 1 .. N
    <3>1. reached \in SUBSET (1 .. n) /\ n \in Nat
      BY <1>1
    <3> HIDE DEF reached
    <3>2. Side!Max(reached) \in 1 .. n
      BY <2>5, <3>1, Greatest
    <3> QED  BY <1>1, <3>2
  <2>7. more[Side!Max(again)] = c[Side!Max(reached)]
    BY <1>1, <2>4, <2>6
  <2>8. WordAt(more, n, p - 1) = WordAt(c, n, p - 1)
    BY <2>4, <2>7 DEF WordAt
  <2> QED  BY <2>1, <2>3, <2>8
<1>5. ASSUME NEW p \in 1 .. Len(all)
      PROVE  WordAt(more, N + 1, p - 1) = {all[p]}
  <2> DEFINE reached == {m \in 1 .. N + 1 : ~(p - 1 < more[m].startPos)}
             before == {m \in 1 .. N : ~(p - 1 < c[m].startPos)}
  <2> HIDE DEF E, tp
  <2>0. Len(all) = E + Len(tp) /\ h.startPos = E /\ p \in Nat
    BY <1>3 DEF E
  <2>1. CASE p <= E
    <3>1. N + 1 \notin reached
      BY <1>1, <1>3, <2>0, <2>1
    <3>2. reached = before
      BY <1>1, <3>1
    <3>3. all[p] = WordsOf(c)[p] /\ p \in 1 .. Len(WordsOf(c))
      BY <1>3, <2>1 DEF E
    <3>4. WordAt(c, N, p - 1) = {WordsOf(c)[p]}
      <4>1. N \in DOMAIN c
        BY <1>1
      <4>2. SubSeq(c, 1, N) = c
        BY <1>2
      <4> HIDE DEF N
      <4> QED  BY <3>3, <4>1, <4>2 DEF ReadsBack
    <3>5. before # {}
      BY <3>4 DEF WordAt
    <3>6. Side!Max(before) \in 1 .. N
      <4>1. before \in SUBSET (1 .. N) /\ N \in Nat
        BY <1>1
      <4> HIDE DEF before
      <4> QED  BY <3>5, <4>1, Greatest
    <3>7. more[Side!Max(reached)] = c[Side!Max(before)]
      BY <1>1, <3>2, <3>6
    <3>8. WordAt(more, N + 1, p - 1) = WordAt(c, N, p - 1)
      BY <3>2, <3>7 DEF WordAt
    <3> QED  BY <3>3, <3>4, <3>8
  <2>2. CASE p > E
    <3>1. N + 1 \in reached
      BY <1>1, <1>3, <2>0, <2>2
    <3>2. Side!Max(reached) = N + 1
      <4>1. reached \in SUBSET (1 .. N + 1) /\ N + 1 \in Nat
        BY <1>1
      <4> HIDE DEF reached
      <4>2. Side!Max(reached) \in 1 .. N + 1 /\ N + 1 <= Side!Max(reached)
        BY <3>1, <4>1, Greatest
      <4> QED  BY <1>1, <4>2
    <3>3. more[Side!Max(reached)] = h
      BY <1>1, <3>2
    <3>4. p - 1 - E < Len(tp) /\ p - 1 - E + 1 = p - E /\ p - E \in 1 .. Len(tp)
      BY <1>3, <2>0, <2>2
    <3>5. reached # {}
      BY <3>1
    <3>6. WordAt(more, N + 1, p - 1) = {tp[p - 1 - E + 1]}
      BY <2>0, <3>3, <3>4, <3>5 DEF WordAt, tp
    <3>7. all[p] = tp[p - E]
      BY <1>3, <2>0, <2>2, <3>4 DEF E
    <3> QED  BY <3>4, <3>6, <3>7
  <2> QED  BY <1>3, <2>0, <2>1, <2>2
<1>6. ASSUME NEW n \in DOMAIN more, NEW p \in 1 .. Len(longer(n))
      PROVE  WordAt(more, n, p - 1) = {longer(n)[p]}
  <2>1. CASE n \in 1 .. N
    BY <1>4, <2>1
  <2>2. CASE n = N + 1
    BY <1>2, <1>5, <2>2
  <2> QED  BY <1>1, <2>1, <2>2
<1> QED  BY <1>6 DEF ReadsBack, more

LEMMA Wrapped ==
  ASSUME NEW a \in Nat, NEW b \in Nat, a + b < SizeT
  PROVE  /\ (a + b) % SizeT = a + b
         /\ a + b > 0 => (SizeT - 1 + (a + b)) % SizeT = a + b - 1
         /\ (SizeT - 1) % SizeT = SizeT - 1
<1>1. SizeT \in Nat \ {0}
  BY SizesAssumption
<1> DEFINE x == a + b
<1>2. x \in Nat /\ x < SizeT
  OBVIOUS
<1> HIDE DEF x
<1>3. x % SizeT = x
  BY <1>1, <1>2
<1>4. (SizeT - 1) % SizeT = SizeT - 1
  BY <1>1
<1>5. x > 0 => (SizeT - 1 + x) % SizeT = x - 1
  <2> SUFFICES ASSUME x > 0
               PROVE  (SizeT - 1 + x) % SizeT = x - 1
    OBVIOUS
  <2> DEFINE y == x - 1
  <2>1. y \in Nat /\ y < SizeT /\ SizeT - 1 + x = y + SizeT
    BY <1>1, <1>2
  <2> HIDE DEF y
  <2>2. (y + SizeT) % SizeT = y
    BY <1>1, <2>1
  <2> QED  BY <2>1, <2>2 DEF y
<1> QED  BY <1>3, <1>4, <1>5 DEF x

\* A chain, and the target sides that its phrases were made of.
ChainInv(c, v, targets) ==
  /\ c \in Seq(HypothesesOver(Ids(v))) /\ Len(c) > 0
  /\ ReadsBack(c)
  /\ Len(WordsOf(c)) <= Capacity
  /\ c[Len(c)].endPos = IF Len(WordsOf(c)) = 0 THEN SizeT - 1 ELSE Len(WordsOf(c)) - 1
  /\ targets \in Seq(Seq(Words))
  /\ Spell(v, WordsOf(c)) = FlattenSeq(targets)

LEMMA FreshChain ==
  ASSUME NEW v \in Vocabularies
  PROVE  /\ ChainInv(<<Side!EmptyHypothesis>>, v, <<>>)
         /\ WordsOf(<<Side!EmptyHypothesis>>) = <<>>
<1> DEFINE none == Side!EmptyHypothesis
           S == Ids(v)
           c == <<none>>
<1>1. none \in HypothesesOver(S) /\ none.targetPhrase = <<>> /\ none.endPos = SizeT - 1
  BY SizesAssumption DEF Side!EmptyHypothesis, HypothesesOver
<1> HIDE DEF none, S
<1>2. c \in Seq(HypothesesOver(S)) /\ Len(c) = 1 /\ c[1] = none /\ c = Append(<<>>, none)
      /\ DOMAIN c = {1} /\ SubSeq(c, 1, 1) = c
  <2> DEFINE H == HypothesesOver(S)
  <2>1. none \in H
    BY <1>1
  <2> HIDE DEF H
  <2>2. c \in Seq(H) /\ Len(c) = 1 /\ c[1] = none /\ DOMAIN c = {1}
    BY <2>1
  <2>3. c = Append(<<>>, none)
    OBVIOUS
  <2>4. SubSeq(c, 1, 1) = c
    <3> HIDE DEF c
    <3> QED  BY <2>2, SubSeqFull
  <2> QED  BY <2>2, <2>3, <2>4 DEF H
<1>3. WordsOf(c) = <<>>
  <2>1. <<>> \in Seq(HypothesesOver(S))
    OBVIOUS
  <2>2. WordsOf(Append(<<>>, none)) = WordsOf(<<>>) \o none.targetPhrase
    BY <1>1, <2>1, WordsOfLonger
  <2> QED  BY <1>1, <1>2, <2>2, NoWordsYet
<1> HIDE DEF c
<1>4. ReadsBack(c)
  <2>1. Len(WordsOf(c)) = 0 /\ 1 .. 0 = {}
    BY <1>3
  <2>2. \A n \in DOMAIN c : SubSeq(c, 1, n) = c
    BY <1>2
  <2> QED  BY <2>1, <2>2 DEF ReadsBack
<1>5. Spell(v, <<>>) = <<>>
  BY DEF Spell
<1>6. Len(WordsOf(c)) = 0 /\ 0 <= Capacity
  BY <1>3, SizesAssumption
<1>7. <<>> \in Seq(Seq(Words))
  OBVIOUS
<1>8. ChainInv(c, v, <<>>)
  BY <1>1, <1>2, <1>3, <1>4, <1>5, <1>6, <1>7, NoneJoined DEF ChainInv, S
<1> QED  BY <1>3, <1>8 DEF c, none

LEMMA ChainGrows ==
  ASSUME NEW v \in Vocabularies, NEW c, NEW targets, ChainInv(c, v, targets),
         NEW tp \in Seq(Ids(v)), NEW target \in Seq(Words), Spell(v, tp) = target,
         Len(WordsOf(c)) + Len(tp) <= Capacity
  PROVE  LET range == Side!NewRange(Side!Last(c), tp)
             h == [targetPhrase |-> tp, startPos |-> range.startPos, endPos |-> range.endPos]
         IN  /\ ChainInv(Append(c, h), v, Append(targets, target))
             /\ WordsOf(Append(c, h)) = WordsOf(c) \o tp
<1> DEFINE S == Ids(v)
           last == c[Len(c)]
           range == Side!NewRange(Side!Last(c), tp)
           h == [targetPhrase |-> tp, startPos |-> range.startPos, endPos |-> range.endPos]
           more == Append(c, h)
           E == Len(WordsOf(c))
           L == Len(tp)
<1>1. /\ c \in Seq(HypothesesOver(S)) /\ Len(c) > 0 /\ ReadsBack(c) /\ E <= Capacity
      /\ last.endPos = IF E = 0 THEN SizeT - 1 ELSE E - 1
      /\ targets \in Seq(Seq(Words)) /\ Spell(v, WordsOf(c)) = FlattenSeq(targets)
  BY DEF ChainInv
<1>2. WordsOf(c) \in Seq(S) /\ E \in Nat /\ L \in Nat /\ E + L < SizeT
  <2>1. WordsOf(c) \in Seq(S)
    <3>1. Side!EmptyHypothesis \in HypothesesOver(S)
      BY SizesAssumption DEF Side!EmptyHypothesis, HypothesesOver
    <3> HIDE DEF S
    <3> QED  BY <1>1, <3>1, WordsOfLonger
  <2>2. E \in Nat
    BY <2>1
  <2>3. L \in Nat
    OBVIOUS
  <2> HIDE DEF E, L
  <2>4. E + L <= Capacity
    BY DEF E, L
  <2> QED  BY <2>1, <2>2, <2>3, <2>4, SizesAssumption
<1>3. /\ range.startPos = (last.endPos + 1) % SizeT
      /\ range.endPos = (last.endPos + L) % SizeT
  BY DEF Side!NewRange, Side!Last
<1> HIDE DEF last, range, E, L
<1>4. range.startPos = E
  <2>1. CASE E = 0
    <3>1. last.endPos + 1 = SizeT /\ SizeT \in Nat \ {0}
      BY <1>1, <2>1, SizesAssumption
    <3>2. SizeT % SizeT = 0
      BY <3>1
    <3> QED  BY <1>3, <2>1, <3>1, <3>2
  <2>2. CASE E # 0
    <3>1. last.endPos + 1 = E
      BY <1>1, <1>2, <2>2
    <3>2. (E + 0) % SizeT = E + 0
      <4>1. E + 0 < SizeT /\ 0 \in Nat
        BY <1>2, SizesAssumption
      <4> QED  BY <1>2, <4>1, Wrapped
    <3>3. E + 0 = E
      BY <1>2
    <3> QED  BY <1>3, <3>1, <3>2, <3>3
  <2> QED  BY <2>1, <2>2
<1>5. range.endPos = IF E + L = 0 THEN SizeT - 1 ELSE E + L - 1
  <2>0. /\ (E + L) % SizeT = E + L
        /\ E + L > 0 => (SizeT - 1 + (E + L)) % SizeT = E + L - 1
        /\ (SizeT - 1) % SizeT = SizeT - 1
    BY <1>2, Wrapped
  <2>1. CASE E = 0
    <3>1. last.endPos + L = SizeT - 1 + (E + L) /\ (E + L = 0 \/ E + L > 0)
      BY <1>1, <1>2, <2>1, SizesAssumption
    <3>2. CASE E + L = 0
      <4>1. SizeT - 1 + (E + L) = SizeT - 1
        BY <3>2, SizesAssumption
      <4> QED  BY <1>3, <2>0, <3>1, <3>2, <4>1
    <3>3. CASE E + L > 0
      BY <1>3, <2>0, <3>1, <3>3
    <3> QED  BY <3>1, <3>2, <3>3
  <2>2. CASE E # 0
    <3> DEFINE F == E - 1
    <3>1. last.endPos + L = F + L /\ F \in Nat /\ F + L < SizeT /\ F + L = E + L - 1 /\ E + L # 0
      BY <1>1, <1>2, <2>2, SizesAssumption
    <3> HIDE DEF F
    <3>2. (F + L) % SizeT = F + L
      BY <1>2, <3>1, Wrapped
    <3> QED  BY <1>3, <3>1, <3>2
  <2> QED  BY <2>1, <2>2
<1>6. h \in HypothesesOver(S) /\ h.targetPhrase = tp /\ h.startPos = E
      /\ h.endPos = IF E + L = 0 THEN SizeT - 1 ELSE E + L - 1
  <2>1. E + L - 1 \in Nat \/ E + L = 0
    BY <1>2
  <2>2. SizeT - 1 \in Nat
    BY SizesAssumption
  <2> QED  BY <1>2, <1>4, <1>5, <2>1, <2>2 DEF HypothesesOver
<1> HIDE DEF h
<1>7. more \in Seq(HypothesesOver(S)) /\ Len(more) = Len(c) + 1 /\ more[Len(c) + 1] = h /\ Len(c) \in Nat
  BY <1>1, <1>6
<1>8. WordsOf(more) = WordsOf(c) \o tp
  <2> HIDE DEF S
  <2> QED  BY <1>1, <1>6, WordsOfLonger
<1>9. ReadsBack(more)
  <2> HIDE DEF S
  <2> QED  BY <1>1, <1>6, ReadsBackGrows DEF E
<1>10. Len(WordsOf(more)) = E + L
  BY <1>2, <1>8 DEF E, L
<1>11. /\ Append(targets, target) \in Seq(Seq(Words))
       /\ FlattenSeq(Append(targets, target)) = FlattenSeq(targets) \o target
  <2>1. FlattenSeq(Append(targets, target)) = FlattenSeq(targets) \o target
    BY <1>1, JoinedWithOneMore
  <2> DEFINE T == Seq(Words)
  <2>2. targets \in Seq(T) /\ target \in T
    BY <1>1
  <2> HIDE DEF T
  <2>3. Append(targets, target) \in Seq(T)
    BY <2>2
  <2> QED  BY <2>1, <2>3 DEF T
<1>12. Spell(v, WordsOf(more)) = FlattenSeq(Append(targets, target))
  <2>1. Spell(v, WordsOf(c) \o tp) = Spell(v, WordsOf(c)) \o Spell(v, tp)
    BY <1>2, SpellOfParts DEF S
  <2> QED  BY <1>1, <1>8, <1>11, <2>1
<1>13. E + L <= Capacity
  BY DEF E, L
<1> HIDE DEF more
<1>14. ChainInv(more, v, Append(targets, target))
  <2>1. /\ more[Len(more)].endPos = IF Len(WordsOf(more)) = 0 THEN SizeT - 1
                                    ELSE Len(WordsOf(more)) - 1
        /\ Len(more) > 0
    <3>1. more[Len(more)] = h /\ Len(more) > 0
      BY <1>7
    <3>2. h.endPos = IF E + L = 0 THEN SizeT - 1 ELSE E + L - 1
      BY <1>6
    <3>3. more[Len(more)].endPos = h.endPos
      BY <3>1
    <3>4. CASE E + L = 0
      BY <1>10, <3>1, <3>2, <3>3, <3>4
    <3>5. CASE E + L # 0
      <4>1. h.endPos = E + L - 1
        BY <3>2, <3>5
      <4>2. Len(WordsOf(more)) # 0 /\ Len(WordsOf(more)) - 1 = E + L - 1
        BY <1>2, <1>10, <3>5
      <4> QED  BY <3>1, <3>3, <4>1, <4>2
    <3> QED  BY <3>4, <3>5
  <2>2. Len(WordsOf(more)) <= Capacity
    BY <1>10, <1>13
  <2> QED  BY <1>7, <1>9, <1>11, <1>12, <2>1, <2>2 DEF ChainInv, S
<1> QED  BY <1>8, <1>14 DEF more, h, range

-----------------------------------------------------------------------------
(* The words out of the device. *)

LEMMA IdentifierIsNotNoWord ==
  ASSUME NEW v \in Vocabularies
  PROVE  NoWord \notin Ids(v)
<1> DEFINE N == Len(v.coll)
           all == [k \in 1 .. N |-> v.coll[k]]
<1>1. v.coll \in Seq(Words) /\ N \in Nat
  BY DEF Vocabularies
<1>2. \A k \in 1 .. N : v.coll[k] \in Words /\ v.collInv[v.coll[k]] = k - 1
  BY <1>1 DEF Vocabularies
<1>3. all \in Injection(1 .. N, Words)
  <2>1. all \in [1 .. N -> Words]
    BY <1>2
  <2>2. \A a, b \in 1 .. N : all[a] = all[b] => a = b
    <3> SUFFICES ASSUME NEW a \in 1 .. N, NEW b \in 1 .. N, all[a] = all[b]
                 PROVE  a = b
      OBVIOUS
    <3>1. a - 1 = b - 1
      BY <1>2
    <3> QED  BY <3>1
  <2>3. DOMAIN all = 1 .. N
    OBVIOUS
  <2> HIDE DEF all
  <2> QED  BY <2>1, <2>2, <2>3 DEF Injection, IsInjective
<1>4. Cardinality(1 .. N) <= Cardinality(Words) /\ IsFiniteSet(1 .. N)
  BY <1>3, SizesAssumption, FS_Injection
<1>5. Cardinality(1 .. N) = N
  <2>1. 1 \in Int /\ N \in Int
    BY <1>1
  <2> HIDE DEF N
  <2> QED  BY <1>1, <2>1, FS_Interval
<1>6. N <= NoWord /\ NoWord \in Nat
  <2>1. Cardinality(Words) \in Nat
    BY SizesAssumption, FS_CardinalityType
  <2> HIDE DEF N
  <2> QED  BY <1>1, <1>4, <1>5, <2>1, SizesAssumption
<1> QED  BY <1>1, <1>6 DEF Ids

Backwards(out, n) == [k \in 1 .. n |-> out[n - k]]

Outputs(T) == [0 .. (Capacity - 1) -> T]

BlankFrom(out, n) == \A j \in n .. (Capacity - 1) : out[j] = NoWord

\* h is the hypothesis whose words are copied, k of them are left, p are out.
Copying(c, h, k, p, out) ==
  /\ h \in 1 .. Len(c) /\ k \in 0 .. Len(c[h].targetPhrase) /\ p \in 0 .. Capacity
  /\ BlankFrom(out, p)
  /\ WordsOf(c) = WordsOf(SubSeq(c, 1, h - 1))
                    \o (SubSeq(c[h].targetPhrase, 1, k) \o Backwards(out, p))

\* k pairs are exchanged.
Reversing(all, k, p, out) ==
  /\ p = Len(all) /\ k \in 0 .. (p \div 2)
  /\ BlankFrom(out, p)
  /\ \A j \in 0 .. (p - 1) :
       out[j] = IF j < k \/ j >= p - k THEN all[j + 1] ELSE all[p - j]

\* k words are printed.
Printing(all, k, out, text) ==
  /\ k \in 0 .. Len(all)
  /\ BlankFrom(out, Len(all))
  /\ \A j \in 0 .. (Len(all) - 1) : out[j] = all[j + 1]
  /\ text = SubSeq(all, 1, k)

LEMMA BackwardsIsASequence ==
  ASSUME NEW T, NEW out \in Outputs(T), NEW n \in 0 .. Capacity
  PROVE  /\ Backwards(out, n) \in Seq(T)
         /\ Len(Backwards(out, n)) = n
         /\ \A k \in 1 .. n : Backwards(out, n)[k] = out[n - k]
<1>1. n \in Nat
  BY SizesAssumption
<1>2. \A k \in 1 .. n : out[n - k] \in T
  <2> SUFFICES ASSUME NEW k \in 1 .. n
               PROVE  out[n - k] \in T
    OBVIOUS
  <2>1. n - k \in 0 .. Capacity - 1
    BY <1>1, SizesAssumption
  <2> QED  BY <2>1 DEF Outputs
<1>3. Backwards(out, n) \in [1 .. n -> T]
  BY <1>2 DEF Backwards
<1>4. Backwards(out, n) \in Seq(T) /\ Len(Backwards(out, n)) = n
  BY <1>1, <1>3, SeqDef
<1> QED  BY <1>4 DEF Backwards

LEMMA CopyBegins ==
  ASSUME NEW T, NEW c \in Seq(HypothesesOver(T)), Len(c) > 0, NEW out \in Outputs(T),
         BlankFrom(out, 0)
  PROVE  Copying(c, Len(c), Len(c[Len(c)].targetPhrase), 0, out)
<1> DEFINE N == Len(c)
           tp == c[N].targetPhrase
<1>1. N \in 1 .. Len(c)
  OBVIOUS
<1>2. /\ WordsOf(SubSeq(c, 1, N - 1)) \in Seq(T) /\ tp \in Seq(T)
      /\ WordsOf(SubSeq(c, 1, N)) = WordsOf(SubSeq(c, 1, N - 1)) \o tp
  <2> HIDE DEF N
  <2> QED  BY <1>1, WordsUpTo
<1>3. SubSeq(c, 1, N) = c
  BY SubSeqFull
<1> HIDE DEF N, tp
<1>4. SubSeq(tp, 1, Len(tp)) = tp /\ Len(tp) \in Nat
  BY <1>2, SubSeqFull
<1>5. Backwards(out, 0) = <<>>
  BY DEF Backwards
<1>6. tp \o <<>> = tp
  BY <1>2
<1>7. WordsOf(c) = WordsOf(SubSeq(c, 1, N - 1)) \o (SubSeq(tp, 1, Len(tp)) \o Backwards(out, 0))
  BY <1>2, <1>3, <1>4, <1>5, <1>6
<1>8. Len(tp) \in 0 .. Len(tp) /\ 0 \in 0 .. Capacity
  BY <1>4, SizesAssumption
<1>9. Copying(c, N, Len(tp), 0, out)
  BY <1>1, <1>7, <1>8 DEF Copying, tp
<1> QED  BY <1>9 DEF N, tp

LEMMA WordIsCopied ==
  ASSUME NEW T, NEW c \in Seq(HypothesesOver(T)), Len(WordsOf(c)) <= Capacity,
         NEW out \in Outputs(T), NEW h, NEW k, NEW p, Copying(c, h, k, p, out), k > 0
  PROVE  LET more == [out EXCEPT ![p] = c[h].targetPhrase[k]]
         IN  Copying(c, h, k - 1, p + 1, more) /\ more \in Outputs(T)
<1> DEFINE A == WordsOf(SubSeq(c, 1, h - 1))
           tp == c[h].targetPhrase
           x == tp[k]
           B == Backwards(out, p)
           more == [out EXCEPT ![p] = x]
           C == Backwards(more, p + 1)
<1>1. /\ h \in 1 .. Len(c) /\ k \in 1 .. Len(tp) /\ p \in 0 .. Capacity
      /\ BlankFrom(out, p)
      /\ WordsOf(c) = A \o (SubSeq(tp, 1, k) \o B)
  BY DEF Copying
<1>2. A \in Seq(T) /\ tp \in Seq(T)
  BY <1>1, WordsUpTo
<1>3. B \in Seq(T) /\ Len(B) = p /\ \A j \in 1 .. p : B[j] = out[p - j]
  BY <1>1, BackwardsIsASequence
<1>4. x \in T
  BY <1>1, <1>2
<1> HIDE DEF A, tp, B, x
<1>5. SubSeq(tp, 1, k) = Append(SubSeq(tp, 1, k - 1), x) /\ SubSeq(tp, 1, k - 1) \in Seq(T)
  BY <1>1, <1>2 DEF x
<1> DEFINE D == SubSeq(tp, 1, k - 1)
<1>a. D \in Seq(T) /\ SubSeq(tp, 1, k) = Append(D, x)
  BY <1>5
<1> HIDE DEF D
<1>6. p + 1 \in 0 .. Capacity /\ p \in 0 .. Capacity - 1
  <2>1. Len(A \o (Append(D, x) \o B)) = Len(A) + (Len(D) + 1 + p)
    <3>1. Append(D, x) \in Seq(T) /\ Len(Append(D, x)) = Len(D) + 1
      BY <1>4, <1>a
    <3> DEFINE E == Append(D, x)
    <3> HIDE DEF E
    <3>2. E \o B \in Seq(T) /\ Len(E \o B) = Len(E) + Len(B)
      BY <1>3, <3>1, SMTT(20) DEF E
    <3> DEFINE F == E \o B
    <3> HIDE DEF F
    <3>3. Len(A \o F) = Len(A) + Len(F)
      BY <1>2, <3>2 DEF F
    <3> QED  BY <1>3, <3>1, <3>2, <3>3 DEF E, F
  <2>2. Len(A) \in Nat /\ Len(D) \in Nat /\ p \in Nat
    BY <1>1, <1>2, <1>a, SizesAssumption
  <2>3. Len(A) + (Len(D) + 1 + p) <= Capacity
    BY <1>1, <1>a, <2>1
  <2> QED  BY <2>2, <2>3, SizesAssumption
<1>7. more \in Outputs(T) /\ more[p] = x /\ \A j \in 0 .. Capacity - 1 : j # p => more[j] = out[j]
  BY <1>4, <1>6 DEF Outputs
<1> HIDE DEF more
<1>8. C \in Seq(T) /\ Len(C) = p + 1 /\ \A j \in 1 .. p + 1 : C[j] = more[p + 1 - j]
  BY <1>6, <1>7, BackwardsIsASequence
<1> HIDE DEF C
<1>9. C = <<x>> \o B
  <2>1. /\ <<x>> \o B \in Seq(T) /\ Len(<<x>> \o B) = p + 1
        /\ (<<x>> \o B)[1] = x
        /\ \A j \in 2 .. p + 1 : (<<x>> \o B)[j] = B[j - 1]
    BY <1>1, <1>3, <1>4
  <2>2. ASSUME NEW j \in 1 .. p + 1
        PROVE  C[j] = (<<x>> \o B)[j]
    <3>1. CASE j = 1
      <4>1. C[1] = more[p]
        BY <1>6, <1>8
      <4> QED  BY <1>7, <2>1, <3>1, <4>1
    <3>2. CASE j # 1
      <4>1. j \in 2 .. p + 1 /\ j - 1 \in 1 .. p /\ p + 1 - j \in 0 .. Capacity - 1
            /\ p + 1 - j # p /\ p - (j - 1) = p + 1 - j
        BY <1>6, <3>2, SizesAssumption
      <4> QED  BY <1>3, <1>7, <1>8, <2>1, <4>1
    <3> QED  BY <3>1, <3>2
  <2> QED  BY <1>8, <2>1, <2>2, SeqEqual
<1>10. A \o (Append(D, x) \o B) = A \o (D \o C)
  <2>1. D \in Seq(T) /\ Append(D, x) \o B = D \o (<<x>> \o B)
    BY <1>3, <1>4, <1>a
  <2> QED  BY <1>9, <2>1
<1>11. BlankFrom(more, p + 1)
  BY <1>1, <1>6, <1>7 DEF BlankFrom
<1>12. k - 1 \in 0 .. Len(tp)
  BY <1>1, <1>2
<1>13. Copying(c, h, k - 1, p + 1, more)
  <2>1. WordsOf(c) = A \o (D \o C)
    BY <1>1, <1>10, <1>a
  <2> QED  BY <1>1, <1>6, <1>11, <1>12, <2>1 DEF Copying, A, tp, D, C
<1> QED  BY <1>7, <1>13 DEF more, x, tp

LEMMA PhraseIsCopied ==
  ASSUME NEW T, NEW c \in Seq(HypothesesOver(T)),
         NEW out \in Outputs(T), NEW h, NEW p, Copying(c, h, 0, p, out)
  PROVE  /\ h - 1 # 0 => Copying(c, h - 1, Len(c[h - 1].targetPhrase), p, out)
         /\ h - 1 = 0 => Reversing(WordsOf(c), 0, p, out)
<1> DEFINE B == Backwards(out, p)
           tp == c[h].targetPhrase
<1>1. /\ h \in 1 .. Len(c) /\ p \in 0 .. Capacity /\ BlankFrom(out, p)
      /\ WordsOf(c) = WordsOf(SubSeq(c, 1, h - 1)) \o (SubSeq(tp, 1, 0) \o B)
  BY DEF Copying
<1>2. B \in Seq(T) /\ Len(B) = p /\ \A j \in 1 .. p : B[j] = out[p - j]
  BY <1>1, BackwardsIsASequence
<1>3. tp \in Seq(T) /\ WordsOf(SubSeq(c, 1, h - 1)) \in Seq(T)
  BY <1>1, WordsUpTo
<1> HIDE DEF B, tp
<1>4. SubSeq(tp, 1, 0) \o B = B
  <2>1. SubSeq(tp, 1, 0) = <<>>
    BY <1>3
  <2>2. <<>> \o B = B
    BY <1>2
  <2> QED  BY <2>1, <2>2
<1>5. ASSUME h - 1 # 0
      PROVE  Copying(c, h - 1, Len(c[h - 1].targetPhrase), p, out)
  <2> DEFINE g == h - 1
             prev == c[g].targetPhrase
             A == WordsOf(SubSeq(c, 1, g - 1))
  <2>1. g \in 1 .. Len(c)
    BY <1>1, <1>5
  <2> HIDE DEF g
  <2>2. A \in Seq(T) /\ prev \in Seq(T) /\ WordsOf(SubSeq(c, 1, g)) = A \o prev
    BY <2>1, WordsUpTo
  <2> HIDE DEF A, prev
  <2>3. SubSeq(prev, 1, Len(prev)) = prev /\ Len(prev) \in Nat
    BY <2>2, SubSeqFull
  <2>4. WordsOf(c) = A \o (SubSeq(prev, 1, Len(prev)) \o B)
    <3>1. (A \o prev) \o B = A \o (prev \o B)
      BY <1>2, <2>2
    <3> QED  BY <1>1, <1>4, <2>2, <2>3, <3>1 DEF g
  <2>5. Len(prev) \in 0 .. Len(prev)
    BY <2>3
  <2>6. Copying(c, g, Len(prev), p, out)
    BY <1>1, <2>1, <2>4, <2>5 DEF Copying, A, prev, B
  <2> QED  BY <2>6 DEF g, prev
<1>6. ASSUME h - 1 = 0
      PROVE  Reversing(WordsOf(c), 0, p, out)
  <2>1. WordsOf(c) = B
    <3>1. SubSeq(c, 1, 0) = <<>>
      OBVIOUS
    <3>2. <<>> \o B = B
      BY <1>2
    <3> QED  BY <1>1, <1>4, <1>6, <3>1, <3>2, NoWordsYet
  <2>2. ASSUME NEW j \in 0 .. p - 1
        PROVE  out[j] = IF j < 0 \/ j >= p - 0 THEN B[j + 1] ELSE B[p - j]
    <3>1. p - j \in 1 .. p /\ p - (p - j) = j /\ ~ (j < 0 \/ j >= p - 0)
      BY <1>1, SizesAssumption
    <3> QED  BY <1>2, <3>1
  <2>3. 0 \in 0 .. (p \div 2)
    BY <1>1, SizesAssumption
  <2> QED  BY <1>1, <1>2, <2>1, <2>2, <2>3 DEF Reversing
<1> QED  BY <1>5, <1>6

LEMMA PairIsExchanged ==
  ASSUME NEW T, NEW all \in Seq(T), Len(all) <= Capacity, NEW out \in Outputs(T),
         NEW k, NEW p, Reversing(all, k, p, out), k < p \div 2
  PROVE  LET more == [out EXCEPT ![k] = out[p - k - 1], ![p - k - 1] = out[k]]
         IN  Reversing(all, k + 1, p, more) /\ more \in Outputs(T)
<1> DEFINE l == p - k - 1
           half == p \div 2
           more == [out EXCEPT ![k] = out[l], ![l] = out[k]]
<1>0. p \in Nat /\ half \in Nat /\ 2 * half <= p
  <2>1. p \in Nat
    BY DEF Reversing
  <2> QED  BY <2>1
<1>1. /\ p = Len(all) /\ k \in 0 .. half - 1 /\ BlankFrom(out, p)
      /\ \A j \in 0 .. p - 1 :
           out[j] = IF j < k \/ j >= p - k THEN all[j + 1] ELSE all[p - j]
  BY <1>0 DEF Reversing
<1> HIDE DEF half
<1>2. /\ k \in 0 .. p - 1 /\ l \in 0 .. p - 1 /\ k < l /\ p <= Capacity /\ p \in Nat
      /\ 0 .. p - 1 \subseteq 0 .. Capacity - 1 /\ k \in Nat /\ l \in Nat
  BY <1>0, <1>1, SizesAssumption
<1>3. k \in 0 .. Capacity - 1 /\ l \in 0 .. Capacity - 1
  BY <1>2
<1> HIDE DEF l
<1>4. /\ more \in Outputs(T) /\ more[k] = out[l] /\ more[l] = out[k]
      /\ \A j \in 0 .. Capacity - 1 : j # k /\ j # l => more[j] = out[j]
  BY <1>2, <1>3 DEF Outputs
<1> HIDE DEF more
<1>5. out[k] = all[p - k] /\ out[l] = all[p - l]
  <2>1. ~ (k < k \/ k >= p - k) /\ ~ (l < k \/ l >= p - k)
    BY <1>2 DEF l
  <2> QED  BY <1>1, <1>2, <2>1
<1>6. p - k = l + 1 /\ p - l = k + 1
  BY <1>2 DEF l
<1>7. ASSUME NEW j \in 0 .. p - 1
      PROVE  more[j] = IF j < k + 1 \/ j >= p - (k + 1) THEN all[j + 1] ELSE all[p - j]
  <2>1. CASE j = k
    <3>1. j < k + 1
      BY <1>2, <2>1
    <3> QED  BY <1>4, <1>5, <1>6, <2>1, <3>1
  <2>2. CASE j = l
    <3>1. j >= p - (k + 1)
      BY <1>2, <2>2 DEF l
    <3> QED  BY <1>4, <1>5, <1>6, <2>2, <3>1
  <2>3. CASE j # k /\ j # l
    <3>1. (j < k + 1 \/ j >= p - (k + 1)) <=> (j < k \/ j >= p - k)
      BY <1>2, <2>3 DEF l
    <3> QED  BY <1>1, <1>2, <1>4, <2>3, <3>1
  <2> QED  BY <2>1, <2>2, <2>3
<1>8. BlankFrom(more, p)
  <2> SUFFICES ASSUME NEW j \in p .. Capacity - 1
               PROVE  more[j] = NoWord
    BY DEF BlankFrom
  <2>1. j # k /\ j # l /\ j \in 0 .. Capacity - 1
    BY <1>2
  <2> QED  BY <1>1, <1>4, <2>1 DEF BlankFrom
<1>9. k + 1 \in 0 .. half
  BY <1>0, <1>1
<1>10. Reversing(all, k + 1, p, more)
  BY <1>1, <1>7, <1>8, <1>9 DEF Reversing, half
<1> QED  BY <1>4, <1>10 DEF more, l

LEMMA AllIsReversed ==
  ASSUME NEW T, NEW all \in Seq(T), NEW out, NEW k, NEW p, Reversing(all, k, p, out),
         k >= p \div 2
  PROVE  Printing(all, 0, out, <<>>)
<1> DEFINE half == p \div 2
<1>0. p \in Nat /\ half \in Nat /\ 2 * half <= p /\ p <= 2 * half + 1
  <2>1. p \in Nat
    BY DEF Reversing
  <2> QED  BY <2>1
<1>1. /\ p = Len(all) /\ k = half /\ BlankFrom(out, p)
      /\ \A j \in 0 .. p - 1 :
           out[j] = IF j < k \/ j >= p - k THEN all[j + 1] ELSE all[p - j]
  BY <1>0 DEF Reversing
<1> HIDE DEF half
<1>2. ASSUME NEW j \in 0 .. p - 1
      PROVE  out[j] = all[j + 1]
  <2>1. CASE j < k \/ j >= p - k
    BY <1>1, <2>1
  <2>2. CASE ~ (j < k \/ j >= p - k)
    <3>1. p - j = j + 1
      BY <1>0, <1>1, <2>2
    <3> QED  BY <1>1, <2>2, <3>1
  <2> QED  BY <2>1, <2>2
<1>3. SubSeq(all, 1, 0) = <<>> /\ 0 \in 0 .. p
  BY <1>0
<1> QED  BY <1>1, <1>2, <1>3 DEF Printing

LEMMA WordIsPrinted ==
  ASSUME NEW S, NoWord \notin S, NEW all \in Seq(S), NEW out, NEW k, NEW text,
         Printing(all, k, out, text)
  PROVE  /\ k < Capacity /\ out[k] # NoWord =>
              Printing(all, k + 1, out, Append(text, out[k]))
         /\ (k < Capacity => out[k] = NoWord) /\ Len(all) <= Capacity => text = all
<1>1. /\ k \in 0 .. Len(all) /\ BlankFrom(out, Len(all)) /\ text = SubSeq(all, 1, k)
      /\ \A j \in 0 .. Len(all) - 1 : out[j] = all[j + 1]
      /\ Len(all) \in Nat
  BY DEF Printing
<1>2. ASSUME k < Capacity, out[k] # NoWord
      PROVE  Printing(all, k + 1, out, Append(text, out[k]))
  <2>1. k \in 0 .. Len(all) - 1
    <3>1. CASE k = Len(all)
      <4>1. k \in Len(all) .. Capacity - 1
        BY <1>1, <1>2, <3>1, SizesAssumption
      <4> QED  BY <1>1, <1>2, <4>1 DEF BlankFrom
    <3> QED  BY <1>1, <3>1
  <2>2. SubSeq(all, 1, k + 1) = Append(SubSeq(all, 1, k), all[k + 1])
    BY <2>1
  <2> QED  BY <1>1, <2>1, <2>2 DEF Printing
<1>3. ASSUME k < Capacity => out[k] = NoWord, Len(all) <= Capacity
      PROVE  text = all
  <2>1. ASSUME k # Len(all)
        PROVE  FALSE
    <3>1. k \in 0 .. Len(all) - 1 /\ k < Capacity /\ k + 1 \in 1 .. Len(all)
      BY <1>1, <1>3, <2>1, SizesAssumption
    <3>2. all[k + 1] = NoWord /\ all[k + 1] \in S
      BY <1>1, <1>3, <3>1
    <3> QED  BY <3>2
  <2> QED  BY <1>1, <2>1, SubSeqFull
<1> QED  BY <1>2, <1>3

-----------------------------------------------------------------------------
(* The inductive invariant. *)

\* The target sides of the lines that the chain was made of.
TargetsUsed == [n \in DOMAIN steps |-> LinesOf(steps[n].range)[steps[n].phrase].target]

UsedInv ==
  /\ ChainInv(chain, vocab, TargetsUsed)
  /\ steps \in Seq([range : DOMAIN tpsVec, phrase : Nat])
  /\ input = <<>> =>
       phase = "done" /\ chain = <<Side!EmptyHypothesis>> /\ steps = <<>>

OutputInv ==
  /\ vocabIds \in Outputs(Ids(vocab) \union {NoWord})
  /\ phase \in {"search", "copy", "reverse", "print", "done"}
  /\ phase = "search" => pos = 0 /\ printed = <<>> /\ BlankFrom(vocabIds, 0)
  /\ phase = "copy" => Copying(chain, hypo, i, pos, vocabIds) /\ printed = <<>>
  /\ phase = "reverse" => Reversing(WordsOf(chain), i, pos, vocabIds) /\ printed = <<>>
  /\ phase = "print" => Printing(WordsOf(chain), i, vocabIds, printed)
  /\ phase = "done" => printed = WordsOf(chain)

IInv == TableInv /\ UsedInv /\ OutputInv

\* The output of a manager, while nothing is in it.
LEMMA BlankOutput ==
  ASSUME NEW S
  PROVE  /\ [n \in 0 .. (Capacity - 1) |-> NoWord] \in Outputs(S \union {NoWord})
         /\ BlankFrom([n \in 0 .. (Capacity - 1) |-> NoWord], 0)
BY DEF Outputs, BlankFrom

LEMMA NoTargetsUsed ==
  ASSUME steps = <<>>
  PROVE  TargetsUsed = <<>>
BY DEF TargetsUsed

LEMMA InitIsRight ==
  ASSUME TranslationInit
  PROVE  IInv
<1>1. TableInv
  BY EmptyTableIsRight DEF TranslationInit
<1>2. /\ chain = <<Side!EmptyHypothesis>> /\ phase = "done" /\ printed = <<>> /\ steps = <<>>
      /\ vocabIds = [n \in 0 .. (Capacity - 1) |-> NoWord]
  BY DEF TranslationInit, Side!SideInit
<1>3. vocab \in Vocabularies
  BY <1>1 DEF TableInv
<1>4. ChainInv(chain, vocab, TargetsUsed) /\ WordsOf(chain) = <<>>
  BY <1>2, <1>3, FreshChain, NoTargetsUsed
<1>5. UsedInv
  BY <1>2, <1>4 DEF UsedInv
<1>6. OutputInv
  BY <1>2, <1>4, BlankOutput DEF OutputInv
<1> QED  BY <1>1, <1>5, <1>6 DEF IInv

LEMMA ReadLineKeeps ==
  ASSUME IInv, NEW source \in SourcePhrases, NEW target \in TargetPhrases,
         ReadLine(source, target)
  PROVE  IInv'
<1>1. LoadLine(source, target) /\ UNCHANGED <<sideVars, steps>> /\ TableInv
  BY DEF ReadLine, IInv
<1>2. TableInv'
  BY <1>1, LoadLineKeeps, PhrasesAssumption
<1>3. /\ input = <<>> /\ input' = <<>> /\ phase = "done" /\ phase' = "done"
      /\ chain = <<Side!EmptyHypothesis>> /\ chain' = chain
      /\ steps' = <<>> /\ printed = WordsOf(chain) /\ printed' = printed /\ vocabIds' = vocabIds
  BY <1>1 DEF LoadLine, sideVars, IInv, UsedInv, OutputInv
<1>4. PICK v \in Vocabularies : v = vocab'
  BY <1>2 DEF TableInv
<1>5. ChainInv(<<Side!EmptyHypothesis>>, v, <<>>) /\ WordsOf(<<Side!EmptyHypothesis>>) = <<>>
  BY FreshChain
<1>6. TargetsUsed' = <<>>
  BY <1>3 DEF TargetsUsed
<1>7. UsedInv'
  BY <1>3, <1>4, <1>5, <1>6 DEF UsedInv
<1>8. vocabIds' \in Outputs(Ids(vocab') \union {NoWord})
  <2>1. PICK old \in Vocabularies : old = vocab
    BY <1>1 DEF TableInv
  <2>2. Ids(vocab) \subseteq Ids(vocab')
    <3>1. Extends(vocab, vocab')
      <4> DEFINE between == WithWords(vocab, source)
      <4>1. vocab' = WithWords(between, target)
        BY <1>1 DEF LoadLine
      <4>2. between \in Vocabularies /\ Extends(vocab, between)
        BY <2>1, WordsAreAdded, PhrasesAssumption
      <4> HIDE DEF between
      <4>3. WithWords(between, target) \in Vocabularies /\ Extends(between, WithWords(between, target))
        BY <4>2, WordsAreAdded, PhrasesAssumption
      <4> QED  BY <2>1, <4>1, <4>2, <4>3, ExtendsIsTransitive
    <3>2. Len(vocab.coll) \in Nat /\ Len(vocab'.coll) \in Nat
      BY <1>4, <2>1 DEF Vocabularies
    <3> QED  BY <3>1, <3>2 DEF Extends, Ids
  <2>3. vocabIds \in Outputs(Ids(vocab) \union {NoWord})
    BY DEF IInv, OutputInv
  <2> QED  BY <1>3, <2>2, <2>3 DEF Outputs
<1>9. OutputInv'
  BY <1>3, <1>8 DEF OutputInv
<1> QED  BY <1>2, <1>7, <1>9 DEF IInv

LEMMA ManagerKeeps ==
  ASSUME IInv, NEW sentence \in Sentences, Manager(sentence)
  PROVE  IInv'
<1>1. TableInv' /\ input' # <<>>
  <2>1. TableInv /\ Translate(sentence) /\ sentence \in Seq(Words)
    BY PhrasesAssumption DEF IInv, Manager
  <2> QED  BY <2>1, TranslateKeeps
<1>2. /\ chain' = <<Side!EmptyHypothesis>> /\ phase' = "search" /\ pos' = 0 /\ printed' = <<>>
      /\ vocabIds' = [n \in 0 .. (Capacity - 1) |-> NoWord] /\ steps' = <<>>
  BY DEF Manager, Side!Begin
<1>3. PICK v \in Vocabularies : v = vocab'
  BY <1>1 DEF TableInv
<1>4. ChainInv(<<Side!EmptyHypothesis>>, v, <<>>)
  BY FreshChain
<1>5. TargetsUsed' = <<>>
  BY <1>2 DEF TargetsUsed
<1>6. UsedInv'
  BY <1>1, <1>2, <1>3, <1>4, <1>5 DEF UsedInv
<1>7. OutputInv'
  BY <1>2, BlankOutput DEF OutputInv
<1> QED  BY <1>1, <1>6, <1>7 DEF IInv

LEMMA HypothesisKeeps ==
  ASSUME IInv, NEW range \in DOMAIN tpsVec, NEW n \in DOMAIN tpsVec[range],
         Hypothesis(range, n)
  PROVE  IInv'
<1> DEFINE tp == tpsVec[range][n]
           target == LinesOf(range)[n].target
           step == [range |-> range, phrase |-> n]
<1>1. TableInv /\ UsedInv /\ OutputInv
  BY DEF IInv
<1>2. /\ UNCHANGED tableVars /\ Side!Extend(tp) /\ steps' = Append(steps, step)
  BY DEF Hypothesis
<1>3. TableInv'
  BY <1>1, <1>2, TableUnchanged
<1>4. input # <<>> /\ input' = input /\ vocab' = vocab /\ tpsVec' = tpsVec /\ file' = file
  BY <1>1, <1>2 DEF TableInv, tableVars
<1>5. vocab \in Vocabularies /\ ChainInv(chain, vocab, TargetsUsed)
  BY <1>1 DEF TableInv, UsedInv
<1>6. /\ tp \in Seq(Ids(vocab)) /\ target = Spell(vocab, tp) /\ target \in Seq(Words)
      /\ n \in Nat
  <2>1. AreTargetsOf(tpsVec[range], vocab, LinesOf(range))
    BY <1>1, <1>4 DEF TableInv
  <2> DEFINE S == Seq(Ids(vocab))
             tps == tpsVec[range]
  <2>2. tps \in Seq(S) /\ Len(tps) = Len(LinesOf(range))
        /\ \A k \in 1 .. Len(LinesOf(range)) : LinesOf(range)[k].target = Spell(vocab, tps[k])
    BY <2>1 DEF AreTargetsOf
  <2>3. n \in DOMAIN tps
    OBVIOUS
  <2> HIDE DEF S, tps
  <2>4. n \in 1 .. Len(tps) /\ tps[n] \in S
    BY <2>2, <2>3
  <2>5. tp \in Seq(Ids(vocab)) /\ target = Spell(vocab, tp)
    BY <2>2, <2>4 DEF S, tps
  <2>6. target \in Seq(Words)
    BY <1>5, <2>5, Spelled
  <2> QED  BY <2>4, <2>5, <2>6
<1>7. PICK c, v, targets : c = chain /\ v = vocab /\ targets = TargetsUsed
  OBVIOUS
<1> DEFINE place == Side!NewRange(Side!Last(chain), tp)
           h == [targetPhrase |-> tp, startPos |-> place.startPos, endPos |-> place.endPos]
<1>8. /\ phase = "search" /\ chain' = Append(chain, h)
      /\ Len(WordsOf(chain)) + Len(tp) <= Capacity
      /\ UNCHANGED <<phase, hypo, i, pos, vocabIds, printed>>
  BY <1>2, SideWordsOf DEF Side!Extend
<1>9. TargetsUsed' = Append(TargetsUsed, target)
  <2> DEFINE N == Len(steps)
             R == [range : DOMAIN tpsVec, phrase : Nat]
  <2>1. steps \in Seq(R) /\ step \in R
    BY <1>1, <1>6 DEF UsedInv
  <2> HIDE DEF R, step
  <2>2. /\ N \in Nat /\ DOMAIN steps = 1 .. N /\ DOMAIN steps' = 1 .. N + 1
        /\ steps'[N + 1] = step /\ \A k \in 1 .. N : steps'[k] = steps[k]
    BY <1>2, <2>1
  <2>3. /\ TargetsUsed \in Seq(Seq(Words))
        /\ TargetsUsed = [k \in 1 .. N |-> LinesOf(steps[k].range)[steps[k].phrase].target]
    BY <1>5, <2>2 DEF ChainInv, TargetsUsed
  <2>4. \A r : LinesOf(r)' = LinesOf(r)
    BY <1>4 DEF LinesOf
  <2>5. TargetsUsed' = [k \in 1 .. N + 1 |-> LinesOf(steps'[k].range)[steps'[k].phrase].target]
    BY <2>2, <2>4 DEF TargetsUsed
  <2>6. step.range = range /\ step.phrase = n
    BY DEF step
  <2> HIDE DEF N
  <2>7. \A k \in 1 .. N + 1 : TargetsUsed'[k] = IF k = N + 1 THEN target ELSE TargetsUsed[k]
    BY <2>2, <2>3, <2>5, <2>6
  <2>8. Len(TargetsUsed) = N /\ TargetsUsed' = [k \in 1 .. N + 1 |-> TargetsUsed'[k]]
    BY <2>2, <2>3, <2>5
  <2>9. PICK used, later : used = TargetsUsed /\ later = TargetsUsed'
    OBVIOUS
  <2>10. later = [k \in 1 .. N + 1 |-> IF k = N + 1 THEN target ELSE used[k]]
    BY <2>7, <2>8, <2>9
  <2> DEFINE T == Seq(Words)
             x == target
  <2>11. used \in Seq(T) /\ Len(used) = N /\ x \in T
    BY <1>6, <2>3, <2>8, <2>9
  <2>12. later = [k \in 1 .. N + 1 |-> IF k = N + 1 THEN x ELSE used[k]]
    BY <2>10
  <2> HIDE DEF T, x
  <2>13. Append(used, x) = later
    <3>1. /\ Append(used, x) \in Seq(T) /\ Len(Append(used, x)) = N + 1
          /\ Append(used, x)[N + 1] = x
          /\ \A k \in 1 .. N : Append(used, x)[k] = used[k] /\ used[k] \in T
          /\ N \in Nat
      BY <2>11
    <3>2. ASSUME NEW k \in 1 .. N + 1
          PROVE  later[k] = Append(used, x)[k] /\ later[k] \in T
      <4>1. k = N + 1 \/ k \in 1 .. N
        BY <3>1
      <4> QED  BY <2>11, <2>12, <3>1, <4>1
    <3>3. later = [k \in 1 .. N + 1 |-> later[k]]
      BY <2>12
    <3>4. later \in [1 .. N + 1 -> T] /\ N + 1 \in Nat
      BY <3>1, <3>2, <3>3
    <3>5. later \in Seq(T) /\ Len(later) = N + 1
      BY <3>4, SeqDef
    <3> QED  BY <3>1, <3>2, <3>5, SeqEqual
  <2> QED  BY <2>9, <2>13 DEF x
<1>10. ChainInv(Append(chain, h), vocab, Append(TargetsUsed, target))
  <2>1. /\ ChainInv(c, v, targets) /\ v \in Vocabularies /\ tp \in Seq(Ids(v))
        /\ Spell(v, tp) = target /\ target \in Seq(Words)
        /\ Len(WordsOf(c)) + Len(tp) <= Capacity
    BY <1>5, <1>6, <1>7, <1>8
  <2> HIDE DEF tp, target
  <2>2. LET r == Side!NewRange(Side!Last(c), tp)
            g == [targetPhrase |-> tp, startPos |-> r.startPos, endPos |-> r.endPos]
        IN  ChainInv(Append(c, g), v, Append(targets, target))
    BY <2>1, ChainGrows
  <2> QED  BY <1>7, <2>2
<1>11. UsedInv'
  <2>1. steps' \in Seq([range : DOMAIN tpsVec', phrase : Nat])
    <3> DEFINE R == [range : DOMAIN tpsVec, phrase : Nat]
    <3>1. steps \in Seq(R) /\ step \in R
      BY <1>1, <1>6 DEF UsedInv
    <3> HIDE DEF R, step
    <3>2. Append(steps, step) \in Seq(R)
      BY <3>1
    <3> QED  BY <1>2, <1>4, <3>2 DEF R
  <2> HIDE DEF h, target
  <2>2. ChainInv(chain', vocab', TargetsUsed')
    BY <1>4, <1>8, <1>9, <1>10
  <2> QED  BY <1>4, <2>1, <2>2 DEF UsedInv
<1>12. OutputInv'
  BY <1>1, <1>4, <1>8 DEF OutputInv
<1> QED  BY <1>3, <1>11, <1>12 DEF IInv

LEMMA OutputKeeps ==
  ASSUME IInv, Side!Output, UNCHANGED <<tableVars, steps, chain>>
  PROVE  OutputInv'
<1> DEFINE S == Ids(vocab)
           T == S \union {NoWord}
           all == WordsOf(chain)
<1>1. /\ vocabIds \in Outputs(T) /\ OutputInv /\ chain' = chain /\ vocab' = vocab
      /\ vocab \in Vocabularies
  BY DEF IInv, OutputInv, TableInv, tableVars
<1>2. /\ chain \in Seq(HypothesesOver(T)) /\ Len(chain) > 0 /\ Len(all) <= Capacity
      /\ all \in Seq(S) /\ all \in Seq(T)
  <2>1. chain \in Seq(HypothesesOver(S)) /\ Len(chain) > 0 /\ Len(all) <= Capacity
    BY DEF IInv, UsedInv, ChainInv
  <2>2. HypothesesOver(S) \subseteq HypothesesOver(T)
    <3> HIDE DEF S
    <3>1. Seq(S) \subseteq Seq(T)
      OBVIOUS
    <3> QED  BY <3>1 DEF HypothesesOver
  <2>3. chain \in Seq(HypothesesOver(T))
    <3> DEFINE H == HypothesesOver(S)
               G == HypothesesOver(T)
    <3>1. chain \in Seq(H) /\ H \subseteq G
      BY <2>1, <2>2
    <3> HIDE DEF H, G
    <3>2. chain \in Seq(G)
      BY <3>1
    <3> QED  BY <3>2 DEF G
  <2>4. all \in Seq(S)
    <3>1. Side!EmptyHypothesis \in HypothesesOver(S)
      BY SizesAssumption DEF Side!EmptyHypothesis, HypothesesOver
    <3> HIDE DEF S
    <3> QED  BY <2>1, <3>1, WordsOfLonger
  <2>5. all \in Seq(T)
    <3> HIDE DEF all, S
    <3> QED  BY <2>4
  <2> QED  BY <2>1, <2>3, <2>4, <2>5
<1>3. NoWord \notin S
  BY <1>1, IdentifierIsNotNoWord
<1>4. CASE Side!BestFound
  <2>1. /\ phase = "search" /\ phase' = "copy" /\ hypo' = Len(chain)
        /\ i' = Len(chain[Len(chain)].targetPhrase)
        /\ UNCHANGED <<pos, vocabIds, printed>>
    BY <1>4 DEF Side!BestFound, Side!Last
  <2>2. pos = 0 /\ printed = <<>> /\ BlankFrom(vocabIds, 0)
    BY <1>1, <2>1 DEF OutputInv
  <2>3. Copying(chain, Len(chain), Len(chain[Len(chain)].targetPhrase), 0, vocabIds)
    <3> HIDE DEF T
    <3> QED  BY <1>1, <1>2, <2>2, CopyBegins
  <2> QED  BY <1>1, <2>1, <2>2, <2>3 DEF OutputInv
<1>5. CASE Side!CopyWord
  <2>1. /\ phase = "copy" /\ phase' = "copy" /\ i > 0 /\ i' = i - 1 /\ pos' = pos + 1
        /\ vocabIds' = [vocabIds EXCEPT ![pos] = chain[hypo].targetPhrase[i]]
        /\ hypo' = hypo /\ printed' = printed
    BY <1>5 DEF Side!CopyWord
  <2>2. Copying(chain, hypo, i, pos, vocabIds) /\ printed = <<>>
    BY <1>1, <2>1 DEF OutputInv
  <2> DEFINE more == [vocabIds EXCEPT ![pos] = chain[hypo].targetPhrase[i]]
  <2>3. Copying(chain, hypo, i - 1, pos + 1, more) /\ more \in Outputs(T)
    <3> HIDE DEF T
    <3> QED  BY <1>1, <1>2, <2>1, <2>2, WordIsCopied
  <2> HIDE DEF more
  <2>4. vocabIds' = more
    BY <2>1 DEF more
  <2> QED  BY <1>1, <2>1, <2>2, <2>3, <2>4 DEF OutputInv
<1>6. CASE Side!PrevHypo
  <2>1. /\ phase = "copy" /\ i = 0 /\ hypo' = hypo - 1
        /\ \/ hypo - 1 # 0 /\ i' = Len(chain[hypo - 1].targetPhrase) /\ phase' = phase
           \/ hypo - 1 = 0 /\ phase' = "reverse" /\ i' = i
        /\ UNCHANGED <<pos, vocabIds, printed>>
    BY <1>6, <1>1 DEF Side!PrevHypo
  <2>2. Copying(chain, hypo, 0, pos, vocabIds) /\ printed = <<>>
    BY <1>1, <2>1 DEF OutputInv
  <2>3. /\ hypo - 1 # 0 =>
             Copying(chain, hypo - 1, Len(chain[hypo - 1].targetPhrase), pos, vocabIds)
        /\ hypo - 1 = 0 => Reversing(all, 0, pos, vocabIds)
    <3> HIDE DEF T
    <3> QED  BY <1>1, <1>2, <2>2, PhraseIsCopied
  <2>4. CASE hypo - 1 # 0
    BY <1>1, <2>1, <2>2, <2>3, <2>4 DEF OutputInv
  <2>5. CASE hypo - 1 = 0
    BY <1>1, <2>1, <2>2, <2>3, <2>5 DEF OutputInv
  <2> QED  BY <2>4, <2>5
<1>7. CASE Side!Exchange
  <2>1. /\ phase = "reverse" /\ phase' = "reverse" /\ i < pos \div 2 /\ i' = i + 1
        /\ vocabIds' = [vocabIds EXCEPT ![i] = vocabIds[pos - i - 1],
                                        ![pos - i - 1] = vocabIds[i]]
        /\ UNCHANGED <<hypo, pos, printed>>
    BY <1>7 DEF Side!Exchange, Side!Half
  <2>2. Reversing(all, i, pos, vocabIds) /\ printed = <<>>
    BY <1>1, <2>1 DEF OutputInv
  <2> DEFINE more == [vocabIds EXCEPT ![i] = vocabIds[pos - i - 1],
                                      ![pos - i - 1] = vocabIds[i]]
  <2>3. Reversing(all, i + 1, pos, more) /\ more \in Outputs(T)
    <3> HIDE DEF T, all
    <3> QED  BY <1>1, <1>2, <2>1, <2>2, PairIsExchanged
  <2> HIDE DEF more
  <2>4. vocabIds' = more
    BY <2>1 DEF more
  <2> QED  BY <1>1, <2>1, <2>2, <2>3, <2>4 DEF OutputInv
<1>8. CASE Side!Synchronize
  <2>1. /\ phase = "reverse" /\ phase' = "print" /\ i >= pos \div 2 /\ i' = 0
        /\ UNCHANGED <<hypo, pos, vocabIds, printed>>
    BY <1>8 DEF Side!Synchronize, Side!Half
  <2>2. Reversing(all, i, pos, vocabIds) /\ printed = <<>>
    BY <1>1, <2>1 DEF OutputInv
  <2>3. Printing(all, 0, vocabIds, <<>>)
    <3> HIDE DEF T, all
    <3> QED  BY <1>2, <2>1, <2>2, AllIsReversed
  <2> QED  BY <1>1, <2>1, <2>2, <2>3 DEF OutputInv
<1>9. CASE Side!PrintWord
  <2>1. /\ phase = "print" /\ phase' = "print" /\ i < Capacity /\ vocabIds[i] # NoWord
        /\ printed' = Append(printed, vocabIds[i]) /\ i' = i + 1
        /\ UNCHANGED <<hypo, pos, vocabIds>>
    BY <1>9 DEF Side!PrintWord
  <2>2. Printing(all, i, vocabIds, printed)
    BY <1>1, <2>1 DEF OutputInv
  <2>3. Printing(all, i + 1, vocabIds, Append(printed, vocabIds[i]))
    <3> HIDE DEF S, all
    <3> QED  BY <1>2, <1>3, <2>1, <2>2, WordIsPrinted
  <2> QED  BY <1>1, <2>1, <2>3 DEF OutputInv
<1>10. CASE Side!Finish
  <2>1. /\ phase = "print" /\ phase' = "done" /\ (i < Capacity => vocabIds[i] = NoWord)
        /\ UNCHANGED <<hypo, i, pos, vocabIds, printed>>
    BY <1>10 DEF Side!Finish
  <2>2. Printing(all, i, vocabIds, printed)
    BY <1>1, <2>1 DEF OutputInv
  <2>3. printed = all
    <3> HIDE DEF S, all
    <3> QED  BY <1>2, <1>3, <2>1, <2>2, WordIsPrinted
  <2> QED  BY <1>1, <2>1, <2>3 DEF OutputInv
<1> QED  BY <1>4, <1>5, <1>6, <1>7, <1>8, <1>9, <1>10 DEF Side!Output

\* Neither the table nor the chain is written.
LEMMA ChainUnchanged ==
  ASSUME IInv, UNCHANGED <<tableVars, steps, chain>>, phase # "done" \/ phase' = phase
  PROVE  TableInv' /\ UsedInv'
<1>1. TableInv'
  BY TableUnchanged DEF IInv
<1>2. TargetsUsed' = TargetsUsed
  BY DEF TargetsUsed, LinesOf, tableVars
<1>3. UsedInv'
  BY <1>2 DEF IInv, UsedInv, tableVars
<1> QED  BY <1>1, <1>3

LEMMA NextKeeps ==
  ASSUME IInv, [TranslationNext]_translationVars
  PROVE  IInv'
<1>1. ASSUME NEW source \in SourcePhrases, NEW target \in TargetPhrases,
             ReadLine(source, target)
      PROVE  IInv'
  BY <1>1, ReadLineKeeps
<1>2. ASSUME NEW sentence \in Sentences, Manager(sentence)
      PROVE  IInv'
  BY <1>2, ManagerKeeps
<1>3. ASSUME NEW range \in DOMAIN tpsVec, NEW n \in DOMAIN tpsVec[range],
             Hypothesis(range, n)
      PROVE  IInv'
  BY <1>3, HypothesisKeeps
<1>4. CASE Output
  <2>1. Side!Output /\ UNCHANGED <<tableVars, steps>>
    BY <1>4 DEF Output
  <2>2. chain' = chain /\ phase # "done"
    BY <2>1 DEF Side!Output, Side!BestFound, Side!CopyWord, Side!PrevHypo, Side!Exchange,
                Side!Synchronize, Side!PrintWord, Side!Finish
  <2> QED  BY <2>1, <2>2, OutputKeeps, ChainUnchanged DEF IInv
<1>5. CASE UNCHANGED translationVars
  <2>1. UNCHANGED <<tableVars, sideVars, steps>>
    BY <1>5 DEF translationVars
  <2>2. OutputInv'
    BY <2>1 DEF sideVars, tableVars, IInv, OutputInv
  <2> QED  BY <2>1, <2>2, ChainUnchanged DEF sideVars, IInv
<1> QED  BY <1>1, <1>2, <1>3, <1>4, <1>5 DEF TranslationNext

LEMMA InvariantHolds == TranslationSpec => []IInv
<1>1. TranslationInit => IInv
  BY InitIsRight
<1>2. IInv /\ [TranslationNext]_translationVars => IInv'
  BY NextKeeps
<1> QED  BY <1>1, <1>2, PTL DEF TranslationSpec

-----------------------------------------------------------------------------
(***************************************************************************)
(* Each span of a sentence gets the target phrases of the lines with that  *)
(* source phrase, all of them and in the order of the file, whatever the   *)
(* lines and the sentences before (PhraseTableMemory.cu:44-96, 121-126).   *)
(***************************************************************************)
THEOREM AlwaysFindsTheLines == TranslationSpec => []FindsTheLines
<1>1. IInv => FindsTheLines
  <2> SUFFICES ASSUME TableInv, input # <<>>, NEW r \in DOMAIN tpsVec
               PROVE  LET lines == LinesOf(r)
                      IN  /\ Len(tpsVec[r]) = Len(lines)
                          /\ \A n \in DOMAIN lines : lines[n].target = Spell(vocab, tpsVec[r][n])
    BY DEF FindsTheLines, LinesOf, IInv
  <2>1. AreTargetsOf(tpsVec[r], vocab, LinesOf(r)) /\ file \in Seq(LineRecords)
    BY DEF TableInv
  <2>2. LinesOf(r) \in Seq(LineRecords)
    <3> DEFINE source == SubSeq(Last(input), r.start + 1, r.end + 1)
    <3>1. PICK f : /\ \A k \in 0 .. Len(file) : f[k] \in Seq(LineRecords)
                   /\ LinesWith(file, source) = f[Len(file)]
      <4> HIDE DEF source
      <4> QED  BY <2>1, LinesAreFound
    <3>2. Len(file) \in 0 .. Len(file)
      BY <2>1
    <3> QED  BY <3>1, <3>2 DEF LinesOf
  <2>3. DOMAIN LinesOf(r) = 1 .. Len(LinesOf(r))
    BY <2>2
  <2> QED  BY <2>1, <2>3 DEF AreTargetsOf
<1> QED  BY <1>1, InvariantHolds, PTL

(***************************************************************************)
(* GetWord of any hypothesis but the empty one finds each word up to the   *)
(* end of its phrase, for phrases of any length, none included             *)
(* (Hypothesis.cu:49-50, 111-124).                                         *)
(***************************************************************************)
THEOREM WordsAlwaysReadBack == TranslationSpec => []WordsReadBack
<1>1. IInv => WordsReadBack
  BY SideReadsBack DEF IInv, UsedInv, ChainInv
<1> QED  BY <1>1, InvariantHolds, PTL

(***************************************************************************)
(* What is printed is the target side of the lines that were used, in the  *)
(* order in which they were, for chains and phrases of any length that fit *)
(* the vector (Manager.cu:161-180, 249-256, MyVocab.cpp:25-61).            *)
(***************************************************************************)
THEOREM AlwaysPrintsTheTranslation == TranslationSpec => []PrintsTheTranslation
<1>1. IInv => PrintsTheTranslation
  <2>1. PrintsTheTranslation <=>
          ((phase = "done" /\ input # <<>>) => Spell(vocab, printed) = FlattenSeq(TargetsUsed))
    BY DEF PrintsTheTranslation, TargetsUsed
  <2> QED  BY <2>1 DEF IInv, UsedInv, ChainInv, OutputInv
<1> QED  BY <1>1, InvariantHolds, PTL


-----------------------------------------------------------------------------
(* The operations on the collection keep the beam. *)

\* The cardinality of the instance of Beam is the cardinality.
LEMMA SameCardinality == \A S : ABeam!Cardinality(S) = Cardinality(S)
BY DEF ABeam!Cardinality, Cardinality

LEMMA ToleranceIsPositive == Tolerance \in Nat /\ Tolerance = 2 * StackSize
BY StackSizeAssumption DEF Tolerance

LEMMA ScoresAreIntegers == \A h \in Hypotheses : h.score \in Int
BY HypothesesAssumption

\* Pruning leaves a beam of the same candidates, no larger than the stack size.
LEMMA PruneKeepsBeam ==
  ASSUME NEW c \in SUBSET Hypotheses, NEW O \in SUBSET Hypotheses,
         IsFiniteSet(c), ABeam!IsBeam(c, O), NEW kept \in Prune(c)
  PROVE  /\ kept \in SUBSET c
         /\ IsFiniteSet(kept)
         /\ Cardinality(kept) <= StackSize
         /\ ABeam!IsBeam(kept, O)
<1>1. CASE Cardinality(c) < StackSize
  BY <1>1, FS_CardinalityType, StackSizeAssumption DEF Prune
<1>2. CASE ~(Cardinality(c) < StackSize)
  <2>1. /\ kept \in SUBSET c
        /\ Cardinality(kept) = StackSize
        /\ \A h \in kept, g \in c \ kept : h.score >= g.score
    BY <1>2 DEF Prune, kSubset
  <2>2. IsFiniteSet(kept)
    BY <2>1, FS_Subset
  <2>3. ASSUME NEW h \in O
        PROVE  ABeam!Accounted(kept, h)
    <3>1. CASE \A k \in kept : k.score >= h.score
      <4>1. {g \in kept : g.score >= h.score} = kept
        BY <3>1
      <4> QED  BY <2>1, <4>1, StackSizeAssumption, SameCardinality DEF ABeam!Accounted
    <3>2. ASSUME NEW k \in kept, ~(k.score >= h.score)
          PROVE  ABeam!Accounted(kept, h)
      \* What outscores h also outscores k, so that it was kept.
      <4>1. {g \in kept : g.score >= h.score} = {g \in c : g.score >= h.score}
        BY <2>1, <3>2, ScoresAreIntegers
      <4>2. ABeam!Accounted(c, h)
        BY SameCardinality DEF ABeam!IsBeam
      <4>3. CASE \E g \in c : g.key = h.key /\ g.score >= h.score
        BY <4>1, <4>3, SameCardinality DEF ABeam!Accounted
      <4>4. CASE Cardinality({g \in c : g.score >= h.score}) >= StackSize
        BY <4>1, <4>4, SameCardinality DEF ABeam!Accounted
      <4> QED  BY <4>2, <4>3, <4>4, SameCardinality DEF ABeam!Accounted
    <3> QED  BY <3>1, <3>2
  <2>4. /\ kept \subseteq O
        /\ \A g, h \in kept : g.key = h.key => g = h
        /\ Cardinality(kept) <= 2 * StackSize
    BY <2>1, StackSizeAssumption, SameCardinality DEF ABeam!IsBeam
  <2> QED  BY <2>1, <2>2, <2>3, <2>4, StackSizeAssumption, SameCardinality DEF ABeam!IsBeam
<1> QED  BY <1>1, <1>2

\* Making room leaves a beam with space for one more.
LEMMA MakeRoomKeepsBeam ==
  ASSUME NEW c \in SUBSET Hypotheses, NEW O \in SUBSET Hypotheses,
         IsFiniteSet(c), ABeam!IsBeam(c, O), NEW room \in MakeRoom(c)
  PROVE  /\ room \in SUBSET c
         /\ IsFiniteSet(room)
         /\ Cardinality(room) < Tolerance
         /\ ABeam!IsBeam(room, O)
<1>1. Cardinality(c) \in Nat
  BY FS_CardinalityType
<1>2. CASE Cardinality(c) >= Tolerance
  <2>1. room \in Prune(c)
    BY <1>2 DEF MakeRoom
  <2>2. IsFiniteSet(room) /\ Cardinality(room) <= StackSize
    BY <2>1, PruneKeepsBeam
  <2>3. Cardinality(room) < Tolerance
    BY <2>2, FS_CardinalityType, ToleranceIsPositive, StackSizeAssumption
  <2> QED  BY <2>1, <2>3, PruneKeepsBeam
<1>3. CASE ~(Cardinality(c) >= Tolerance)
  BY <1>1, <1>3, ToleranceIsPositive DEF MakeRoom
<1> QED  BY <1>2, <1>3

\* Recombination takes a new candidate into account.
LEMMA RecombineKeepsBeam ==
  ASSUME NEW c \in SUBSET Hypotheses, NEW O \in SUBSET Hypotheses,
         IsFiniteSet(c), Cardinality(c) < Tolerance, ABeam!IsBeam(c, O),
         NEW added \in Hypotheses, added \notin O
  PROVE  LET new == Recombine(c, added)
         IN  /\ new \in SUBSET (c \union {added})
             /\ IsFiniteSet(new)
             /\ ABeam!IsBeam(new, O \union {added})
<1> DEFINE new == Recombine(c, added)
           same == Same(c, added)
<1>1. /\ c \subseteq O
      /\ \A g, h \in c : g.key = h.key => g = h
      /\ \A h \in O : ABeam!Accounted(c, h)
      /\ added \notin c
  BY SameCardinality DEF ABeam!IsBeam
<1>2. same \in SUBSET c /\ \A g \in same : g.key = added.key
  BY DEF Same
<1>3. CASE \E g \in same : added.score <= g.score
  <2>1. new = c
    BY <1>3 DEF Recombine
  <2>2. ABeam!Accounted(c, added)
    BY <1>2, <1>3, ScoresAreIntegers, SameCardinality DEF ABeam!Accounted
  <2>3. Cardinality(c) <= 2 * StackSize
    BY SameCardinality DEF ABeam!IsBeam
  <2> QED  BY <1>1, <2>1, <2>2, <2>3, SameCardinality DEF ABeam!IsBeam
<1>4. CASE ~ \E g \in same : added.score <= g.score
  <2>1. new = (c \ same) \union {added}
    BY <1>4 DEF Recombine
  <2>2. \A g \in same : added.score > g.score
    BY <1>2, <1>4, ScoresAreIntegers
  <2>3. IsFiniteSet(c \ same) /\ Cardinality(c \ same) <= Cardinality(c)
    BY FS_Subset
  <2>4. IsFiniteSet(new) /\ Cardinality(new) <= 2 * StackSize
    <3>1. IsFiniteSet(new) /\ Cardinality(new) = Cardinality(c \ same) + 1
      <4>1. added \notin c \ same
        BY <1>1
      <4> QED  BY <2>1, <2>3, <4>1, FS_AddElement
    <3>2. Cardinality(c \ same) \in Nat /\ Cardinality(c) \in Nat
      BY <2>3, FS_CardinalityType
    <3> QED  BY <2>3, <3>1, <3>2, ToleranceIsPositive, StackSizeAssumption
  <2>5. \A g, h \in new : g.key = h.key => g = h
    BY <1>1, <2>1 DEF Same
  <2>6. ABeam!Accounted(new, added)
    BY <2>1, ScoresAreIntegers, SameCardinality DEF ABeam!Accounted
  <2>7. ASSUME NEW h \in O
        PROVE  ABeam!Accounted(new, h)
    <3> DEFINE above(S) == {g \in S : g.score >= h.score}
    <3>1. ABeam!Accounted(c, h)
      BY <1>1
    <3>2. CASE \E g \in c : g.key = h.key /\ g.score >= h.score
      <4>1. PICK g \in c : g.key = h.key /\ g.score >= h.score
        BY <3>2
      <4>2. CASE g \in same
        <5>1. added.key = h.key /\ added.score >= h.score
          BY <1>2, <2>2, <4>1, <4>2, ScoresAreIntegers
        <5> QED  BY <2>1, <5>1, SameCardinality DEF ABeam!Accounted
      <4>3. CASE g \notin same
        BY <2>1, <4>1, <4>3, SameCardinality DEF ABeam!Accounted
      <4> QED  BY <4>2, <4>3
    <3>3. CASE Cardinality(above(c)) >= StackSize
      <4>1. above(new) \in SUBSET new /\ above(c) \in SUBSET c
        OBVIOUS
      <4>2. IsFiniteSet(above(new)) /\ IsFiniteSet(above(c))
        BY <2>4, <4>1, FS_Subset
      <4>3. Cardinality(above(c)) <= Cardinality(above(new))
        <5>1. CASE above(c) \intersect same = {}
          <6>1. above(c) \in SUBSET above(new)
            BY <2>1, <5>1
          <6> QED  BY <4>2, <6>1, FS_Subset
        <5>2. CASE above(c) \intersect same # {}
          <6>1. PICK g \in above(c) : g \in same
            BY <5>2
          <6>2. same = {g}
            BY <1>1, <1>2, <6>1
          <6>3. added.score >= h.score
            BY <2>2, <6>1, ScoresAreIntegers
          <6> DEFINE swapped == (above(c) \ {g}) \union {added}
          <6>4. swapped \in SUBSET above(new)
            BY <2>1, <6>2, <6>3
          <6>5. Cardinality(swapped) = Cardinality(above(c))
            <7>1. /\ IsFiniteSet(above(c) \ {g})
                  /\ Cardinality(above(c) \ {g}) = Cardinality(above(c)) - 1
              BY <4>2, <6>1, FS_RemoveElement
            <7>2. added \notin above(c) \ {g}
              BY <1>1
            <7>3. Cardinality(swapped) = Cardinality(above(c) \ {g}) + 1
              BY <7>1, <7>2, FS_AddElement
            <7> QED  BY <4>2, <7>1, <7>3, FS_CardinalityType
          <6>6. Cardinality(swapped) <= Cardinality(above(new))
            BY <4>2, <6>4, FS_Subset
          <6> QED  BY <6>5, <6>6
        <5> QED  BY <5>1, <5>2
      <4>4. Cardinality(above(c)) \in Nat /\ Cardinality(above(new)) \in Nat
        BY <4>2, FS_CardinalityType
      <4>5. Cardinality(above(new)) >= StackSize
        BY <3>3, <4>3, <4>4, StackSizeAssumption
      <4> QED  BY <4>5, SameCardinality DEF ABeam!Accounted
    <3> QED  BY <3>1, <3>2, <3>3, SameCardinality DEF ABeam!Accounted
  <2>8. new \subseteq O \union {added} /\ new \in SUBSET (c \union {added})
    BY <1>1, <2>1
  <2> QED  BY <2>4, <2>5, <2>6, <2>7, <2>8, SameCardinality DEF ABeam!IsBeam
<1> QED  BY <1>3, <1>4

LEMMA AddKeepsBeam ==
  ASSUME NEW c \in SUBSET Hypotheses, NEW O \in SUBSET Hypotheses,
         IsFiniteSet(c), ABeam!IsBeam(c, O),
         NEW added \in Hypotheses, added \notin O, NEW new \in Add(c, added)
  PROVE  /\ new \in SUBSET (c \union {added})
         /\ IsFiniteSet(new)
         /\ ABeam!IsBeam(new, O \union {added})
<1>1. PICK room \in MakeRoom(c) : new = Recombine(room, added)
  BY DEF Add
<1>2. /\ room \in SUBSET c /\ IsFiniteSet(room)
      /\ Cardinality(room) < Tolerance /\ ABeam!IsBeam(room, O)
  BY MakeRoomKeepsBeam
<1>3. room \in SUBSET Hypotheses
  BY <1>2
<1>4. /\ new \in SUBSET (room \union {added}) /\ IsFiniteSet(new)
      /\ ABeam!IsBeam(new, O \union {added})
  BY <1>1, <1>2, <1>3, RecombineKeepsBeam
<1> QED  BY <1>2, <1>4

-----------------------------------------------------------------------------
(* The inductive invariant. *)

Guarded ==
  /\ TypeOK
  /\ MutualExclusion
  /\ SeenIsFresh
  /\ HeapIsExact
  /\ IsFiniteSet(coll)
  /\ ABeam!IsBeam(coll, Offered)

LEMMA OfferTypes ==
  /\ \A b \in Blocks : Len(Offers[b]) \in Nat
  /\ \A b \in Blocks : \A m \in 1 .. Len(Offers[b]) : Offers[b][m] \in Hypotheses
  /\ \A b, c \in Blocks : \A m \in 1 .. Len(Offers[b]), j \in 1 .. Len(Offers[c]) :
       Offers[b][m] = Offers[c][j] => b = c /\ m = j
<1>1. ASSUME NEW b \in Blocks
      PROVE  /\ Len(Offers[b]) \in Nat
             /\ DOMAIN Offers[b] = 1 .. Len(Offers[b])
             /\ \A m \in 1 .. Len(Offers[b]) : Offers[b][m] \in Hypotheses
  <2>1. Offers[b] \in Seq(Hypotheses)
    BY OffersAssumption
  <2> QED  BY <2>1
<1> QED  BY <1>1, OffersAssumption

\* The hypothesis a block is about to add is new to the stack.
LEMMA CurrentIsNew ==
  ASSUME TypeOK, NEW b \in Blocks, done[b] < Len(Offers[b])
  PROVE  /\ Current(b) \in Hypotheses
         /\ Current(b) \notin Offered
         /\ \A c \in Blocks :
              done[c] < Len(Offers[c]) /\ Current(c) = Current(b) => c = b
<1>1. done[b] + 1 \in 1 .. Len(Offers[b])
  BY OfferTypes DEF TypeOK
<1>2. ASSUME NEW c \in Blocks, NEW m \in 1 .. done[c], Offers[c][m] = Current(b)
      PROVE  FALSE
  <2>1. m \in 1 .. Len(Offers[c])
    BY OfferTypes DEF TypeOK
  <2>2. c = b /\ m = done[b] + 1
    BY <1>1, <1>2, <2>1, OfferTypes DEF Current
  <2> QED  BY <2>2 DEF TypeOK
<1>3. ASSUME NEW c \in Blocks, done[c] < Len(Offers[c]), Current(c) = Current(b)
      PROVE  c = b
  <2>1. done[c] + 1 \in 1 .. Len(Offers[c])
    BY <1>3, OfferTypes DEF TypeOK
  <2> QED  BY <1>1, <1>3, <2>1, OfferTypes DEF Current
<1> QED  BY <1>1, <1>2, <1>3, OfferTypes DEF Current, Offered

LEMMA OfferedIsTyped ==
  ASSUME TypeOK
  PROVE  Offered \in SUBSET Hypotheses
<1>1. ASSUME NEW c \in Blocks, NEW m \in 1 .. done[c]
      PROVE  Offers[c][m] \in Hypotheses
  <2>1. m \in 1 .. Len(Offers[c])
    BY OfferTypes DEF TypeOK
  <2> QED  BY <2>1, OfferTypes
<1> QED  BY <1>1 DEF Offered

\* Moving on by one target phrase offers one hypothesis.
LEMMA OfferedGrows ==
  ASSUME TypeOK, NEW b \in Blocks, done' = [done EXCEPT ![b] = @ + 1]
  PROVE  Offered' = Offered \union {Current(b)}
<1> DEFINE upTo(d, c) == {Offers[c][m] : m \in 1 .. d[c]}
<1>1. \A c \in Blocks : c # b => upTo(done', c) = upTo(done, c)
  BY DEF TypeOK
<1>2. upTo(done', b) = upTo(done, b) \union {Current(b)}
  <2>1. done[b] \in Nat /\ done'[b] = done[b] + 1
    BY DEF TypeOK
  <2>2. 1 .. done'[b] = (1 .. done[b]) \union {done[b] + 1}
    BY <2>1
  <2> HIDE DEF upTo
  <2> QED  BY <2>2 DEF Current, upTo
<1>3. Offered' = UNION {upTo(done', c) : c \in Blocks}
  BY DEF Offered
<1>4. Offered = UNION {upTo(done, c) : c \in Blocks}
  BY DEF Offered
<1> HIDE DEF upTo
<1>5. ASSUME NEW h \in Offered'
      PROVE  h \in Offered \union {Current(b)}
  <2>1. PICK c \in Blocks : h \in upTo(done', c)
    BY <1>3, <1>5
  <2>2. h \in upTo(done, c) \union {Current(b)}
    BY <1>1, <1>2, <2>1
  <2> QED  BY <1>4, <2>2
<1>6. ASSUME NEW h \in Offered \union {Current(b)}
      PROVE  h \in Offered'
  <2>1. PICK c \in Blocks : h \in upTo(done', c)
    <3>1. CASE h = Current(b)
      BY <1>2, <3>1
    <3>2. CASE h \in Offered
      <4>1. PICK c \in Blocks : h \in upTo(done, c)
        BY <1>4, <3>2
      <4>2. h \in upTo(done', c)
        BY <1>1, <1>2, <4>1
      <4> QED  BY <4>2
    <3> QED  BY <1>6, <3>1, <3>2
  <2> QED  BY <1>3, <2>1
<1> QED  BY <1>5, <1>6

LEMMA InitEstablishes == Init => Guarded
<1> SUFFICES ASSUME Init PROVE Guarded
  OBVIOUS
<1>1. TypeOK
  <2>1. \A b \in Blocks : /\ done[b] = 0 /\ pc[b] = "waiting"
                           /\ done[b] <= Len(Offers[b])
    BY OfferTypes DEF Init
  <2>2. /\ pc \in [Blocks -> Steps] /\ done \in [Blocks -> Nat]
        /\ seen \in [Blocks -> SUBSET Hypotheses]
    BY DEF Init, Steps
  <2> QED  BY <2>1, <2>2 DEF Init, TypeOK
<1>2. MutualExclusion /\ SeenIsFresh /\ HeapIsExact
  BY DEF Init, MutualExclusion, SeenIsFresh, HeapIsExact, InCritical, Holding
<1>3. Offered = {}
  <2>1. \A c \in Blocks : 1 .. done[c] = {}
    BY DEF Init
  <2> QED  BY <2>1 DEF Offered
<1>4. IsFiniteSet(coll) /\ ABeam!IsBeam(coll, Offered)
  BY <1>3, FS_EmptySet, SameCardinality, StackSizeAssumption
  DEF Init, ABeam!IsBeam
<1> QED  BY <1>1, <1>2, <1>4 DEF Guarded

\* The steps of a block that leave the collection and what was offered alone.
LEMMA OtherSteps ==
  ASSUME Guarded, NEW b \in Blocks,
         Launch(b) \/ New(b) \/ Acquire(b) \/ Read(b) \/ Release(b)
  PROVE  /\ TypeOK' /\ MutualExclusion' /\ SeenIsFresh'
         /\ UNCHANGED <<coll, done>>
<1>1. UNCHANGED <<coll, done, pruned>>
  BY DEF Launch, New, Acquire, Read, Release
<1>2. TypeOK /\ MutualExclusion /\ SeenIsFresh
  BY DEF Guarded
<1>3. NextIteration(b) \in {"new", "done"}
      /\ (NextIteration(b) = "new" => done[b] < Len(Offers[b]))
  BY DEF NextIteration
<1>4. CASE Launch(b)
  <2>1. pc' = [pc EXCEPT ![b] = NextIteration(b)] /\ pc[b] = "waiting"
        /\ UNCHANGED <<mutex, coll, heap, done, seen, pruned>>
    BY <1>4 DEF Launch
  <2>2. TypeOK'
    BY <1>2, <1>3, <2>1 DEF TypeOK, Steps
  <2>3. MutualExclusion' /\ SeenIsFresh'
    BY <1>2, <1>3, <2>1 DEF TypeOK, MutualExclusion, SeenIsFresh, InCritical
  <2> QED  BY <1>1, <2>2, <2>3
<1>5. CASE New(b)
  <2>1. TypeOK'
    BY <1>2, <1>5, CurrentIsNew DEF New, TypeOK, Steps
  <2>2. MutualExclusion' /\ SeenIsFresh'
    BY <1>2, <1>5 DEF New, TypeOK, MutualExclusion, SeenIsFresh, InCritical
  <2> QED  BY <1>1, <2>1, <2>2
<1>6. CASE Acquire(b)
  <2>1. TypeOK'
    BY <1>2, <1>6 DEF Acquire, TypeOK, Steps
  <2>2. MutualExclusion' /\ SeenIsFresh'
    BY <1>2, <1>6 DEF Acquire, TypeOK, MutualExclusion, SeenIsFresh, InCritical
  <2> QED  BY <1>1, <2>1, <2>2
<1>7. CASE Read(b)
  <2>1. TypeOK'
    BY <1>2, <1>7 DEF Read, TypeOK, Steps
  <2>2. MutualExclusion' /\ SeenIsFresh'
    BY <1>2, <1>7 DEF Read, TypeOK, MutualExclusion, SeenIsFresh, InCritical
  <2> QED  BY <1>1, <2>1, <2>2
<1>8. CASE Release(b)
  <2>1. /\ pc' = [pc EXCEPT ![b] = NextIteration(b)] /\ pc[b] = "unlock"
        /\ mutex' = 0
        /\ UNCHANGED <<coll, heap, done, seen, pruned>>
    BY <1>8 DEF Release
  <2>2. TypeOK'
    BY <1>2, <1>3, <2>1 DEF TypeOK, Steps
  <2>3. MutualExclusion' /\ SeenIsFresh'
    BY <1>2, <1>3, <2>1 DEF TypeOK, MutualExclusion, SeenIsFresh, InCritical
  <2> QED  BY <1>1, <2>2, <2>3
<1> QED  BY <1>4, <1>5, <1>6, <1>7, <1>8

\* None of them disturbs the account of the memory.
LEMMA OtherStepsKeepHeap ==
  ASSUME Guarded, NEW b \in Blocks,
         Launch(b) \/ New(b) \/ Acquire(b) \/ Read(b) \/ Release(b)
  PROVE  HeapIsExact'
<1> DEFINE held == {Current(c) : c \in {d \in Blocks : Holding(d)}}
<1>1. heap = coll \union held /\ TypeOK
  BY DEF Guarded, HeapIsExact
<1>2. UNCHANGED <<coll, done>> /\ \A c \in Blocks : Current(c)' = Current(c)
  BY OtherSteps DEF Current
<1>3. pc' = [pc EXCEPT ![b] = pc'[b]]
  BY <1>1 DEF TypeOK, Launch, New, Acquire, Read, Release
<1>4. CASE New(b)
  <2>1. heap' = heap \union {Current(b)} /\ pc'[b] = "lock"
    BY <1>1, <1>4 DEF New, TypeOK
  <2>2. {d \in Blocks : Holding(d)}' = {d \in Blocks : Holding(d)} \union {b}
    BY <1>1, <1>3, <2>1 DEF Holding, TypeOK
  <2>3. held' = held \union {Current(b)}
    BY <1>2, <2>2
  <2> QED  BY <1>1, <1>2, <2>1, <2>3 DEF HeapIsExact
<1>5. CASE Launch(b) \/ Acquire(b) \/ Read(b) \/ Release(b)
  <2>1. heap' = heap
    BY <1>5 DEF Launch, Acquire, Read, Release
  <2>2. Holding(b)' <=> Holding(b)
    BY <1>1, <1>5
    DEF Holding, TypeOK, Launch, Acquire, Read, Release, NextIteration
  <2>3. {d \in Blocks : Holding(d)}' = {d \in Blocks : Holding(d)}
    BY <1>1, <1>3, <2>2 DEF Holding, TypeOK
  <2>4. held' = held
    BY <1>2, <2>3
  <2> QED  BY <1>1, <1>2, <2>1, <2>4 DEF HeapIsExact
<1> QED  BY <1>4, <1>5

\* What an add does, given that the lock kept the collection as it was read.
LEMMA WriteStep ==
  ASSUME Guarded, NEW b \in Blocks, Write(b)
  PROVE  /\ Guarded'
         /\ ABeam!Offer(Current(b))
<1>1. /\ TypeOK /\ MutualExclusion /\ SeenIsFresh /\ HeapIsExact
      /\ IsFiniteSet(coll) /\ ABeam!IsBeam(coll, Offered)
      /\ coll \in SUBSET Hypotheses
  BY DEF Guarded, TypeOK
<1>2. /\ pc[b] = "write" /\ pc' = [pc EXCEPT ![b] = "unlock"]
      /\ done' = [done EXCEPT ![b] = @ + 1]
      /\ UNCHANGED <<mutex, seen, pruned>>
  BY DEF Write
<1>3. done[b] < Len(Offers[b]) /\ Holding(b) /\ InCritical(b)
  BY <1>1, <1>2 DEF TypeOK, Holding, InCritical
<1>4. seen[b] = coll
  BY <1>1, <1>2 DEF SeenIsFresh
<1>5. /\ coll' \in Add(coll, Current(b))
      /\ heap' = heap \ ((coll \union {Current(b)}) \ coll')
  BY <1>4 DEF Write
<1>6. /\ Current(b) \in Hypotheses /\ Current(b) \notin Offered
      /\ Offered' = Offered \union {Current(b)}
      /\ Offered \in SUBSET Hypotheses
  BY <1>1, <1>2, <1>3, CurrentIsNew, OfferedGrows, OfferedIsTyped
<1>7. /\ coll' \in SUBSET (coll \union {Current(b)})
      /\ IsFiniteSet(coll')
      /\ ABeam!IsBeam(coll', Offered')
  BY <1>1, <1>5, <1>6, AddKeepsBeam
<1>8. TypeOK'
  <2>1. done' \in [Blocks -> Nat] /\ pc' \in [Blocks -> Steps]
    BY <1>1, <1>2 DEF TypeOK, Steps
  <2>2. ASSUME NEW c \in Blocks
        PROVE  /\ done'[c] <= Len(Offers[c])
               /\ pc'[c] \in {"new", "lock", "read", "write"}
                    => done'[c] < Len(Offers[c])
    BY <1>1, <1>2, <1>3, OfferTypes DEF TypeOK
  <2>3. coll' \in SUBSET Hypotheses /\ heap' \in SUBSET Hypotheses
    BY <1>1, <1>5, <1>6, <1>7 DEF TypeOK
  <2> QED  BY <1>1, <1>2, <2>1, <2>2, <2>3 DEF TypeOK
<1>9. MutualExclusion'
  <2>1. \A c \in Blocks : InCritical(c)' <=> InCritical(c)
    BY <1>1, <1>2 DEF InCritical, TypeOK
  <2> QED  BY <1>1, <1>2, <2>1 DEF MutualExclusion
<1>10. SeenIsFresh'
  <2>1. ASSUME NEW c \in Blocks
        PROVE  pc'[c] # "write"
    <3>1. CASE c = b
      BY <1>1, <1>2, <3>1 DEF TypeOK
    <3>2. CASE c # b
      <4>1. ~InCritical(c)
        BY <1>1, <1>3, <3>2 DEF MutualExclusion
      <4> QED  BY <1>1, <1>2, <3>2, <4>1 DEF TypeOK, InCritical
    <3> QED  BY <3>1, <3>2
  <2> QED  BY <2>1 DEF SeenIsFresh
<1>11. HeapIsExact'
  <2> DEFINE holders == {d \in Blocks : Holding(d)}
             held == {Current(c) : c \in holders}
             others == {Current(c) : c \in holders \ {b}}
  <2>1. heap = coll \union held
    BY <1>1 DEF HeapIsExact
  <2>2. held = others \union {Current(b)}
    BY <1>3
  <2>3. holders' = holders \ {b}
    BY <1>1, <1>2 DEF Holding, TypeOK
  <2>4. held' = others
    <3>1. \A c \in holders \ {b} : Current(c)' = Current(c)
      BY <1>1, <1>2 DEF Current, TypeOK
    <3> QED  BY <2>3, <3>1
  <2>5. ASSUME NEW c \in holders \ {b}
        PROVE  Current(c) \notin coll /\ Current(c) # Current(b)
    <3>1. done[c] < Len(Offers[c])
      BY <1>1 DEF TypeOK, Holding
    <3>2. Current(c) \notin Offered /\ Current(c) # Current(b)
      BY <1>1, <1>3, <3>1, CurrentIsNew
    <3> QED  BY <1>1, <3>2 DEF ABeam!IsBeam
  <2> HIDE DEF held, holders
  <2>6. heap' = coll' \union others
    BY <1>5, <1>7, <2>1, <2>2, <2>5
  <2> QED  BY <2>4, <2>6 DEF HeapIsExact, held, holders
<1>12. Guarded'
  BY <1>7, <1>8, <1>9, <1>10, <1>11 DEF Guarded
<1>13. ABeam!Offer(Current(b))
  BY <1>6, <1>7 DEF ABeam!Offer
<1> QED  BY <1>12, <1>13

LEMMA PruneStep ==
  ASSUME Guarded, PruneStack
  PROVE  /\ Guarded'
         /\ ABeam!Cut
<1>1. /\ TypeOK /\ MutualExclusion /\ SeenIsFresh /\ HeapIsExact
      /\ IsFiniteSet(coll) /\ ABeam!IsBeam(coll, Offered)
      /\ coll \in SUBSET Hypotheses
  BY DEF Guarded, TypeOK
<1>2. /\ \A b \in Blocks : pc[b] = "done"
      /\ coll' \in Prune(coll)
      /\ heap' = heap \ (coll \ coll')
      /\ pruned' = TRUE
      /\ UNCHANGED <<mutex, pc, done, seen>>
  BY DEF PruneStack
<1>3. /\ coll' \in SUBSET coll /\ IsFiniteSet(coll')
      /\ Cardinality(coll') <= StackSize
      /\ ABeam!IsBeam(coll', Offered)
  BY <1>1, <1>2, OfferedIsTyped, PruneKeepsBeam
<1>4. Offered' = Offered
  BY <1>2 DEF Offered
<1>5. TypeOK' /\ MutualExclusion' /\ SeenIsFresh'
  BY <1>1, <1>2, <1>3
  DEF TypeOK, MutualExclusion, SeenIsFresh, InCritical
<1>6. HeapIsExact'
  <2>1. {d \in Blocks : Holding(d)} = {} /\ {d \in Blocks : Holding(d)}' = {}
    BY <1>2 DEF Holding
  <2>2. heap = coll
    BY <1>1, <2>1 DEF HeapIsExact
  <2>3. heap' = coll'
    BY <1>2, <1>3, <2>2
  <2> QED  BY <2>1, <2>3 DEF HeapIsExact
<1>7. ABeam!Cut
  BY <1>3, <1>4, SameCardinality DEF ABeam!Cut
<1> QED  BY <1>3, <1>4, <1>5, <1>6, <1>7 DEF Guarded

LEMMA StepPreserves == Guarded /\ [Next]_vars => Guarded'
<1> SUFFICES ASSUME Guarded, [Next]_vars PROVE Guarded'
  OBVIOUS
<1>1. CASE UNCHANGED vars
  <2>1. Offered' = Offered
    BY <1>1 DEF vars, Offered
  <2>2. \A c \in Blocks : Current(c)' = Current(c) /\ (Holding(c)' <=> Holding(c))
    BY <1>1 DEF vars, Current, Holding
  <2>3. HeapIsExact'
    BY <1>1, <2>2 DEF Guarded, vars, HeapIsExact
  <2>4. TypeOK' /\ MutualExclusion' /\ SeenIsFresh'
    BY <1>1 DEF Guarded, vars, TypeOK, MutualExclusion, SeenIsFresh, InCritical
  <2> QED  BY <1>1, <2>1, <2>3, <2>4 DEF Guarded, vars
<1>2. CASE PruneStack
  BY <1>2, PruneStep
<1>3. ASSUME NEW b \in Blocks, BlockStep(b)
      PROVE  Guarded'
  <2>1. CASE Write(b)
    BY <2>1, WriteStep
  <2>2. CASE Launch(b) \/ New(b) \/ Acquire(b) \/ Read(b) \/ Release(b)
    <3>1. TypeOK' /\ MutualExclusion' /\ SeenIsFresh' /\ UNCHANGED <<coll, done>>
      BY <2>2, OtherSteps
    <3>2. HeapIsExact'
      BY <2>2, OtherStepsKeepHeap
    <3>3. Offered' = Offered
      BY <3>1 DEF Offered
    <3> QED  BY <3>1, <3>2, <3>3 DEF Guarded
  <2> QED  BY <1>3, <2>1, <2>2 DEF BlockStep
<1> QED  BY <1>1, <1>2, <1>3 DEF Next

LEMMA Invariance == SafetySpec => []Guarded
BY InitEstablishes, StepPreserves, PTL DEF SafetySpec

-----------------------------------------------------------------------------
(* The theorems. *)

(* Every block is at a step of the loop over its target phrases, and never *)
(* past the last one (Manager.cu:116-134).                                 *)
THEOREM TypeCorrect == SafetySpec => []TypeOK
BY Invariance, PTL DEF Guarded

(* The spin lock lets one block at a time work on the stack, whatever the  *)
(* number of blocks (Lock.h:29-34, Manager.cu:128-133).                    *)
THEOREM LockExcludes == SafetySpec => []MutualExclusion
BY Invariance, PTL DEF Guarded

(* No hypothesis is lost without being deleted, and none that a stack or a *)
(* block still holds is deleted (Stack.cu:33-117).                         *)
THEOREM NoLeakNoDangling == SafetySpec => []HeapIsExact
BY Invariance, PTL DEF Guarded

(* The room reserved by the constructor of a stack always suffices, so that*)
(* the device never traps in Vector::reserve (Stack.cu:16, Vector.h:94-103).*)
THEOREM NeverTraps == SafetySpec => []WithinCapacity
<1>1. Guarded => WithinCapacity
  BY ToleranceIsPositive, SameCardinality
  DEF Guarded, WithinCapacity, ABeam!IsBeam
<1> QED  BY <1>1, Invariance, PTL

(* However the blocks interleave, the stack holds a hypothesis as good as  *)
(* the best one that was added to it (Stack.cu:33-117).                    *)
THEOREM BestIsKept == SafetySpec => []BestKept
<1>1. Guarded => BestKept
  <2> SUFFICES ASSUME Guarded, NEW h \in Offered
               PROVE  \E g \in coll : g.score >= h.score
    BY DEF BestKept
  <2>1. ABeam!Accounted(coll, h)
    BY DEF Guarded, ABeam!IsBeam
  <2> DEFINE above == {g \in coll : g.score >= h.score}
  <2>2. CASE Cardinality(above) >= StackSize
    <3>1. Cardinality({}) = 0
      BY FS_EmptySet
    <3>2. above # {}
      BY <2>2, <3>1, StackSizeAssumption
    <3> QED  BY <3>2
  <2>3. CASE \E g \in coll : g.key = h.key /\ g.score >= h.score
    BY <2>3
  <2> QED  BY <2>1, <2>2, <2>3, SameCardinality DEF ABeam!Accounted
<1> QED  BY <1>1, Invariance, PTL

(* A stack, with its lock, its threads and its pruning, is a beam: every   *)
(* hypothesis added is kept, or an equivalent one at least as good is, or a*)
(* full stack of hypotheses at least as good is, in any order of the blocks.*)
THEOREM StackImplementsBeam == SafetySpec => ImplementsBeam
<1>1. Init => ABeam!Init
  <2> SUFFICES ASSUME Init PROVE ABeam!Init
    OBVIOUS
  <2>1. \A c \in Blocks : 1 .. done[c] = {}
    BY DEF Init
  <2>2. Offered = {}
    BY <2>1 DEF Offered
  <2> QED  BY <2>2 DEF Init, ABeam!Init
<1>2. Guarded /\ [Next]_vars => [ABeam!Next]_ABeam!vars
  <2> SUFFICES ASSUME Guarded, [Next]_vars
               PROVE  ABeam!Next \/ UNCHANGED <<Offered, coll>>
    BY DEF ABeam!vars
  <2>1. CASE UNCHANGED vars
    BY <2>1 DEF vars, Offered
  <2>2. CASE PruneStack
    BY <2>2, PruneStep DEF ABeam!Next
  <2>3. ASSUME NEW b \in Blocks, BlockStep(b)
        PROVE  ABeam!Next \/ UNCHANGED <<Offered, coll>>
    <3>1. CASE Write(b)
      <4>1. ABeam!Offer(Current(b))
        BY <3>1, WriteStep
      <4>2. Current(b) \in Hypotheses
        BY <3>1, CurrentIsNew DEF Write, Guarded, TypeOK
      <4> QED  BY <4>1, <4>2 DEF ABeam!Next
    <3>2. CASE Launch(b) \/ New(b) \/ Acquire(b) \/ Read(b) \/ Release(b)
      <4>1. UNCHANGED <<coll, done>>
        BY <3>2, OtherSteps
      <4> QED  BY <4>1 DEF Offered
    <3> QED  BY <2>3, <3>1, <3>2 DEF BlockStep
  <2> QED  BY <2>1, <2>2, <2>3 DEF Next
<1> QED  BY <1>1, <1>2, Invariance, PTL DEF SafetySpec, ImplementsBeam, ABeam!Spec

=============================================================================
