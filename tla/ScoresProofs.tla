---------------------------- MODULE ScoresProofs ----------------------------
(***************************************************************************)
(* Proofs about LanguageModel, for files of n-grams of any length over any *)
(* words, every order, and whatever memory holds behind a context: words   *)
(* are scored in the context of those before them, and the state that      *)
(* decides about recombination is that of the longest n-gram of the file   *)
(* that they make with one word of that memory.                            *)
(*                                                                         *)
(* And about Features, for any lines, weights, tables and outcomes: the    *)
(* layout of scores, weights and states, and the totals of the scores.     *)
(***************************************************************************)
EXTENDS LanguageModel, Features, TrieProofs, FiniteSetTheorems

\* What the theorems assume of the constants: everything is made of words.
MadeOf(W) ==
  /\ \A line \in Lines : line.ngram \in Seq(W)
  /\ Phrases \subseteq Seq(W)
  /\ Eos \in W
  /\ JunkWords \subseteq W

-----------------------------------------------------------------------------
(* Contexts. *)

\* The n-th word of a context is the n-th from the end of the history.
LEMMA NewestFirst ==
  ASSUME NEW W, NEW h \in Seq(W)
  PROVE  LET size == IF Len(h) < Order THEN Len(h) ELSE Order
             ctx  == Reverse(Newest(h, Order))
         IN  /\ ctx \in Seq(W)
             /\ Len(ctx) = size
             /\ \A n \in 1 .. size : ctx[n] = h[Len(h) - n + 1]
<1> DEFINE size == IF Len(h) < Order THEN Len(h) ELSE Order
           s    == Newest(h, Order)
           ctx  == Reverse(s)
<1>1. size \in Nat /\ size <= Len(h) /\ Len(h) \in Nat
  BY OrderAssumption
<1>2. s \in Seq(W) /\ Len(s) = size /\ \A n \in 1 .. size : s[n] = h[Len(h) - size + n]
  <2> DEFINE from == IF Len(h) < Order THEN 1 ELSE Len(h) - Order + 1
  <2>1. s = SubSeq(h, from, Len(h))
    BY DEF Newest
  <2>2. from = Len(h) - size + 1 /\ from \in Int /\ from >= 1 /\ Len(h) \in Int
    BY <1>1, OrderAssumption
  <2> HIDE DEF from, size, s
  <2>3. \A n \in from .. Len(h) : h[n] \in W
    BY <1>1, <2>2, ElementOfSeq
  <2>4. /\ s \in Seq(W)
        /\ Len(s) = IF from <= Len(h) THEN Len(h) - from + 1 ELSE 0
        /\ \A n \in 1 .. Len(h) - from + 1 : s[n] = h[from + n - 1]
    BY <2>1, <2>2, <2>3, SubSeqProperties
  <2>5. Len(s) = size
    BY <1>1, <2>2, <2>4
  <2>6. \A n \in 1 .. size : s[n] = h[Len(h) - size + n]
    <3> SUFFICES ASSUME NEW n \in 1 .. size
                 PROVE  s[n] = h[Len(h) - size + n]
      OBVIOUS
    <3>1. n \in 1 .. Len(h) - from + 1 /\ from + n - 1 = Len(h) - size + n
      BY <1>1, <2>2
    <3> QED  BY <2>4, <3>1
  <2> QED  BY <2>4, <2>5, <2>6
<1> HIDE DEF s, size
<1>3. ctx = [n \in 1 .. size |-> s[size - n + 1]]
  BY <1>2 DEF Reverse
<1>4. \A n \in 1 .. size : size - n + 1 \in 1 .. size
  BY <1>1
<1>5. ctx \in Seq(W) /\ Len(ctx) = size
  <2>1. ctx \in [1 .. size -> W]
    BY <1>2, <1>3, <1>4
  <2> HIDE DEF ctx
  <2>2. ctx \in Seq(W)
    BY <1>1, <2>1, SeqDef
  <2> QED  BY <1>1, <2>1, <2>2
<1>6. \A n \in 1 .. size : ctx[n] = h[Len(h) - n + 1]
  <2> SUFFICES ASSUME NEW n \in 1 .. size
               PROVE  ctx[n] = h[Len(h) - n + 1]
    OBVIOUS
  <2>1. ctx[n] = s[size - n + 1] /\ size - n + 1 \in 1 .. size
    BY <1>3, <1>4
  <2>2. Len(h) - size + (size - n + 1) = Len(h) - n + 1
    BY <1>1
  <2> QED  BY <1>2, <2>1, <2>2
<1> QED  BY <1>5, <1>6 DEF size, s

\* Shifting a word in gives the context of the longer history.
LEMMA ShiftIsHistory ==
  ASSUME NEW W, NEW h \in Seq(W), NEW w \in W
  PROVE  ShiftOrPush(Reverse(Newest(h, Order)), w) = Reverse(Newest(Append(h, w), Order))
<1> DEFINE size == IF Len(h) < Order THEN Len(h) ELSE Order
           ctx  == Reverse(Newest(h, Order))
           kept == IF Len(ctx) < Order THEN ctx ELSE Front(ctx)
           more == Append(h, w)
           after == Reverse(Newest(more, Order))
           long == IF Len(more) < Order THEN Len(more) ELSE Order
<1>1. ctx \in Seq(W) /\ Len(ctx) = size /\ \A n \in 1 .. size : ctx[n] = h[Len(h) - n + 1]
  BY NewestFirst
<1>2. more \in Seq(W) /\ Len(more) = Len(h) + 1 /\ more[Len(h) + 1] = w
      /\ \A n \in 1 .. Len(h) : more[n] = h[n]
  OBVIOUS
<1>3. after \in Seq(W) /\ Len(after) = long /\ \A n \in 1 .. long : after[n] = more[Len(more) - n + 1]
  <2> HIDE DEF more
  <2> QED  BY <1>2, NewestFirst
<1>4. Order \in Nat \ {0} /\ Len(h) \in Nat /\ long \in Nat \ {0} /\ long = (IF Len(h) < Order THEN Len(h) + 1 ELSE Order)
  BY <1>2, OrderAssumption
<1> HIDE DEF ctx, more, after
<1>5. kept \in Seq(W) /\ Len(kept) = long - 1 /\ \A n \in 1 .. long - 1 : kept[n] = ctx[n]
  BY <1>1, <1>4 DEF Front
<1> HIDE DEF kept, long
<1>6. /\ <<w>> \o kept \in Seq(W)
      /\ Len(<<w>> \o kept) = long
      /\ (<<w>> \o kept)[1] = w
      /\ \A n \in 2 .. long : (<<w>> \o kept)[n] = kept[n - 1]
  BY <1>4, <1>5
<1>7. ASSUME NEW n \in 1 .. long
      PROVE  (<<w>> \o kept)[n] = after[n]
  <2>0. after[n] = more[Len(h) + 1 - n + 1]
    BY <1>2, <1>3, <1>4
  <2>1. CASE n = 1
    <3>1. Len(h) + 1 - n + 1 = Len(h) + 1
      BY <1>4, <2>1
    <3> QED  BY <1>2, <1>6, <2>0, <2>1, <3>1
  <2>2. CASE n # 1
    <3>1. n \in 2 .. long /\ n - 1 \in 1 .. long - 1 /\ n - 1 \in 1 .. size
      BY <1>4, <2>2
    <3>2. (<<w>> \o kept)[n] = h[Len(h) - (n - 1) + 1]
      BY <1>1, <1>5, <1>6, <3>1
    <3>3. Len(h) + 1 - n + 1 = Len(h) - (n - 1) + 1 /\ Len(h) - (n - 1) + 1 \in 1 .. Len(h)
      BY <1>4, <3>1
    <3> QED  BY <1>2, <2>0, <3>2, <3>3
  <2> QED  BY <2>1, <2>2
<1>8. <<w>> \o kept = after
  BY <1>3, <1>6, <1>7, SeqEqual
<1> QED  BY <1>8 DEF ShiftOrPush, kept, ctx, after, more

-----------------------------------------------------------------------------
(* The states that scoring comes to. *)

\* The model that is loaded: the nodes that are found are those of the lines.
IsModel(path, W) ==
  /\ IsTrie(root, path, W)
  /\ \A n \in DOMAIN root :
       root[n].value.found => \E line \in ToSet(file) : path[n] = Key(line)
  /\ \A line \in ToSet(file) :
       \E n \in DOMAIN root : root[n].value.found /\ path[n] = Key(line)

ModelIsRight(W) == \E path : IsModel(path, W)

LEMMA ReverseIsASequence ==
  ASSUME NEW W, NEW s \in Seq(W)
  PROVE  Reverse(s) \in Seq(W) /\ Len(Reverse(s)) = Len(s)
<1>1. Reverse(s) \in [1 .. Len(s) -> W] /\ Len(s) \in Nat
  BY DEF Reverse
<1>2. Reverse(s) \in Seq(W)
  BY <1>1, SeqDef
<1> HIDE DEF Reverse
<1> QED  BY <1>1, <1>2

LEMMA NodeOfIsNodeAt ==
  ASSUME NEW W, NEW ngram \in Seq(W)
  PROVE  NodeOf(ngram) = NodeAt(root, Reverse(ngram))
<1> DEFINE key == Reverse(ngram)
<1>1. key \in Seq(W) /\ Len(key) = Len(ngram) /\ Len(ngram) \in Nat
  BY ReverseIsASequence
<1> HIDE DEF key
<1>2. SubSeq(key, 1, Len(ngram)) = key
  BY <1>1, SubSeqFull
<1>3. NodeOf(ngram) = NodeAt(root, SubSeq(key, 0 + 1, Len(ngram) - 1 + 1))
  BY DEF NodeOf, Lookup, key
<1>4. Len(ngram) - 1 + 1 = Len(ngram) /\ 0 + 1 = 1
  BY <1>1
<1> QED  BY <1>2, <1>3, <1>4 DEF key

\* What a lookup of the n newest words and one behind them matches.
LEMMA LookedUpIs ==
  ASSUME NEW W, MadeOf(W),
         NEW ctx \in Seq(W), NEW n \in 1 .. Len(ctx),
         NEW node \in LookedUp(SubSeq(ctx, 1, n))
  PROVE  \E read \in Reads(ctx, n) : read \in Seq(W) /\ node = NodeAt(root, read)
<1> DEFINE front == SubSeq(ctx, 1, n)
<1>1. front \in Seq(W) /\ Len(front) = n /\ n \in Nat
  OBVIOUS
<1>2. PICK junk \in JunkWords : node = Lookup(root, Append(front, junk), 0, Len(front))
  BY DEF LookedUp
<1>3. Append(front, junk) \in Reads(ctx, n)
  BY DEF Reads
<1> HIDE DEF front
<1> DEFINE all == Append(front, junk)
<1>4. all \in Seq(W) /\ Len(all) = n + 1
  BY <1>1 DEF MadeOf
<1>5. SubSeq(all, 0 + 1, Len(front) + 1) = all
  BY <1>1, <1>4, SubSeqFull
<1> HIDE DEF all
<1>6. node = NodeAt(root, all)
  BY <1>2, <1>5 DEF Lookup, all
<1> QED  BY <1>3, <1>4, <1>6 DEF all

\* A lookup that finds a node finds that of an n-gram of the file.
LEMMA HitIsLongest ==
  ASSUME NEW W, MadeOf(W), ModelIsRight(W), ToSet(file) \subseteq Lines,
         NEW ctx \in Seq(W), NEW n \in 1 .. Len(ctx),
         NEW node \in LookedUp(SubSeq(ctx, 1, n)), Found(node)
  PROVE  IsLongest(node, ctx, n)
<1>1. PICK read \in Reads(ctx, n) : read \in Seq(W) /\ node = NodeAt(root, read)
  BY LookedUpIs
<1>2. PICK path : IsModel(path, W)
  BY DEF ModelIsRight
<1>3. node \in DOMAIN root /\ path[node] = read
  BY <1>1, <1>2, LookupIsSound DEF Found, IsModel
<1>4. PICK line \in ToSet(file) : read = Key(line)
  BY <1>2, <1>3 DEF Found, IsModel
<1>5. node = NodeOf(line.ngram)
  BY <1>1, <1>4, NodeOfIsNodeAt DEF MadeOf, Key
<1>6. n \in 0 .. n /\ n # 0 /\ (n + 1) .. n = {}
  OBVIOUS
<1> QED  BY <1>1, <1>4, <1>5, <1>6 DEF IsLongest

\* One that finds none matched what is not in the file: what is the longest
\* without its context is still so with it.
LEMMA MissIsPassedOver ==
  ASSUME NEW W, MadeOf(W), ModelIsRight(W),
         NEW ctx \in Seq(W), NEW n \in 1 .. Len(ctx),
         NEW node \in LookedUp(SubSeq(ctx, 1, n)), ~ Found(node),
         NEW other, IsLongest(other, ctx, n - 1)
  PROVE  IsLongest(other, ctx, n)
<1>1. PICK read \in Reads(ctx, n) : read \in Seq(W) /\ node = NodeAt(root, read)
  BY LookedUpIs
<1>2. PICK path : IsModel(path, W)
  BY DEF ModelIsRight
<1>3. ASSUME NEW line \in ToSet(file), Key(line) = read
      PROVE  FALSE
  <2>1. PICK m \in DOMAIN root : root[m].value.found /\ path[m] = read
    BY <1>2, <1>3 DEF IsModel
  <2>2. NodeAt(root, read) = m
    BY <1>2, <2>1, LookupIsComplete DEF IsModel
  <2>3. m # NULL
    BY <1>2, <2>1, TrieIsASequence DEF IsModel, NULL
  <2> QED  BY <1>1, <2>1, <2>2, <2>3 DEF Found
<1>4. PICK k \in 0 .. (n - 1) :
        /\ IF k = 0
           THEN other = NULL
           ELSE \E line \in ToSet(file) : Key(line) \in Reads(ctx, k) /\ other = NodeOf(line.ngram)
        /\ \A longer \in (k + 1) .. (n - 1) :
             \E missed \in Reads(ctx, longer) : \A line \in ToSet(file) : Key(line) # missed
  BY DEF IsLongest
<1>5. ASSUME NEW longer \in (k + 1) .. n
      PROVE  \E missed \in Reads(ctx, longer) : \A line \in ToSet(file) : Key(line) # missed
  <2>1. CASE longer = n
    BY <1>1, <1>3, <2>1
  <2>2. CASE longer # n
    <3>1. longer \in (k + 1) .. (n - 1)
      BY <2>2
    <3> QED  BY <1>4, <3>1
  <2> QED  BY <2>1, <2>2
<1>6. k \in 0 .. n
  OBVIOUS
<1> QED  BY <1>4, <1>5, <1>6 DEF IsLongest

\* The recursion of Score: the contexts it backs off to, and what it returns.
IsBackedOff(f, ctx) ==
  f = [n \in 0 .. Len(ctx) |-> IF n = Len(ctx) THEN ctx ELSE NewContext(f[n + 1])]

OutcomesOf(ctx, shorterOnes) ==
  LET hits == {node \in LookedUp(ctx) : Found(node)}
  IN  {[first |-> root[node].value.prob, second |-> node] : node \in hits}
      \union
      IF LookedUp(ctx) = hits THEN {}
      ELSE {[first |-> backoff + shorter.first, second |-> shorter.second] :
              backoff \in Backoffs(Tail(ctx)), shorter \in shorterOnes}

NoOutcome == [first |-> 0, second |-> NULL]

AreOutcomes(f, backedOff, n) ==
  f = [k \in 0 .. n |-> IF k = 0 THEN {NoOutcome} ELSE OutcomesOf(backedOff[k], f[k - 1])]

LEMMA BackedOff ==
  ASSUME NEW W, NEW ctx \in Seq(W)
  PROVE  /\ \E f : IsBackedOff(f, ctx)
         /\ \A f : IsBackedOff(f, ctx) => \A n \in 0 .. Len(ctx) : f[n] = SubSeq(ctx, 1, n)
<1>0. Len(ctx) \in Nat
  OBVIOUS
<1>full. SubSeq(ctx, 1, Len(ctx)) = ctx
  BY SubSeqFull
<1>1. ASSUME NEW n \in 0 .. Len(ctx) - 1
      PROVE  NewContext(SubSeq(ctx, 1, n + 1)) = SubSeq(ctx, 1, n)
  <2> DEFINE more == SubSeq(ctx, 1, n + 1)
             less == SubSeq(ctx, 1, n)
  <2>1. more \in Seq(W) /\ Len(more) = n + 1 /\ \A k \in 1 .. n + 1 : more[k] = ctx[k]
    BY <1>0
  <2>2. less \in Seq(W) /\ Len(less) = n /\ \A k \in 1 .. n : less[k] = ctx[k]
    BY <1>0
  <2> HIDE DEF more, less
  <2>3. /\ SubSeq(more, 1, n) \in Seq(W)
        /\ Len(SubSeq(more, 1, n)) = n
        /\ \A k \in 1 .. n : SubSeq(more, 1, n)[k] = more[k]
    BY <1>0, <2>1
  <2>4. SubSeq(more, 1, n) = less
    BY <2>1, <2>2, <2>3, SeqEqual
  <2>5. NewContext(more) = SubSeq(more, 1, n)
    BY <2>1 DEF NewContext, Front
  <2> QED  BY <2>4, <2>5 DEF more, less
<1>2. \E f : IsBackedOff(f, ctx)
  <2> DEFINE f == [n \in 0 .. Len(ctx) |-> SubSeq(ctx, 1, n)]
  <2>1. ASSUME NEW n \in 0 .. Len(ctx)
        PROVE  f[n] = IF n = Len(ctx) THEN ctx ELSE NewContext(f[n + 1])
    <3>1. CASE n = Len(ctx)
      BY <1>full, <3>1
    <3>2. CASE n # Len(ctx)
      <4>1. n \in 0 .. Len(ctx) - 1 /\ n + 1 \in 0 .. Len(ctx)
        BY <1>0, <3>2
      <4>2. f[n + 1] = SubSeq(ctx, 1, n + 1)
        BY <4>1
      <4> QED  BY <1>1, <3>2, <4>1, <4>2
    <3> QED  BY <3>1, <3>2
  <2>2. IsBackedOff(f, ctx)
    BY <2>1 DEF IsBackedOff
  <2> QED  BY <2>2
<1>3. ASSUME NEW f, IsBackedOff(f, ctx)
      PROVE  \A n \in 0 .. Len(ctx) : f[n] = SubSeq(ctx, 1, n)
  <2> DEFINE bad == {m \in 0 .. Len(ctx) : f[Len(ctx) - m] # SubSeq(ctx, 1, Len(ctx) - m)}
  <2>1. ASSUME bad # {}
        PROVE  FALSE
    <3>1. bad \in SUBSET Nat
      BY <1>0
    <3>2. PICK m \in bad : \A y \in bad : m <= y
      <4> HIDE DEF bad
      <4> QED  BY <2>1, <3>1, LeastNatural
    <3>3. m # 0
      <4>1. f[Len(ctx)] = ctx
        BY <1>0, <1>3 DEF IsBackedOff
      <4>2. Len(ctx) - 0 = Len(ctx)
        BY <1>0
      <4> QED  BY <1>full, <3>2, <4>1, <4>2
    <3> DEFINE n == Len(ctx) - m
    <3>4. n \in 0 .. Len(ctx) - 1 /\ n # Len(ctx) /\ n \in 0 .. Len(ctx) /\ m - 1 \in 0 .. Len(ctx)
      <4>1. m \in 1 .. Len(ctx)
        BY <1>0, <3>2, <3>3
      <4> QED  BY <1>0, <4>1
    <3>5. Len(ctx) - (m - 1) = n + 1 /\ ~ (m <= m - 1)
      BY <1>0, <3>2
    <3>6. f[n + 1] = SubSeq(ctx, 1, n + 1)
      BY <3>2, <3>4, <3>5
    <3>7. f[n] = NewContext(f[n + 1])
      <4> HIDE DEF n
      <4> QED  BY <1>3, <3>4 DEF IsBackedOff
    <3>8. f[n] # SubSeq(ctx, 1, n)
      BY <3>2
    <3> HIDE DEF n
    <3> QED  BY <1>1, <3>4, <3>6, <3>7, <3>8
  <2>2. ASSUME NEW n \in 0 .. Len(ctx)
        PROVE  f[n] = SubSeq(ctx, 1, n)
    <3>1. Len(ctx) - n \in 0 .. Len(ctx) /\ Len(ctx) - (Len(ctx) - n) = n
      BY <1>0
    <3> QED  BY <2>1, <3>1
  <2> QED  BY <2>2
<1> QED  BY <1>2, <1>3

LEMMA OutcomesExist ==
  ASSUME NEW backedOff, NEW n \in Nat
  PROVE  \E f : AreOutcomes(f, backedOff, n)
<1> DEFINE bad == {m \in Nat : ~ \E f : AreOutcomes(f, backedOff, m)}
<1>1. SUFFICES ASSUME bad # {}
               PROVE  FALSE
  OBVIOUS
<1>2. PICK m \in bad : \A y \in bad : m <= y
  BY <1>1, LeastNatural
<1>3. m # 0
  <2>1. AreOutcomes([k \in 0 .. 0 |-> {NoOutcome}], backedOff, 0)
    BY DEF AreOutcomes
  <2> QED  BY <2>1, <1>2
<1>4. PICK g : AreOutcomes(g, backedOff, m - 1)
  BY <1>2, <1>3
<1> DEFINE f == [k \in 0 .. m |-> IF k = m THEN OutcomesOf(backedOff[m], g[m - 1]) ELSE g[k]]
<1>5. AreOutcomes(f, backedOff, m)
  <2>1. \A k \in 0 .. m : f[k] = IF k = 0 THEN {NoOutcome} ELSE OutcomesOf(backedOff[k], f[k - 1])
    <3> SUFFICES ASSUME NEW k \in 0 .. m
                 PROVE  f[k] = IF k = 0 THEN {NoOutcome} ELSE OutcomesOf(backedOff[k], f[k - 1])
      OBVIOUS
    <3>1. CASE k = m
      <4>1. k - 1 \in 0 .. m /\ k - 1 # m /\ k # 0
        BY <3>1, <1>3
      <4>2. f[k - 1] = g[m - 1]
        BY <4>1, <3>1
      <4> QED  BY <4>1, <4>2, <3>1
    <3>2. CASE k # m /\ k # 0
      <4>1. k \in 0 .. m - 1 /\ k - 1 \in 0 .. m /\ k - 1 # m
        BY <3>2
      <4>2. g[k] = OutcomesOf(backedOff[k], g[k - 1])
        BY <1>4, <4>1, <3>2 DEF AreOutcomes
      <4>3. f[k] = g[k] /\ f[k - 1] = g[k - 1]
        BY <4>1, <3>2
      <4> QED  BY <4>2, <4>3, <3>2
    <3>3. CASE k = 0
      <4>1. g[0] = {NoOutcome}
        BY <1>4, <1>3 DEF AreOutcomes
      <4> QED  BY <4>1, <3>3, <1>3
    <3> QED  BY <3>1, <3>2, <3>3
  <2> QED  BY <2>1 DEF AreOutcomes
<1> QED  BY <1>5, <1>2

\* Whatever the memory behind the contexts holds, the node that Score returns is
\* that of the longest n-gram that they make with it, or none.
LEMMA ScoreIsLongest ==
  ASSUME NEW W, MadeOf(W), ModelIsRight(W), ToSet(file) \subseteq Lines,
         NEW ctx \in Seq(W), NEW outcome \in Score(ctx)
  PROVE  IsLongest(outcome.second, ctx, Len(ctx))
<1> DEFINE backedOff == CHOOSE f : IsBackedOff(f, ctx)
           outcomes == CHOOSE f : AreOutcomes(f, backedOff, Len(ctx))
           right(n) == \A r \in outcomes[n] : IsLongest(r.second, ctx, n)
           bad == {n \in 0 .. Len(ctx) : ~ right(n)}
<1>0. Len(ctx) \in Nat
  OBVIOUS
<1>1. Score(ctx) = outcomes[Len(ctx)]
  BY DEF Score, IsBackedOff, AreOutcomes, OutcomesOf, NoOutcome
<1>2. IsBackedOff(backedOff, ctx)
  BY BackedOff
<1>3. \A n \in 0 .. Len(ctx) : backedOff[n] = SubSeq(ctx, 1, n)
  <2> HIDE DEF backedOff
  <2> QED  BY <1>2, BackedOff
<1> HIDE DEF backedOff
<1>4. AreOutcomes(outcomes, backedOff, Len(ctx))
  BY <1>0, OutcomesExist
<1> HIDE DEF outcomes
<1>5. /\ outcomes[0] = {NoOutcome}
      /\ \A n \in 1 .. Len(ctx) : outcomes[n] = OutcomesOf(SubSeq(ctx, 1, n), outcomes[n - 1])
  <2>1. outcomes = [k \in 0 .. Len(ctx) |->
                      IF k = 0 THEN {NoOutcome} ELSE OutcomesOf(backedOff[k], outcomes[k - 1])]
    BY <1>4 DEF AreOutcomes
  <2>2. ASSUME NEW n \in 1 .. Len(ctx)
        PROVE  outcomes[n] = OutcomesOf(SubSeq(ctx, 1, n), outcomes[n - 1])
    <3>1. n \in 0 .. Len(ctx) /\ n # 0
      BY <1>0
    <3>2. outcomes[n] = OutcomesOf(backedOff[n], outcomes[n - 1])
      BY <2>1, <3>1
    <3> QED  BY <1>3, <3>1, <3>2
  <2>3. 0 \in 0 .. Len(ctx)
    BY <1>0
  <2> QED  BY <2>1, <2>2, <2>3
<1>6. ASSUME bad # {}
      PROVE  FALSE
  <2>0. bad \in SUBSET Nat
    <3> HIDE DEF right
    <3> QED  BY <1>0
  <2>1. PICK n \in bad : \A y \in bad : n <= y
    <3> HIDE DEF bad
    <3> QED  BY <1>6, <2>0, LeastNatural
  <2>2. right(0)
    BY <1>5 DEF NoOutcome, IsLongest
  <2>3. n \in 1 .. Len(ctx) /\ ~ right(n)
    <3> HIDE DEF right
    <3> QED  BY <2>1, <2>2
  <2>4. right(n - 1)
    <3> HIDE DEF right
    <3> QED  BY <2>1, <2>3
  <2>5. PICK r \in outcomes[n] : ~ IsLongest(r.second, ctx, n)
    BY <2>3
  <2> DEFINE part == SubSeq(ctx, 1, n)
  <2>6. r \in OutcomesOf(part, outcomes[n - 1])
    BY <1>5, <2>3, <2>5
  <2> HIDE DEF part
  <2>7. CASE \E node \in LookedUp(part) :
               Found(node) /\ r = [first |-> root[node].value.prob, second |-> node]
    <3>1. PICK node \in LookedUp(part) : Found(node) /\ r.second = node
      BY <2>7
    <3>2. IsLongest(node, ctx, n)
      BY <2>3, <3>1, HitIsLongest DEF part
    <3> QED  BY <2>5, <3>1, <3>2
  <2>8. CASE /\ \E node \in LookedUp(part) : ~ Found(node)
             /\ \E backoff \in Backoffs(Tail(part)), shorter \in outcomes[n - 1] :
                  r = [first |-> backoff + shorter.first, second |-> shorter.second]
    <3>1. PICK shorter \in outcomes[n - 1] : r.second = shorter.second
      BY <2>8
    <3>2. IsLongest(shorter.second, ctx, n - 1)
      BY <2>4
    <3>3. PICK node \in LookedUp(part) : ~ Found(node)
      BY <2>8
    <3>4. IsLongest(shorter.second, ctx, n)
      BY <2>3, <3>2, <3>3, MissIsPassedOver DEF part
    <3> QED  BY <2>5, <3>1, <3>4
  <2> QED  BY <2>6, <2>7, <2>8 DEF OutcomesOf
<1>7. right(Len(ctx))
  <2> HIDE DEF right
  <2> QED  BY <1>0, <1>6
<1> QED  BY <1>1, <1>7

-----------------------------------------------------------------------------
(* The inductive invariant. *)

Typed(W) ==
  /\ file \in Seq(Lines)
  /\ words \in Seq(W)
  /\ tp \in Seq(W)
  /\ pc \in {"load", "apply", "score", "complete"}
  /\ pc = "score" => i \in 0 .. Len(tp)
  /\ pc = "load" => i = 0 /\ state = NULL

IInv(W) == Typed(W) /\ ModelIsRight(W) /\ ContextIsHistory /\ StateIsNgram

LEMMA HistoryIsOfWords ==
  ASSUME NEW W, MadeOf(W), Typed(W)
  PROVE  History \in Seq(W)
<1>1. CASE pc = "score"
  <2>1. SubSeq(tp, 1, i) \in Seq(W)
    BY <1>1 DEF Typed
  <2> QED  BY <1>1, <2>1 DEF History, Typed
<1>2. CASE pc = "complete"
  BY <1>2 DEF History, Typed, MadeOf
<1>3. CASE pc \notin {"score", "complete"}
  BY <1>3 DEF History, Typed
<1> QED  BY <1>1, <1>2, <1>3

LEMMA InitKeeps ==
  ASSUME NEW W, Init
  PROVE  IInv(W)
<1>1. Typed(W)
  BY DEF Init, Typed
<1>2. ModelIsRight(W)
  <2>1. ~ Unk.found
    BY DEF Unk
  <2>2. root = EmptyTrie(Unk)
    BY DEF Init
  <2> HIDE DEF Unk
  <2> DEFINE path == <<(<<>>)>>
  <2>3. /\ IsTrie(root, path, W)
        /\ \A n \in DOMAIN root : ~ root[n].value.found
    BY <2>1, <2>2, EmptyTrieIsTrie
  <2> HIDE DEF path
  <2>4. ToSet(file) = {}
    BY DEF Init, ToSet
  <2> QED  BY <2>3, <2>4 DEF ModelIsRight, IsModel
<1>3. ContextIsHistory
  <2>1. <<>> \in Seq({})
    OBVIOUS
  <2> DEFINE ctx == Reverse(Newest(<<>>, Order))
  <2>2. ctx \in Seq({}) /\ Len(ctx) = IF Len(<<>>) < Order THEN Len(<<>>) ELSE Order
    BY <2>1, NewestFirst
  <2> HIDE DEF ctx
  <2>3. Len(ctx) = 0
    BY <2>2, OrderAssumption
  <2>4. ctx = <<>>
    BY <2>2, <2>3
  <2> QED  BY <2>4 DEF Init, ContextIsHistory, History, ctx
<1>4. StateIsNgram
  BY DEF Init, StateIsNgram
<1> QED  BY <1>1, <1>2, <1>3, <1>4 DEF IInv

LEMMA LoadLineKeeps ==
  ASSUME NEW W, MadeOf(W), IInv(W), NEW line \in Lines, LoadLine(line)
  PROVE  IInv(W)'
<1> DEFINE at  == AddOrCreateNode(root, Key(line), Unk)
           val == [found |-> TRUE, prob |-> line.prob, backoff |-> line.backoff]
           set == [at.trie EXCEPT ![at.node].value = val]
<1>1. /\ pc = "load" /\ file' = Append(file, line) /\ root' = set
      /\ UNCHANGED <<pc, words, tp, i, context, score, state>>
  BY DEF LoadLine
<1>2. /\ Typed(W) /\ ContextIsHistory
      /\ file \in Seq(Lines)
  BY DEF IInv, Typed
<1>3. Typed(W)'
  BY <1>1, <1>2 DEF Typed
<1>4. ModelIsRight(W)'
  <2>0. PICK path : IsModel(path, W)
    BY DEF IInv, ModelIsRight
  <2>1. /\ IsTrie(root, path, W)
        /\ \A n \in DOMAIN root :
             root[n].value.found => \E l \in ToSet(file) : path[n] = Key(l)
        /\ \A l \in ToSet(file) :
             \E n \in DOMAIN root : root[n].value.found /\ path[n] = Key(l)
    BY <2>0 DEF IsModel
  <2>2. Key(line) \in Seq(W)
    BY ReverseIsASequence DEF Key, MadeOf
  <2>3. PICK paths : Adds(root, path, at, paths, Key(line), Unk, W)
    <3> DEFINE key == Key(line)
               unk == Unk
    <3> HIDE DEF key, unk
    <3>1. \E paths : Adds(root, path, AddOrCreateNode(root, key, unk), paths, key, unk, W)
      BY <2>1, <2>2, AddedNode DEF key
    <3> QED  BY <3>1 DEF key, unk
  <2>4. ~ Unk.found
    BY DEF Unk
  <2>5. val.found
    OBVIOUS
  <2> HIDE DEF at, Unk, val
  <2>6. /\ IsTrie(at.trie, paths, W)
        /\ \A n \in DOMAIN root : paths[n] = path[n] /\ at.trie[n].value = root[n].value
        /\ \A n \in DOMAIN at.trie : n > Len(root) => at.trie[n].value = Unk
        /\ at.node \in DOMAIN at.trie
        /\ paths[at.node] = Key(line)
    BY <2>3 DEF Adds, Grows
  <2>7. /\ IsTrie(set, paths, W)
        /\ DOMAIN set = DOMAIN at.trie
        /\ set[at.node].value = val
        /\ \A n \in DOMAIN at.trie : n # at.node => set[n].value = at.trie[n].value
    BY <2>6, ValueIsSet, Zenon
  <2> HIDE DEF set
  <2>8. /\ line \in ToSet(file') /\ ToSet(file) \subseteq ToSet(file')
        /\ \A l \in ToSet(file') : l \in ToSet(file) \/ l = line
    BY <1>1, <1>2 DEF ToSet
  <2>9. ASSUME NEW n \in DOMAIN set, set[n].value.found
        PROVE  \E l \in ToSet(file') : paths[n] = Key(l)
    <3>1. CASE n = at.node
      BY <2>6, <2>8, <3>1
    <3>2. CASE n # at.node
      <4>1. at.trie[n].value.found /\ n \in DOMAIN at.trie
        BY <2>7, <2>9, <3>2
      <4>2. ~ (n > Len(root))
        BY <2>4, <2>6, <4>1
      <4>3. /\ Len(root) \in Nat /\ DOMAIN root = 1 .. Len(root)
            /\ Len(at.trie) \in Nat /\ DOMAIN at.trie = 1 .. Len(at.trie)
        BY <2>1, <2>6, TrieIsASequence
      <4>4. n \in DOMAIN root
        BY <4>1, <4>2, <4>3
      <4> QED  BY <2>1, <2>6, <2>8, <4>1, <4>4
    <3> QED  BY <3>1, <3>2
  <2>10. \A n \in DOMAIN set :
           set[n].value.found => \E l \in ToSet(file') : paths[n] = Key(l)
    BY <2>9
  <2>11. ASSUME NEW l \in ToSet(file')
         PROVE  \E n \in DOMAIN set : set[n].value.found /\ paths[n] = Key(l)
    <3>1. CASE l = line
      BY <2>5, <2>6, <2>7, <3>1
    <3>2. CASE l \in ToSet(file)
      <4>1. PICK n \in DOMAIN root : root[n].value.found /\ path[n] = Key(l)
        BY <2>1, <3>2
      <4>2. n \in DOMAIN set /\ paths[n] = Key(l) /\ at.trie[n].value.found
        <5>1. DOMAIN root \subseteq DOMAIN at.trie
          <6>1. Len(root) <= Len(at.trie)
            BY <2>3 DEF Adds, Grows
          <6>2. /\ Len(root) \in Nat /\ DOMAIN root = 1 .. Len(root)
                /\ Len(at.trie) \in Nat /\ DOMAIN at.trie = 1 .. Len(at.trie)
            BY <2>1, <2>6, TrieIsASequence
          <6> QED  BY <6>1, <6>2
        <5> QED  BY <2>6, <2>7, <4>1, <5>1
      <4>3. set[n].value.found
        BY <2>5, <2>7, <4>2
      <4> QED  BY <4>2, <4>3
    <3> QED  BY <2>8, <3>1, <3>2
  <2>12. /\ IsTrie(root', paths, W)
         /\ \A n \in DOMAIN root' :
              root'[n].value.found => \E l \in ToSet(file') : paths[n] = Key(l)
         /\ \A l \in ToSet(file') :
              \E n \in DOMAIN root' : root'[n].value.found /\ paths[n] = Key(l)
    <3>1. \A l \in ToSet(file') : \E n \in DOMAIN set : set[n].value.found /\ paths[n] = Key(l)
      BY <2>11
    <3> QED  BY <1>1, <2>7, <2>10, <3>1
  <2>13. IsModel(paths, W)'
    BY <2>12 DEF IsModel, Key
  <2> QED  BY <2>13 DEF ModelIsRight
<1>5. ContextIsHistory'
  BY <1>1, <1>2 DEF ContextIsHistory, History
<1>6. StateIsNgram'
  BY <1>1, <1>2 DEF StateIsNgram, Typed
<1> QED  BY <1>3, <1>4, <1>5, <1>6 DEF IInv

\* The model stays as it is once it is loaded.
LEMMA ModelStays ==
  ASSUME NEW W, ModelIsRight(W), UNCHANGED <<file, root>>
  PROVE  ModelIsRight(W)'
BY DEF ModelIsRight, IsModel, Key

LEMMA LongestStays ==
  ASSUME UNCHANGED <<file, root>>,
         NEW node, NEW ctx, NEW size
  PROVE  IsLongest(node, ctx, size)' <=> IsLongest(node, ctx, size)
BY DEF IsLongest, NodeOf, Reads, Key

LEMMA StateStays ==
  ASSUME StateIsNgram, UNCHANGED <<file, root, i, context, state>>,
         pc = "complete" <=> pc' = "complete"
  PROVE  StateIsNgram'
<1>1. IsLongest(state, context, Len(context))' <=> IsLongest(state, context, Len(context))
  BY LongestStays
<1> QED  BY <1>1 DEF StateIsNgram

\* A word is shifted in and scored.
LEMMA ScoredWord ==
  ASSUME NEW W, MadeOf(W), IInv(W), NEW word \in W,
         context' = ShiftOrPush(context, word)
  PROVE  /\ context' = Reverse(Newest(Append(History, word), Order))
         /\ \A outcome \in Score(context') :
              IsLongest(outcome.second, context', Len(context'))
<1>1. /\ Typed(W) /\ ModelIsRight(W)
      /\ context = Reverse(Newest(History, Order))
  BY DEF IInv, ContextIsHistory
<1>2. PICK h \in Seq(W) : h = History
  BY <1>1, HistoryIsOfWords
<1>3. context' = Reverse(Newest(Append(h, word), Order))
  BY <1>1, <1>2, ShiftIsHistory
<1> DEFINE longer == Append(h, word)
           ctx == Reverse(Newest(longer, Order))
<1>4. ctx \in Seq(W)
  <2>1. longer \in Seq(W)
    OBVIOUS
  <2> HIDE DEF longer
  <2> QED  BY <2>1, NewestFirst
<1>5. ToSet(file) \subseteq Lines
  BY <1>1 DEF Typed, ToSet
<1> HIDE DEF ctx
<1>6. \A outcome \in Score(ctx) : IsLongest(outcome.second, ctx, Len(ctx))
  BY <1>1, <1>4, <1>5, ScoreIsLongest
<1>7. context' = ctx
  BY <1>3 DEF ctx
<1> QED  BY <1>2, <1>3, <1>6, <1>7

LEMMA ScoreWordKeeps ==
  ASSUME NEW W, MadeOf(W), IInv(W), ScoreWord
  PROVE  IInv(W)'
<1>1. /\ pc = "score" /\ i < Len(tp) /\ ScoreNgram(tp[i + 1]) /\ i' = i + 1
      /\ UNCHANGED <<file, root, pc, words, tp>>
      /\ Typed(W) /\ ModelIsRight(W)
  BY DEF ScoreWord, IInv
<1>2. i \in 0 .. Len(tp) /\ tp \in Seq(W) /\ words \in Seq(W) /\ tp[i + 1] \in W
  BY <1>1 DEF Typed
<1>3. PICK outcome \in Score(context') :
        context' = ShiftOrPush(context, tp[i + 1]) /\ state' = outcome.second
  BY <1>1 DEF ScoreNgram
<1>4. /\ context' = Reverse(Newest(Append(History, tp[i + 1]), Order))
      /\ IsLongest(outcome.second, context', Len(context'))
  BY <1>2, <1>3, ScoredWord
<1>5. Append(History, tp[i + 1]) = History'
  <2>1. SubSeq(tp, 1, i + 1) = Append(SubSeq(tp, 1, i), tp[i + 1])
    BY <1>1, <1>2
  <2>2. SubSeq(tp, 1, i) \in Seq(W)
    BY <1>2
  <2>3. Append(words \o SubSeq(tp, 1, i), tp[i + 1]) = words \o Append(SubSeq(tp, 1, i), tp[i + 1])
    BY <1>2, <2>2
  <2>4. History = words \o SubSeq(tp, 1, i) /\ History' = words \o SubSeq(tp, 1, i + 1)
    BY <1>1 DEF History
  <2> QED  BY <2>1, <2>3, <2>4
<1>6. ContextIsHistory'
  BY <1>4, <1>5 DEF ContextIsHistory
<1>7. StateIsNgram'
  <2>1. i' # 0 /\ pc' # "complete"
    BY <1>1, <1>2
  <2>2. \A node, ctx, size : IsLongest(node, ctx, size)' <=> IsLongest(node, ctx, size)
    BY <1>1, LongestStays
  <2> QED  BY <1>3, <1>4, <2>1, <2>2 DEF StateIsNgram
<1>8. Typed(W)'
  BY <1>1, <1>2 DEF Typed
<1> QED  BY <1>1, <1>6, <1>7, <1>8, ModelStays DEF IInv

LEMMA NextKeeps ==
  ASSUME NEW W, MadeOf(W), IInv(W), [Next]_vars
  PROVE  IInv(W)'
<1>1. Typed(W) /\ ModelIsRight(W) /\ ContextIsHistory /\ StateIsNgram
  BY DEF IInv
<1>2. ASSUME NEW line \in Lines, LoadLine(line)
      PROVE  IInv(W)'
  BY <1>2, LoadLineKeeps
<1>3. CASE Loaded
  <2>1. Typed(W)' /\ ContextIsHistory' /\ StateIsNgram'
    BY <1>1, <1>3 DEF Loaded, Typed, ContextIsHistory, History, StateIsNgram
  <2> QED  BY <1>1, <1>3, <2>1, ModelStays DEF Loaded, IInv
<1>4. ASSUME NEW phrase \in Phrases, Apply(phrase)
      PROVE  IInv(W)'
  <2>1. Typed(W)' /\ StateIsNgram'
    BY <1>1, <1>4 DEF Apply, Typed, StateIsNgram, MadeOf
  <2>2. ContextIsHistory'
    <3>1. History' = words \o SubSeq(phrase, 1, 0)
      BY <1>4 DEF Apply, History
    <3>2. SubSeq(phrase, 1, 0) = <<>> /\ words \o <<>> = words
      BY <1>1 DEF Typed
    <3> QED  BY <1>4, <3>1, <3>2 DEF Apply, ContextIsHistory, PrevWords
  <2> QED  BY <1>1, <1>4, <2>1, <2>2, ModelStays DEF Apply, IInv
<1>5. CASE ScoreWord
  BY <1>5, ScoreWordKeeps
<1>6. CASE SetState
  <2>1. tp \in Seq(W) /\ words \in Seq(W) /\ i = Len(tp) /\ pc = "score" /\ pc' = "apply"
    BY <1>1, <1>6 DEF SetState, Typed
  <2>2. Typed(W)' /\ StateIsNgram'
    BY <1>1, <1>6, <2>1, StateStays DEF SetState, Typed
  <2>3. History' = History
    <3>1. SubSeq(tp, 1, Len(tp)) = tp
      BY <2>1, SubSeqFull
    <3> QED  BY <1>6, <2>1, <3>1 DEF SetState, History
  <2>4. ContextIsHistory'
    BY <1>1, <1>6, <2>3 DEF SetState, ContextIsHistory
  <2> QED  BY <1>1, <1>6, <2>2, <2>4, ModelStays DEF SetState, IInv
<1>7. CASE ScoreEos
  <2>1. tp \in Seq(W) /\ words \in Seq(W) /\ i = Len(tp) /\ pc = "score" /\ pc' = "complete"
    BY <1>1, <1>7 DEF ScoreEos, Typed
  <2>2. Typed(W)' /\ StateIsNgram'
    BY <1>1, <1>7, <2>1 DEF ScoreEos, Typed, StateIsNgram
  <2>3. History' = Append(History, Eos)
    <3>1. SubSeq(tp, 1, Len(tp)) = tp
      BY <2>1, SubSeqFull
    <3> QED  BY <1>7, <2>1, <3>1 DEF ScoreEos, History
  <2>4. ContextIsHistory'
    <3>1. Eos \in W
      BY DEF MadeOf
    <3>2. context' = Reverse(Newest(Append(History, Eos), Order))
      BY <1>7, <3>1, ScoredWord DEF ScoreEos
    <3> QED  BY <2>3, <3>2 DEF ContextIsHistory
  <2> QED  BY <1>1, <1>7, <2>2, <2>4, ModelStays DEF ScoreEos, IInv
<1>8. CASE UNCHANGED vars
  <2>1. Typed(W)' /\ ContextIsHistory' /\ StateIsNgram'
    BY <1>1, <1>8, StateStays DEF vars, Typed, ContextIsHistory, History
  <2> QED  BY <1>1, <1>8, <2>1, ModelStays DEF vars, IInv
<1> QED  BY <1>2, <1>3, <1>4, <1>5, <1>6, <1>7, <1>8 DEF Next

-----------------------------------------------------------------------------
LEMMA InvariantHolds ==
  ASSUME NEW W, MadeOf(W)
  PROVE  Spec => []IInv(W)
<1>1. Init => IInv(W)
  BY InitKeeps
<1>2. IInv(W) /\ [Next]_vars => IInv(W)'
  BY NextKeeps
<1> QED  BY <1>1, <1>2, PTL DEF Spec

(***************************************************************************)
(* Each word is scored in the context of the newest words up to the order, *)
(* whatever the phrases and however long the hypothesis                    *)
(* (LanguageModel.cu:104-118, 140-153).                                    *)
(***************************************************************************)
THEOREM ContextAlwaysRight ==
  ASSUME NEW W, MadeOf(W)
  PROVE  Spec => []ContextIsHistory
<1>1. IInv(W) => ContextIsHistory
  BY DEF IInv
<1> QED  BY <1>1, InvariantHolds, PTL

(***************************************************************************)
(* The state that decides about recombination is that of the longest n-gram*)
(* of the file that the newest words make with one word read behind them,  *)
(* and is none when they make none, for files of any size, n-grams of any  *)
(* length, and whatever the memory behind a context holds                  *)
(* (LanguageModel.cu:104-133, 156-194).                                    *)
(***************************************************************************)
THEOREM StateAlwaysNgram ==
  ASSUME NEW W, MadeOf(W)
  PROVE  Spec => []StateIsNgram
<1>1. IInv(W) => StateIsNgram
  BY DEF IInv
<1> QED  BY <1>1, InvariantHolds, PTL

(***************************************************************************)
(* The features                                                            *)
(***************************************************************************)

-----------------------------------------------------------------------------
(* Sums over a finite set, in whatever order. *)

IsSum(F, f, D) ==
  /\ \A x \in D : f[x] \in Int
  /\ F \in [SUBSET D -> Int]
  /\ F[{}] = 0
  /\ \A T \in SUBSET D : \A x \in T : F[T] = f[x] + F[T \ {x}]

LEMMA OneMoreSummand ==
  ASSUME NEW D, NEW y, y \notin D, NEW f, f[y] \in Int, NEW F, IsSum(F, f, D)
  PROVE  \E G : IsSum(G, f, D \union {y})
<1> DEFINE E == D \union {y}
           G == [T \in SUBSET E |-> IF y \in T THEN f[y] + F[T \ {y}] ELSE F[T]]
<1>1. ASSUME NEW T \in SUBSET E
      PROVE  /\ T \ {y} \in SUBSET D
             /\ y \notin T => T \in SUBSET D
  OBVIOUS
<1>2. G \in [SUBSET E -> Int]
  <2>1. ASSUME NEW T \in SUBSET E
        PROVE  (IF y \in T THEN f[y] + F[T \ {y}] ELSE F[T]) \in Int
    <3>1. CASE y \in T
      <4>1. F[T \ {y}] \in Int
        BY <1>1 DEF IsSum
      <4> QED  BY <3>1, <4>1
    <3>2. CASE y \notin T
      BY <1>1, <3>2 DEF IsSum
    <3> QED  BY <3>1, <3>2
  <2> QED  BY <2>1
<1>3. G[{}] = 0
  BY DEF IsSum
<1>4. ASSUME NEW T \in SUBSET E, NEW x \in T
      PROVE  G[T] = f[x] + G[T \ {x}]
  <2> DEFINE U == T \ {x}
  <2>0. U \in SUBSET E /\ G[T] = (IF y \in T THEN f[y] + F[T \ {y}] ELSE F[T])
        /\ G[U] = IF y \in U THEN f[y] + F[U \ {y}] ELSE F[U]
    OBVIOUS
  <2>1. CASE y \notin T
    <3>1. T \in SUBSET D /\ y \notin U
      BY <1>1, <2>1
    <3>2. F[T] = f[x] + F[U]
      BY <3>1 DEF IsSum
    <3> QED  BY <2>0, <2>1, <3>1, <3>2
  <2>2. CASE x = y
    BY <2>0, <2>2
  <2>3. CASE y \in T /\ x # y
    <3> DEFINE V == T \ {y}
    <3>1. V \in SUBSET D /\ x \in V /\ V \ {x} = U \ {y} /\ y \in U
      BY <1>1, <2>3
    <3>2. F[V] = f[x] + F[V \ {x}] /\ V \ {x} \in SUBSET D
      BY <3>1 DEF IsSum
    <3>3. F[V] \in Int /\ F[V \ {x}] \in Int
      BY <3>1, <3>2 DEF IsSum
    <3>4. G[T] = f[y] + F[V] /\ G[U] = f[y] + F[V \ {x}]
      BY <2>0, <2>3, <3>1
    <3>5. f[x] \in Int
      BY <2>3 DEF IsSum
    <3>6. G[T] = f[x] + G[U]
      <4> HIDE DEF G, U, V
      <4> QED  BY <3>2, <3>3, <3>4, <3>5
    <3> QED  BY <3>6
  <2> QED  BY <2>1, <2>2, <2>3
<1> HIDE DEF G
<1>5. IsSum(G, f, E)
  <2>1. \A x \in E : f[x] \in Int
    BY DEF IsSum
  <2> QED  BY <1>2, <1>3, <1>4, <2>1 DEF IsSum
<1> QED  BY <1>5

LEMMA SumExists ==
  ASSUME NEW N \in Nat, NEW D \in SUBSET (0 .. N - 1), NEW f, \A x \in D : f[x] \in Int
  PROVE  \E F : IsSum(F, f, D)
<1> DEFINE part(n) == D \intersect (0 .. n - 1)
           good == {n \in 0 .. N : \E F : IsSum(F, f, part(n))}
<1>1. 0 \in good
  <2>1. part(0) = {}
    OBVIOUS
  <2> DEFINE F == [T \in SUBSET {} |-> 0]
  <2>2. F \in [SUBSET {} -> Int] /\ F[{}] = 0
    OBVIOUS
  <2>3. IsSum(F, f, {})
    BY <2>2 DEF IsSum
  <2> QED  BY <2>1, <2>3
<1>2. ASSUME NEW n \in 1 .. N, n - 1 \in good
      PROVE  n \in good
  <2>1. PICK F : IsSum(F, f, part(n - 1))
    BY <1>2
  <2> DEFINE y == n - 1
  <2>2. CASE y \in D
    <3>1. y \notin part(n - 1) /\ part(n) = part(n - 1) \union {y} /\ f[y] \in Int
      BY <2>2
    <3>2. \E G : IsSum(G, f, part(n - 1) \union {y})
      <4> HIDE DEF part, y
      <4> QED  BY <2>1, <3>1, OneMoreSummand
    <3>3. part(n) = part(n - 1) \union {y}
      BY <3>1
    <3> HIDE DEF part, y
    <3> QED  BY <3>2, <3>3
  <2>3. CASE y \notin D
    <3>1. part(n) = part(n - 1)
      BY <2>3
    <3> HIDE DEF part
    <3> QED  BY <2>1, <3>1
  <2> QED  BY <2>2, <2>3
<1>3. N \in good
  <2>1. \A n \in 0 .. N : n \in good
    <3> HIDE DEF good
    <3> QED  BY <1>1, <1>2, UpTo
  <2> QED  BY <2>1
<1>4. part(N) = D
  OBVIOUS
<1> QED  BY <1>3, <1>4

\* FoldFunction of the sum, from 0.
TotalOf(f) ==
  (CHOOSE iter : iter = [s \in SUBSET (DOMAIN f) |->
                           IF s = {} THEN 0
                           ELSE f[CHOOSE x \in s : TRUE] + iter[s \ {CHOOSE x \in s : TRUE}]])
    [DOMAIN f]

LEMMA TotalIsSum ==
  ASSUME NEW D, IsFiniteSet(D), NEW f, DOMAIN f = D, NEW F, IsSum(F, f, D)
  PROVE  TotalOf(f) = F[D]
<1> DEFINE pick(s) == CHOOSE x \in s : TRUE
           IsIter(g) == g = [s \in SUBSET D |-> IF s = {} THEN 0 ELSE f[pick(s)] + g[s \ {pick(s)}]]
           iter == CHOOSE g : IsIter(g)
<1>1. TotalOf(f) = iter[D]
  BY DEF TotalOf
<1>2. \A s \in SUBSET D : s # {} => pick(s) \in s
  OBVIOUS
<1> HIDE DEF pick
<1>3. IsIter(F)
  <2>1. F = [s \in SUBSET D |-> F[s]]
    BY DEF IsSum
  <2>2. ASSUME NEW s \in SUBSET D
        PROVE  F[s] = IF s = {} THEN 0 ELSE f[pick(s)] + F[s \ {pick(s)}]
    BY <1>2 DEF IsSum
  <2> QED  BY <2>1, <2>2
<1>4. IsIter(iter)
  <2> HIDE DEF IsIter
  <2> QED  BY <1>3
<1>5. \A s \in SUBSET D : iter[s] = IF s = {} THEN 0 ELSE f[pick(s)] + iter[s \ {pick(s)}]
  <2> HIDE DEF iter
  <2> QED  BY <1>4
<1> HIDE DEF iter, IsIter
<1> DEFINE bad == {s \in SUBSET D : iter[s] # F[s]}
<1>6. ASSUME bad # {}
      PROVE  FALSE
  <2> DEFINE R == StrictSubsetOrdering(D)
  <2>1. IsWellFoundedOn(R, SUBSET D)
    BY FS_StrictSubsetOrderingWellFounded, FS_FiniteSubsetsOfFinite
  <2>2. bad \subseteq SUBSET D
    OBVIOUS
  <2>3. PICK T \in bad : \A S \in bad : ~ (<<S, T>> \in R)
    <3> HIDE DEF bad, R
    <3> QED  BY <1>6, <2>1, <2>2, WFMin
  <2>4. T # {}
    BY <1>5 DEF IsSum
  <2> DEFINE U == T \ {pick(T)}
  <2>5. pick(T) \in T /\ U \in SUBSET D /\ U \subseteq T /\ U # T
    BY <1>2, <2>4
  <2>6. <<U, T>> \in R
    BY <2>5 DEF StrictSubsetOrdering
  <2>7. iter[U] = F[U]
    BY <2>3, <2>5, <2>6
  <2>8. F[T] = f[pick(T)] + F[U]
    BY <2>5 DEF IsSum
  <2>9. iter[T] = f[pick(T)] + iter[U]
    BY <1>5, <2>4
  <2> QED  BY <2>3, <2>7, <2>8, <2>9
<1>7. iter[D] = F[D]
  BY <1>6
<1> QED  BY <1>1, <1>7

\* The sum of f over a, a + 1, ... is the last of its partial sums p.
ArePartialSums(p, f, a, n) ==
  /\ p \in [0 .. n -> Int]
  /\ p[0] = 0
  /\ \A m \in 1 .. n : p[m] = p[m - 1] + f[a + m - 1]
  /\ TotalOf(f) = p[n]

LEMMA PartialSumsExist ==
  ASSUME NEW a \in Nat, NEW n \in Nat, NEW f \in [a .. a + n - 1 -> Int]
  PROVE  \E p : ArePartialSums(p, f, a, n)
<1> DEFINE D == a .. a + n - 1
<1>1. D \in SUBSET (0 .. (a + n) - 1) /\ a + n \in Nat /\ IsFiniteSet(D)
  BY FS_Interval
<1>2. \A x \in D : f[x] \in Int
  OBVIOUS
<1>3. PICK F : IsSum(F, f, D)
  <2> HIDE DEF D
  <2> QED  BY <1>1, <1>2, SumExists
<1>4. TotalOf(f) = F[D]
  <2>1. DOMAIN f = D
    OBVIOUS
  <2> HIDE DEF D
  <2> QED  BY <1>1, <1>3, <2>1, TotalIsSum
<1> DEFINE part(m) == a .. a + m - 1
           p == [m \in 0 .. n |-> F[part(m)]]
<1>5. \A m \in 0 .. n : part(m) \in SUBSET D
  OBVIOUS
<1>6. p \in [0 .. n -> Int]
  <2> HIDE DEF part
  <2> QED  BY <1>3, <1>5 DEF IsSum
<1>7. p[0] = 0
  <2>1. part(0) = {}
    OBVIOUS
  <2>2. p[0] = F[part(0)]
    OBVIOUS
  <2> HIDE DEF part, p
  <2> QED  BY <1>3, <2>1, <2>2 DEF IsSum
<1>8. ASSUME NEW m \in 1 .. n
      PROVE  p[m] = p[m - 1] + f[a + m - 1]
  <2> DEFINE x == a + m - 1
  <2>1. x \in part(m) /\ part(m) \ {x} = part(m - 1) /\ m - 1 \in 0 .. n /\ m \in 0 .. n /\ x \in D
    OBVIOUS
  <2>2. p[m] = F[part(m)] /\ p[m - 1] = F[part(m - 1)]
    BY <2>1
  <2> HIDE DEF part, p
  <2>3. F[part(m)] = f[x] + F[part(m - 1)]
    <3>1. part(m) \in SUBSET D
      BY <1>5, <2>1
    <3>2. \A T \in SUBSET D : \A y \in T : F[T] = f[y] + F[T \ {y}]
      BY <1>3 DEF IsSum
    <3> HIDE DEF x, D
    <3>3. F[part(m)] = f[x] + F[part(m) \ {x}]
      BY <2>1, <3>1, <3>2
    <3> QED  BY <2>1, <3>3
  <2>4. F[part(m)] \in Int /\ F[part(m - 1)] \in Int /\ f[x] \in Int
    <3> HIDE DEF x, D
    <3> QED  BY <1>3, <1>5, <2>1 DEF IsSum
  <2> QED  BY <2>2, <2>3, <2>4
<1>9. part(n) = D
  OBVIOUS
<1>10. TotalOf(f) = p[n]
  <2> HIDE DEF part, D
  <2> QED  BY <1>4, <1>9
<1> QED  BY <1>6, <1>7, <1>8, <1>10 DEF ArePartialSums

\* The sums of two functions add up.
LEMMA SumsAdd ==
  ASSUME NEW n \in Nat, NEW f \in [0 .. n - 1 -> Int], NEW g \in [0 .. n - 1 -> Int],
         NEW h \in [0 .. n - 1 -> Int], \A s \in 0 .. n - 1 : h[s] = f[s] + g[s]
  PROVE  /\ TotalOf(h) = TotalOf(f) + TotalOf(g)
         /\ TotalOf(f) \in Int /\ TotalOf(g) \in Int
<1>1. h \in [0 .. 0 + n - 1 -> Int] /\ f \in [0 .. 0 + n - 1 -> Int]
      /\ g \in [0 .. 0 + n - 1 -> Int]
  OBVIOUS
<1>2. PICK p : ArePartialSums(p, f, 0, n)
  BY <1>1, PartialSumsExist
<1>3. PICK q : ArePartialSums(q, g, 0, n)
  BY <1>1, PartialSumsExist
<1>4. PICK r : ArePartialSums(r, h, 0, n)
  BY <1>1, PartialSumsExist
<1> DEFINE good == {m \in 0 .. n : r[m] = p[m] + q[m]}
<1>5. 0 \in good
  BY <1>2, <1>3, <1>4 DEF ArePartialSums
<1>6. ASSUME NEW m \in 1 .. n, m - 1 \in good
      PROVE  m \in good
  <2> DEFINE x == 0 + m - 1
  <2>1. x \in 0 .. n - 1 /\ m - 1 \in 0 .. n /\ m \in 0 .. n
    OBVIOUS
  <2>2. h[x] = f[x] + g[x] /\ f[x] \in Int /\ g[x] \in Int
    BY <2>1
  <2> HIDE DEF x
  <2>3. r[m] = r[m - 1] + h[x] /\ p[m] = p[m - 1] + f[x] /\ q[m] = q[m - 1] + g[x]
    BY <1>2, <1>3, <1>4 DEF ArePartialSums, x
  <2>4. p[m - 1] \in Int /\ q[m - 1] \in Int /\ r[m - 1] = p[m - 1] + q[m - 1]
    BY <1>2, <1>3, <1>6, <2>1 DEF ArePartialSums
  <2> QED  BY <2>1, <2>2, <2>3, <2>4
<1>7. n \in good
  <2>1. \A m \in 0 .. n : m \in good
    <3> HIDE DEF good
    <3> QED  BY <1>5, <1>6, UpTo
  <2> QED  BY <2>1
<1> QED  BY <1>2, <1>3, <1>4, <1>7 DEF ArePartialSums

\* g, of n numbers, is f from place a on and 0 elsewhere.
IsPlacedAt(g, f, a, k, n) ==
  /\ n \in Nat /\ a \in Nat /\ k \in Nat /\ a + k <= n
  /\ f \in [1 .. k -> Int] /\ g \in [0 .. n - 1 -> Int]
  /\ \A s \in 0 .. n - 1 : g[s] = IF s \in a .. a + k - 1 THEN f[s - a + 1] ELSE 0

\* A sum is that of the summands that are not 0.
LEMMA SumOfPart ==
  ASSUME NEW n, NEW a, NEW k, NEW f, NEW g, IsPlacedAt(g, f, a, k, n)
  PROVE  TotalOf(g) = TotalOf(f) /\ TotalOf(f) \in Int
<1> USE DEF IsPlacedAt
<1>1. g \in [0 .. 0 + n - 1 -> Int] /\ f \in [1 .. 1 + k - 1 -> Int]
  OBVIOUS
<1>2. PICK p : ArePartialSums(p, g, 0, n)
  BY <1>1, PartialSumsExist
<1>3. PICK q : ArePartialSums(q, f, 1, k)
  BY <1>1, PartialSumsExist
<1> DEFINE done(m) == IF m <= a THEN 0 ELSE IF m <= a + k THEN m - a ELSE k
           good == {m \in 0 .. n : p[m] = q[done(m)]}
<1>4. 0 \in good
  <2>1. done(0) = 0
    OBVIOUS
  <2> HIDE DEF done
  <2> QED  BY <1>2, <1>3, <2>1 DEF ArePartialSums
<1>5. ASSUME NEW m \in 1 .. n, m - 1 \in good
      PROVE  m \in good
  <2> DEFINE x == 0 + m - 1
  <2>1. x \in 0 .. n - 1 /\ m - 1 \in 0 .. n /\ m \in 0 .. n
    OBVIOUS
  <2>2. g[x] = IF x \in a .. a + k - 1 THEN f[x - a + 1] ELSE 0
    BY <2>1
  <2>3. p[m] = p[m - 1] + g[x] /\ p[m - 1] = q[done(m - 1)] /\ p[m - 1] \in Int
    <3> HIDE DEF done
    <3> QED  BY <1>2, <1>5, <2>1 DEF ArePartialSums
  <2>4. CASE x \in a .. a + k - 1
    <3>1. done(m) = m - a /\ done(m - 1) = m - a - 1 /\ m - a \in 1 .. k /\ x - a + 1 = m - a
          /\ 1 + (m - a) - 1 = m - a
      BY <2>4
    <3> DEFINE j == m - a
    <3>2. q[j] = q[j - 1] + f[1 + j - 1]
      <4>1. j \in 1 .. k
        BY <3>1
      <4> HIDE DEF j
      <4> QED  BY <1>3, <4>1 DEF ArePartialSums
    <3>3. g[x] = f[j]
      BY <2>2, <2>4, <3>1
    <3> HIDE DEF done, x
    <3> QED  BY <2>1, <2>3, <3>1, <3>2, <3>3
  <2>5. CASE x \notin a .. a + k - 1
    <3>1. done(m) = done(m - 1)
      BY <2>5
    <3> HIDE DEF done
    <3> QED  BY <2>1, <2>2, <2>3, <2>5, <3>1
  <2> QED  BY <2>4, <2>5
<1>6. n \in good
  <2>1. \A m \in 0 .. n : m \in good
    <3> HIDE DEF good
    <3> QED  BY <1>4, <1>5, UpTo
  <2> QED  BY <2>1
<1>7. done(n) = k
  OBVIOUS
<1>8. p[n] = q[k]
  BY <1>6, <1>7
<1> QED  BY <1>2, <1>3, <1>8 DEF ArePartialSums

-----------------------------------------------------------------------------
(* The inductive invariant of the features. *)

FeatureRecords ==
  [kind : Stateful \union Stateless \union {Table}, name : {line.name : line \in FeatureLines},
   startInd : Nat, numScores : Nat, stateOffset : Nat]

FeaturesTyped ==
  /\ ffs \in Seq(FeatureRecords)
  /\ totalNumScores \in Nat /\ totalStateSize \in Nat
  /\ statelessFFs \in Seq(Nat) /\ statefulFFs \in Seq(Nat)
  /\ ToSet(statelessFFs) = {n \in DOMAIN ffs : ffs[n].kind \in Stateless}
  /\ ToSet(statefulFFs) = {n \in DOMAIN ffs : ffs[n].kind \in Stateful}
  /\ \A k, l \in DOMAIN statelessFFs : k # l => statelessFFs[k] # statelessFFs[l]
  /\ \A k, l \in DOMAIN statefulFFs : k # l => statefulFFs[k] # statefulFFs[l]
  /\ pt \in SUBSET {n \in DOMAIN ffs : ffs[n].kind = Table}
  /\ \A m, n \in pt : m = n

\* Where a feature's slots and bytes end.
SlotsEnd(ff) == ff.startInd + ff.numScores
StateEnd(ff) == ff.stateOffset + StateSize[ff.kind]

SlotsAreLaid ==
  /\ \A m, n \in DOMAIN ffs : m < n => SlotsEnd(ffs[m]) <= ffs[n].startInd
  /\ \A n \in DOMAIN ffs : SlotsEnd(ffs[n]) <= totalNumScores
  /\ \A s \in 0 .. totalNumScores - 1 : \E n \in DOMAIN ffs : s \in Slots(ffs[n])

StatesAreLaid ==
  /\ \A m, n \in ToSet(statefulFFs) : m < n => StateEnd(ffs[m]) <= ffs[n].stateOffset
  /\ \A n \in ToSet(statefulFFs) : StateEnd(ffs[n]) <= totalStateSize
  /\ \A b \in 0 .. totalStateSize - 1 :
       \E n \in ToSet(statefulFFs) : b \in StateSlots(ffs[n])

\* The lists of weights that are for a feature.
SectionsOf(n) ==
  {k \in DOMAIN sections : sections[k].name = ffs[n].name /\ n = Min(Named(ffs[n].name))}

WeightsSoFar ==
  \A n \in DOMAIN ffs : \A s \in Slots(ffs[n]) :
    LET done == {k \in SectionsOf(n) : k < next}
    IN  IF done = {}
        THEN weights[s] \in Junk
        ELSE \A k \in done : weights[s] = sections[k].weights[s - ffs[n].startInd + 1]

StageIsRight ==
  /\ sections \in SectionLists
  /\ next \in 1 .. Len(sections) + 1
  /\ system \in {"create", "weights", "load", "search", "exception", "undefined", "assert"}
  /\ system = "create" => next = 1
  /\ system \in {"load", "search", "assert"} => next = Len(sections) + 1
  /\ system \in {"create", "weights", "undefined"} => tps = <<>>
  /\ hypos = <<>> <=> system \notin {"search", "assert"}
  /\ \/ weights = <<>> /\ tps = <<>> /\ system \in {"create", "exception"}
     \/ weights \in [0 .. totalNumScores - 1 -> Int] /\ system # "create"
  /\ system \notin {"create", "exception"} => WeightsSoFar

ScoreRecords == [scores : [0 .. totalNumScores - 1 -> Int], total : Int]

Product(values) == TotalOf([s \in DOMAIN weights |-> values[s] * weights[s]])

GoodScores == {sc \in ScoreRecords : sc.total = Product(sc.scores)}

\* What a byte of a state may be.
StateBytes == {NoState} \union {<<outcome.state, b>> : outcome \in Outcomes, b \in 0 .. totalStateSize}

GoodHypos == [scores : GoodScores, stateData : [0 .. totalStateSize - 1 -> StateBytes]]

ScoresAreRight ==
  /\ tps \in Seq(GoodScores)
  /\ hypos \in Seq(GoodHypos)

FeaturesInv ==
  FeaturesTyped /\ SlotsAreLaid /\ StatesAreLaid /\ StageIsRight /\ StatesKept /\ ScoresAreRight

-----------------------------------------------------------------------------
(* Scores and their totals. *)

LEMMA WeightedIsTotal ==
  ASSUME NEW values, NEW ff
  PROVE  Weighted(values, ff)
         = TotalOf([k \in DOMAIN values |-> values[k] * weights[ff.startInd + k - 1]])
BY DEF Weighted, FoldFunction, FoldFunctionOnSet, MapThenFoldSet, TotalOf

LEMMA TotalIsTotalOf ==
  ASSUME NEW values
  PROVE  FoldFunction(LAMBDA x, sum : x + sum, 0, [s \in DOMAIN weights |-> values[s] * weights[s]])
         = Product(values)
BY DEF FoldFunction, FoldFunctionOnSet, MapThenFoldSet, TotalOf, Product

LEMMA Distributes ==
  ASSUME NEW x \in Int, NEW y \in Int, NEW w \in Int
  PROVE  (x + y) * w = x * w + y * w /\ x * w \in Int
OBVIOUS

\* The product of a sum of two vectors is that of their products.
LEMMA ProductAdds ==
  ASSUME totalNumScores \in Nat, weights \in [0 .. totalNumScores - 1 -> Int],
         NEW v \in [0 .. totalNumScores - 1 -> Int], NEW w \in [0 .. totalNumScores - 1 -> Int],
         NEW u, \A s \in 0 .. totalNumScores - 1 : u[s] = v[s] + w[s]
  PROVE  /\ Product(u) = Product(v) + Product(w)
         /\ Product(v) \in Int /\ Product(w) \in Int
<1> DEFINE D == 0 .. totalNumScores - 1
           f == [s \in D |-> v[s] * weights[s]]
           g == [s \in D |-> w[s] * weights[s]]
           h == [s \in D |-> f[s] + g[s]]
<1>1. f \in [D -> Int] /\ g \in [D -> Int]
  BY Distributes
<1>2. \A s \in D : u[s] * weights[s] = f[s] + g[s]
  BY Distributes
<1>3. h = [s \in D |-> u[s] * weights[s]]
  BY <1>2
<1>4. Product(v) = TotalOf(f) /\ Product(w) = TotalOf(g) /\ Product(u) = TotalOf(h)
  <2>1. DOMAIN weights = D
    OBVIOUS
  <2>2. Product(u) = TotalOf([s \in D |-> u[s] * weights[s]])
    BY <2>1 DEF Product
  <2>3. Product(v) = TotalOf(f) /\ Product(w) = TotalOf(g)
    BY <2>1 DEF Product
  <2> HIDE DEF f, g, h, D
  <2> QED  BY <1>3, <2>2, <2>3
<1>5. TotalOf(h) = TotalOf(f) + TotalOf(g) /\ TotalOf(f) \in Int /\ TotalOf(g) \in Int
  <2>1. h \in [D -> Int] /\ \A s \in D : h[s] = f[s] + g[s]
    <3> HIDE DEF f, g
    <3> QED  BY <1>1
  <2> HIDE DEF f, g, h
  <2> QED  BY <1>1, <2>1, SumsAdd, ZenonT(40)
<1> HIDE DEF f, g, h
<1> QED  BY <1>4, <1>5

LEMMA NoScoresAreGood ==
  ASSUME totalNumScores \in Nat, weights \in [0 .. totalNumScores - 1 -> Int]
  PROVE  NoScores \in GoodScores /\ \A s \in 0 .. totalNumScores - 1 : NoScores.scores[s] = 0
<1> DEFINE v == [s \in 0 .. totalNumScores - 1 |-> 0]
<1>1. v \in [0 .. totalNumScores - 1 -> Int] /\ \A s \in 0 .. totalNumScores - 1 : v[s] = v[s] + v[s]
  OBVIOUS
<1>2. NoScores = [scores |-> v, total |-> 0] /\ \A s \in 0 .. totalNumScores - 1 : v[s] = 0
  BY DEF NoScores
<1> HIDE DEF v
<1>3. Product(v) = Product(v) + Product(v) /\ Product(v) \in Int
  BY <1>1, ProductAdds
<1>4. Product(v) = 0
  BY <1>3
<1>5. NoScores.scores = v /\ NoScores.total = 0 /\ NoScores \in ScoreRecords
  BY <1>1, <1>2 DEF ScoreRecords
<1> QED  BY <1>2, <1>4, <1>5 DEF GoodScores

\* The product of a vector that is 0 but for the slots of a feature.
LEMMA ProductOfSlots ==
  ASSUME totalNumScores \in Nat, weights \in [0 .. totalNumScores - 1 -> Int],
         NEW ff, ff.startInd \in Nat, ff.startInd + ff.numScores <= totalNumScores,
         NEW values \in Seq(Int), Len(values) = ff.numScores,
         NEW v, v = [s \in 0 .. totalNumScores - 1 |->
                       IF s \in Slots(ff) THEN values[s - ff.startInd + 1] ELSE 0]
  PROVE  /\ v \in [0 .. totalNumScores - 1 -> Int]
         /\ Weighted(values, ff) = Product(v) /\ Product(v) \in Int
<1> DEFINE D == 0 .. totalNumScores - 1
           a == ff.startInd
           k == Len(values)
           f == [j \in 1 .. k |-> values[j] * weights[a + j - 1]]
           g == [s \in D |-> IF s \in a .. a + k - 1 THEN f[s - a + 1] ELSE 0]
<1>1. k \in Nat /\ a \in Nat /\ a + k <= totalNumScores /\ DOMAIN values = 1 .. k
      /\ \A j \in 1 .. k : values[j] \in Int
  OBVIOUS
<1>2. Slots(ff) = a .. a + k - 1
  BY DEF Slots
<1>3. \A j \in 1 .. k : a + j - 1 \in D
  BY <1>1, SMTT(20)
<1>4. f \in [1 .. k -> Int]
  <2>1. ASSUME NEW j \in 1 .. k
        PROVE  values[j] * weights[a + j - 1] \in Int
    <3>1. weights[a + j - 1] \in Int /\ values[j] \in Int
      BY <1>1, <1>3
    <3> HIDE DEF a, k
    <3> QED  BY <3>1, Distributes
  <2> HIDE DEF a, k
  <2> QED  BY <2>1
<1>5. \A s \in D : s \in a .. a + k - 1 => s - a + 1 \in 1 .. k /\ a + (s - a + 1) - 1 = s
  <2> HIDE DEF a, k
  <2> QED  BY <1>1
<1>6. v \in [D -> Int]
  <2>1. \A s \in D : (IF s \in a .. a + k - 1 THEN values[s - a + 1] ELSE 0) \in Int
    BY <1>1, <1>5
  <2>2. v = [s \in D |-> IF s \in a .. a + k - 1 THEN values[s - a + 1] ELSE 0]
    BY <1>2
  <2> HIDE DEF D, a, k
  <2> QED  BY <2>1, <2>2
<1>7. Weighted(values, ff) = TotalOf(f)
  BY <1>1, WeightedIsTotal
<1>8. TotalOf(g) = TotalOf(f) /\ TotalOf(f) \in Int
  <2>1. /\ g \in [D -> Int]
        /\ \A s \in D : g[s] = IF s \in a .. a + k - 1 THEN f[s - a + 1] ELSE 0
    <3> HIDE DEF f, a, k
    <3> QED  BY <1>4, <1>5
  <2>2. k \in Nat /\ a \in Nat /\ a + k <= totalNumScores
    BY <1>1
  <2> HIDE DEF f, g, a, k
  <2>3. IsPlacedAt(g, f, a, k, totalNumScores)
    BY <1>4, <2>1, <2>2 DEF IsPlacedAt
  <2> QED  BY <2>3, SumOfPart
<1>9. g = [s \in D |-> v[s] * weights[s]]
  <2>1. ASSUME NEW s \in D
        PROVE  (IF s \in a .. a + k - 1 THEN f[s - a + 1] ELSE 0) = v[s] * weights[s]
    <3>0. weights[s] \in Int
      OBVIOUS
    <3>1. CASE s \in a .. a + k - 1
      <4>1. v[s] = values[s - a + 1]
        BY <1>2, <3>1
      <4>2. f[s - a + 1] = values[s - a + 1] * weights[s]
        BY <1>5, <3>1
      <4> QED  BY <3>1, <4>1, <4>2
    <3>2. CASE s \notin a .. a + k - 1
      <4>1. v[s] = 0
        BY <1>2, <3>2
      <4> QED  BY <3>0, <3>2, <4>1
    <3> QED  BY <3>1, <3>2
  <2> HIDE DEF D, f, a, k
  <2> QED  BY <2>1
<1>10. Product(v) = TotalOf(g)
  <2>1. DOMAIN weights = D
    OBVIOUS
  <2>2. Product(v) = TotalOf([s \in D |-> v[s] * weights[s]])
    BY <2>1 DEF Product
  <2> HIDE DEF g, D
  <2> QED  BY <1>9, <2>2
<1> HIDE DEF f, g, a, k
<1> QED  BY <1>6, <1>7, <1>8, <1>10

\* Scores are assigned only where there were none.
LEMMA PlusEqualIsGood ==
  ASSUME totalNumScores \in Nat, weights \in [0 .. totalNumScores - 1 -> Int],
         NEW sc \in GoodScores,
         NEW ff, ff.startInd \in Nat, ff.startInd + ff.numScores <= totalNumScores,
         NEW values \in Seq(Int), Len(values) = ff.numScores,
         \A s \in Slots(ff) : sc.scores[s] = 0
  PROVE  /\ PlusEqual(sc, ff, values) \in GoodScores
         /\ \A s \in 0 .. totalNumScores - 1 :
              s \notin Slots(ff) => PlusEqual(sc, ff, values).scores[s] = sc.scores[s]
<1> DEFINE D == 0 .. totalNumScores - 1
           v == sc.scores
           w == [s \in D |-> IF s \in Slots(ff) THEN values[s - ff.startInd + 1] ELSE 0]
           u == [s \in D |-> IF s \in Slots(ff) THEN values[s - ff.startInd + 1] ELSE v[s]]
<1>1. v \in [D -> Int] /\ sc.total = Product(v) /\ DOMAIN v = D
  BY DEF GoodScores, ScoreRecords
<1>2. w \in [D -> Int] /\ Weighted(values, ff) = Product(w) /\ Product(w) \in Int
  <2>1. w = [s \in 0 .. totalNumScores - 1 |->
               IF s \in Slots(ff) THEN values[s - ff.startInd + 1] ELSE 0]
    OBVIOUS
  <2>2. D = 0 .. totalNumScores - 1
    OBVIOUS
  <2> HIDE DEF w, D
  <2> QED  BY <2>1, <2>2, ProductOfSlots, ZenonT(40)
<1>3. ASSUME NEW s \in D
      PROVE  u[s] = v[s] + w[s] /\ u[s] \in Int
  <2>1. v[s] \in Int /\ w[s] \in Int
    <3> HIDE DEF v, w
    <3> QED  BY <1>1, <1>2
  <2>2. CASE s \in Slots(ff)
    <3>1. u[s] = w[s] /\ v[s] = 0
      BY <2>2
    <3> HIDE DEF u, v, w
    <3> QED  BY <2>1, <3>1
  <2>3. CASE s \notin Slots(ff)
    <3>1. u[s] = v[s] /\ w[s] = 0
      BY <2>3
    <3> HIDE DEF u, v, w
    <3> QED  BY <2>1, <3>1
  <2> QED  BY <2>2, <2>3
<1>4. PlusEqual(sc, ff, values) = [scores |-> u, total |-> sc.total + Weighted(values, ff)]
  BY <1>1 DEF PlusEqual
<1>5. \A s \in D : s \notin Slots(ff) => u[s] = v[s]
  OBVIOUS
<1>6. u = [s \in D |-> u[s]]
  OBVIOUS
<1> HIDE DEF u, v, w
<1>7. Product(u) = Product(v) + Product(w) /\ Product(v) \in Int
  BY <1>1, <1>2, <1>3, ProductAdds, ZenonT(40)
<1>8. u \in [D -> Int]
  BY <1>3, <1>6
<1>9. [scores |-> u, total |-> sc.total + Weighted(values, ff)] \in GoodScores
  BY <1>1, <1>2, <1>7, <1>8 DEF GoodScores, ScoreRecords
<1>10. \A s \in D : s \notin Slots(ff) => PlusEqual(sc, ff, values).scores[s] = sc.scores[s]
  BY <1>4, <1>5 DEF v
<1> QED  BY <1>4, <1>9, <1>10

LEMMA AddScoreIsGood ==
  ASSUME totalNumScores \in Nat, weights \in [0 .. totalNumScores - 1 -> Int],
         NEW sc \in GoodScores,
         NEW ff, ff.startInd \in Nat, ff.startInd + ff.numScores <= totalNumScores,
         ff.numScores = 1, NEW value \in Int
  PROVE  AddScore(sc, ff, value) \in GoodScores
<1> DEFINE D == 0 .. totalNumScores - 1
           values == <<value>>
           v == sc.scores
           w == [s \in D |-> IF s \in Slots(ff) THEN values[s - ff.startInd + 1] ELSE 0]
           u == [v EXCEPT ![ff.startInd] = @ + value]
<1>1. v \in [D -> Int] /\ sc.total = Product(v) /\ DOMAIN v = D
  BY DEF GoodScores, ScoreRecords
<1>2. w \in [D -> Int] /\ Weighted(values, ff) = Product(w) /\ Product(w) \in Int
  <2>1. w = [s \in 0 .. totalNumScores - 1 |->
               IF s \in Slots(ff) THEN values[s - ff.startInd + 1] ELSE 0]
    OBVIOUS
  <2>2. values \in Seq(Int) /\ Len(values) = 1
    OBVIOUS
  <2> HIDE DEF w, values
  <2> QED  BY <2>1, <2>2, ProductOfSlots
<1>3. ASSUME NEW s \in D
      PROVE  u[s] = v[s] + w[s] /\ u[s] \in Int
  <2>1. v[s] \in Int
    <3> HIDE DEF v
    <3> QED  BY <1>1
  <2>2. s \in Slots(ff) <=> s = ff.startInd
    BY DEF Slots
  <2>3. w[s] = IF s = ff.startInd THEN value ELSE 0
    BY <2>2
  <2>4. u[s] = IF s = ff.startInd THEN v[s] + value ELSE v[s]
    <3> HIDE DEF v
    <3> QED  BY <1>1
  <2> HIDE DEF u, v, w
  <2> QED  BY <2>1, <2>3, <2>4
<1>4. AddScore(sc, ff, value) = [scores |-> u, total |-> sc.total + Weighted(values, ff)]
  BY DEF AddScore
<1>5. u = [s \in D |-> u[s]]
  <2> HIDE DEF v
  <2> QED  BY <1>1
<1> HIDE DEF u, v, w
<1>6. Product(u) = Product(v) + Product(w) /\ Product(v) \in Int
  BY <1>1, <1>2, <1>3, ProductAdds, ZenonT(40)
<1>7. u \in [D -> Int]
  BY <1>3, <1>5
<1> HIDE DEF values
<1>8. [scores |-> u, total |-> sc.total + Weighted(values, ff)] \in GoodScores
  <2>1. sc.total + Weighted(values, ff) = Product(u) /\ Product(u) \in Int
    BY <1>1, <1>2, <1>6
  <2> QED  BY <1>7, <2>1 DEF GoodScores, ScoreRecords
<1> QED  BY <1>4, <1>8

LEMMA AddScoresIsGood ==
  ASSUME totalNumScores \in Nat, weights \in [0 .. totalNumScores - 1 -> Int],
         NEW sc \in GoodScores, NEW other \in GoodScores
  PROVE  AddScores(sc, other) \in GoodScores
<1> DEFINE D == 0 .. totalNumScores - 1
           v == sc.scores
           w == other.scores
           u == [s \in D |-> v[s] + w[s]]
<1>1. v \in [D -> Int] /\ sc.total = Product(v) /\ DOMAIN v = D
      /\ w \in [D -> Int] /\ other.total = Product(w)
  BY DEF GoodScores, ScoreRecords
<1>2. AddScores(sc, other) = [scores |-> u, total |-> sc.total + other.total]
  BY <1>1 DEF AddScores
<1> HIDE DEF v, w
<1>3. u \in [D -> Int] /\ \A s \in D : u[s] = v[s] + w[s]
  BY <1>1
<1> HIDE DEF u
<1>4. Product(u) = Product(v) + Product(w) /\ Product(v) \in Int /\ Product(w) \in Int
  <2>1. v \in [D -> Int] /\ w \in [D -> Int] /\ \A s \in D : u[s] = v[s] + w[s]
    BY <1>1, <1>3
  <2> QED  BY <2>1, ProductAdds, ZenonT(40)
<1>5. [scores |-> u, total |-> sc.total + other.total] \in GoodScores
  BY <1>1, <1>3, <1>4 DEF GoodScores, ScoreRecords
<1> QED  BY <1>2, <1>5

\* Records of features and their places.
LEMMA FeatureAt ==
  ASSUME FeaturesTyped, NEW n \in DOMAIN ffs
  PROVE  /\ Len(ffs) \in Nat /\ DOMAIN ffs = 1 .. Len(ffs)
         /\ ffs[n] \in FeatureRecords
         /\ ffs[n].startInd \in Nat /\ ffs[n].numScores \in Nat /\ ffs[n].stateOffset \in Nat
<1>1. ffs \in Seq(FeatureRecords)
  BY DEF FeaturesTyped
<1>2. Len(ffs) \in Nat /\ DOMAIN ffs = 1 .. Len(ffs) /\ ffs[n] \in FeatureRecords
  BY <1>1
<1> QED  BY <1>2 DEF FeatureRecords

LEMMA SlotsApart ==
  ASSUME FeaturesTyped, SlotsAreLaid, NEW m \in DOMAIN ffs, NEW n \in DOMAIN ffs, m # n
  PROVE  Slots(ffs[m]) \intersect Slots(ffs[n]) = {}
<1>1. m \in Nat /\ n \in Nat /\ ffs[m].startInd \in Nat /\ ffs[m].numScores \in Nat
      /\ ffs[n].startInd \in Nat /\ ffs[n].numScores \in Nat
  BY FeatureAt
<1>2. SlotsEnd(ffs[m]) <= ffs[n].startInd \/ SlotsEnd(ffs[n]) <= ffs[m].startInd
  BY <1>1 DEF SlotsAreLaid
<1> QED  BY <1>1, <1>2 DEF SlotsEnd, Slots

LEMMA StateSlotsApart ==
  ASSUME FeaturesTyped, StatesAreLaid,
         NEW m \in ToSet(statefulFFs), NEW n \in ToSet(statefulFFs), m # n
  PROVE  StateSlots(ffs[m]) \intersect StateSlots(ffs[n]) = {}
<1>1. m \in DOMAIN ffs /\ n \in DOMAIN ffs /\ ffs[m].kind \in Stateful /\ ffs[n].kind \in Stateful
  BY DEF FeaturesTyped
<1>2. m \in Nat /\ n \in Nat /\ ffs[m].stateOffset \in Nat /\ ffs[n].stateOffset \in Nat
      /\ StateSize[ffs[m].kind] \in Nat /\ StateSize[ffs[n].kind] \in Nat
  BY <1>1, FeatureAt, FeaturesAssumption
<1>3. StateEnd(ffs[m]) <= ffs[n].stateOffset \/ StateEnd(ffs[n]) <= ffs[m].stateOffset
  BY <1>2 DEF StatesAreLaid
<1> QED  BY <1>2, <1>3 DEF StateEnd, StateSlots

LEMMA PlusEqualIsTyped ==
  ASSUME totalNumScores \in Nat, weights \in [0 .. totalNumScores - 1 -> Int],
         NEW sc \in ScoreRecords,
         NEW ff, ff.startInd \in Nat, ff.startInd + ff.numScores <= totalNumScores,
         NEW values \in Seq(Int), Len(values) = ff.numScores
  PROVE  PlusEqual(sc, ff, values) \in ScoreRecords
<1> DEFINE D == 0 .. totalNumScores - 1
           v == sc.scores
           w == [s \in D |-> IF s \in Slots(ff) THEN values[s - ff.startInd + 1] ELSE 0]
           u == [s \in D |-> IF s \in Slots(ff) THEN values[s - ff.startInd + 1] ELSE v[s]]
<1>1. v \in [D -> Int] /\ sc.total \in Int /\ DOMAIN v = D
  BY DEF ScoreRecords
<1>2. w \in [D -> Int] /\ Weighted(values, ff) = Product(w) /\ Product(w) \in Int
  <2>1. w = [s \in 0 .. totalNumScores - 1 |->
               IF s \in Slots(ff) THEN values[s - ff.startInd + 1] ELSE 0]
    OBVIOUS
  <2>2. D = 0 .. totalNumScores - 1
    OBVIOUS
  <2> HIDE DEF w, D
  <2> QED  BY <2>1, <2>2, ProductOfSlots
<1>3. u \in [D -> Int]
  <2>1. ASSUME NEW s \in D
        PROVE  (IF s \in Slots(ff) THEN values[s - ff.startInd + 1] ELSE v[s]) \in Int
    <3>1. v[s] \in Int /\ w[s] \in Int
      <4> HIDE DEF v, w
      <4> QED  BY <1>1, <1>2
    <3>2. s \in Slots(ff) => w[s] = values[s - ff.startInd + 1]
      OBVIOUS
    <3> HIDE DEF v, w
    <3> QED  BY <3>1, <3>2
  <2> HIDE DEF v
  <2> QED  BY <2>1
<1>4. PlusEqual(sc, ff, values) = [scores |-> u, total |-> sc.total + Weighted(values, ff)]
  BY <1>1 DEF PlusEqual
<1> HIDE DEF u, v, w
<1>5. sc.total + Weighted(values, ff) \in Int
  BY <1>1, <1>2
<1> QED  BY <1>3, <1>4, <1>5 DEF ScoreRecords

\* The word penalties come one after the other, each to slots where nothing was.
LEMMA IsolationIsGood ==
  ASSUME FeaturesTyped, SlotsAreLaid, weights \in [0 .. totalNumScores - 1 -> Int],
         NEW line, line.size \in Int, NEW sc \in GoodScores,
         \A n \in WordPenalties :
           ffs[n].numScores = 1 /\ \A s \in Slots(ffs[n]) : sc.scores[s] = 0
  PROVE  EvaluateInIsolation(sc, line) \in GoodScores
<1> DEFINE seq == statelessFFs
           N   == Len(seq)
           op(acc, n) == IF n \in WordPenalties
                         THEN PlusEqual(acc, ffs[n], << - line.size >>) ELSE acc
           IsIter(f) == f = [s \in SUBSET (1 .. N) |->
                               IF s = {} THEN sc ELSE op(f[s \ {Max(s)}], seq[Max(s)])]
           iter == CHOOSE f : IsIter(f)
<1>1. N \in Nat /\ DOMAIN seq = 1 .. N /\ totalNumScores \in Nat
  BY DEF FeaturesTyped
<1>2. EvaluateInIsolation(sc, line) = iter[1 .. N]
  BY <1>1 DEF EvaluateInIsolation, FoldLeft, MapThenFoldSet
<1>3. ASSUME NEW n \in WordPenalties
      PROVE  /\ n \in DOMAIN ffs /\ ffs[n].startInd \in Nat /\ ffs[n].numScores = 1
             /\ ffs[n].startInd + ffs[n].numScores <= totalNumScores
  <2>1. n \in DOMAIN ffs
    BY DEF WordPenalties, FeaturesTyped
  <2> QED  BY <2>1, FeatureAt DEF SlotsAreLaid, SlotsEnd
<1>4. << - line.size >> \in Seq(Int) /\ Len(<< - line.size >>) = 1
  OBVIOUS
<1>5. ASSUME NEW acc \in ScoreRecords, NEW n
      PROVE  op(acc, n) \in ScoreRecords
  <2>1. CASE n \in WordPenalties
    <3>1. PlusEqual(acc, ffs[n], << - line.size >>) \in ScoreRecords
      BY <1>1, <1>3, <1>4, <2>1, PlusEqualIsTyped
    <3> QED  BY <2>1, <3>1
  <2>2. CASE n \notin WordPenalties
    BY <2>2
  <2> QED  BY <2>1, <2>2
<1>6. ASSUME NEW acc \in GoodScores, NEW n \in WordPenalties,
             \A s \in Slots(ffs[n]) : acc.scores[s] = 0
      PROVE  /\ op(acc, n) \in GoodScores
             /\ \A s \in 0 .. totalNumScores - 1 :
                  s \notin Slots(ffs[n]) => op(acc, n).scores[s] = acc.scores[s]
  BY <1>1, <1>3, <1>4, <1>6, PlusEqualIsGood, ZenonT(40)
<1>7. \A acc : \A n : n \notin WordPenalties => op(acc, n) = acc
  OBVIOUS
<1> HIDE DEF op, seq, N
<1>8. IsIter(iter)
  <2> DEFINE step == [k \in 1 .. N |-> [x \in ScoreRecords |-> op(x, seq[k])]]
  <2>1. step \in [1 .. N -> [ScoreRecords -> ScoreRecords]]
    BY <1>5
  <2>2. sc \in ScoreRecords
    BY DEF GoodScores
  <2>3. PICK f \in [SUBSET (1 .. N) -> ScoreRecords] : IsFold(f, step, sc, N)
    <3> HIDE DEF step
    <3> QED  BY <1>1, <2>1, <2>2, FoldExists
  <2>4. ASSUME NEW s \in SUBSET (1 .. N)
        PROVE  f[s] = IF s = {} THEN sc ELSE op(f[s \ {Max(s)}], seq[Max(s)])
    <3>1. CASE s = {}
      BY <2>3, <3>1 DEF IsFold
    <3>2. CASE s # {}
      <4>1. Max(s) \in 1 .. N
        BY <1>1, <3>2, MaxIs
      <4>2. f[s] = step[Max(s)][f[s \ {Max(s)}]] /\ f[s \ {Max(s)}] \in ScoreRecords
        <5> HIDE DEF step
        <5> QED  BY <2>3, <3>2 DEF IsFold
      <4> QED  BY <3>2, <4>1, <4>2
    <3> QED  BY <3>1, <3>2
  <2>5. f = [s \in SUBSET (1 .. N) |-> f[s]]
    OBVIOUS
  <2>6. IsIter(f)
    <3> HIDE DEF step
    <3> QED  BY <2>4, <2>5
  <2> HIDE DEF IsIter
  <2> QED  BY <2>6
<1>9. \A s \in SUBSET (1 .. N) :
        iter[s] = IF s = {} THEN sc ELSE op(iter[s \ {Max(s)}], seq[Max(s)])
  <2> HIDE DEF iter
  <2> QED  BY <1>8
<1> HIDE DEF iter, IsIter
\* After k of the features the scores of the word penalties to come are still 0.
<1> DEFINE good == {k \in 0 .. N :
                      /\ iter[1 .. k] \in GoodScores
                      /\ \A j \in k + 1 .. N :
                           seq[j] \in WordPenalties =>
                             \A s \in Slots(ffs[seq[j]]) : iter[1 .. k].scores[s] = 0}
<1>10. 0 \in good
  <2>1. 1 .. 0 = {} /\ {} \in SUBSET (1 .. N)
    OBVIOUS
  <2>2. iter[1 .. 0] = sc
    BY <1>9, <2>1
  <2> QED  BY <1>1, <2>2
<1>11. ASSUME NEW k \in 1 .. N, k - 1 \in good
       PROVE  k \in good
  <2> DEFINE acc == iter[1 .. k - 1]
             n   == seq[k]
  <2>1. iter[1 .. k] = op(acc, n)
    <3>1. /\ 1 .. k \in SUBSET (1 .. N) /\ 1 .. k # {} /\ Max(1 .. k) = k
          /\ (1 .. k) \ {Max(1 .. k)} = 1 .. k - 1
      BY <1>1, MaxOfPrefix
    <3> QED  BY <1>9, <3>1
  <2>2. /\ acc \in GoodScores
        /\ \A j \in k .. N : seq[j] \in WordPenalties =>
             \A s \in Slots(ffs[seq[j]]) : acc.scores[s] = 0
    <3>1. (k - 1) + 1 = k
      OBVIOUS
    <3> QED  BY <1>11, <3>1
  <2>3. k \in 0 .. N /\ k \in k .. N /\ k + 1 .. N \subseteq k .. N
    BY <1>1
  <2> HIDE DEF acc
  <2>4. CASE n \in WordPenalties
    <3>1. /\ op(acc, n) \in GoodScores
          /\ \A s \in 0 .. totalNumScores - 1 :
               s \notin Slots(ffs[n]) => op(acc, n).scores[s] = acc.scores[s]
      BY <1>6, <2>2, <2>3, <2>4
    <3>2. ASSUME NEW j \in k + 1 .. N, seq[j] \in WordPenalties, NEW s \in Slots(ffs[seq[j]])
          PROVE  op(acc, n).scores[s] = 0
      <4>1. seq[j] # n
        <5>1. j \in 1 .. N /\ k \in 1 .. N /\ j # k
          BY <1>1
        <5> QED  BY <1>1, <5>1 DEF FeaturesTyped, seq
      <4>2. s \notin Slots(ffs[n])
        BY <1>3, <2>4, <3>2, <4>1, SlotsApart
      <4>3. s \in 0 .. totalNumScores - 1
        <5>1. /\ ffs[seq[j]].startInd \in Nat /\ ffs[seq[j]].numScores = 1
              /\ ffs[seq[j]].startInd + ffs[seq[j]].numScores <= totalNumScores
          BY <1>3, <3>2
        <5> QED  BY <1>1, <5>1 DEF Slots
      <4>4. acc.scores[s] = 0
        BY <2>2, <2>3, <3>2
      <4> QED  BY <3>1, <4>2, <4>3, <4>4
    <3> QED  BY <2>1, <2>3, <3>1, <3>2
  <2>5. CASE n \notin WordPenalties
    <3>1. iter[1 .. k] = acc
      BY <1>7, <2>1, <2>5
    <3> QED  BY <2>2, <2>3, <3>1
  <2> QED  BY <2>4, <2>5
<1>12. \A k \in 0 .. N : k \in good
  <2> HIDE DEF good
  <2> QED  BY <1>1, <1>10, <1>11, UpTo
<1>13. N \in good
  <2>1. N \in 0 .. N
    BY <1>1
  <2> HIDE DEF good
  <2> QED  BY <1>12, <2>1
<1> QED  BY <1>2, <1>13

LEMMA EvaluateIsGood ==
  ASSUME FeaturesTyped, SlotsAreLaid, StatesAreLaid,
         weights \in [0 .. totalNumScores - 1 -> Int],
         NEW hypo \in GoodHypos, NEW n \in ToSet(statefulFFs), ffs[n].numScores = 1,
         NEW outcome \in Outcomes
  PROVE  LET e == Evaluate(hypo, ffs[n], outcome)
         IN  /\ e \in GoodHypos
             /\ \A b \in 0 .. totalStateSize - 1 :
                  e.stateData[b] = IF b \in StateSlots(ffs[n])
                                   THEN <<outcome.state, b - ffs[n].stateOffset>>
                                   ELSE hypo.stateData[b]
<1> DEFINE e == Evaluate(hypo, ffs[n], outcome)
           D == 0 .. totalStateSize - 1
           data == [b \in D |-> IF b \in StateSlots(ffs[n])
                                THEN <<outcome.state, b - ffs[n].stateOffset>>
                                ELSE hypo.stateData[b]]
<1>1. n \in DOMAIN ffs /\ ffs[n].kind \in Stateful
  BY DEF FeaturesTyped
<1>2. totalNumScores \in Nat /\ totalStateSize \in Nat
  BY DEF FeaturesTyped
<1>3. /\ ffs[n].startInd \in Nat /\ ffs[n].stateOffset \in Nat
      /\ ffs[n].startInd + ffs[n].numScores <= totalNumScores
  BY <1>1, FeatureAt DEF SlotsAreLaid, SlotsEnd
<1>4. hypo.scores \in GoodScores /\ hypo.stateData \in [D -> StateBytes]
  BY DEF GoodHypos
<1>5. e = [scores |-> AddScore(hypo.scores, ffs[n], outcome.score), stateData |-> data]
  BY <1>4 DEF Evaluate, StateSlots
<1>6. AddScore(hypo.scores, ffs[n], outcome.score) \in GoodScores
  <2>1. outcome.score \in Int
    BY FeaturesAssumption
  <2> QED  BY <1>2, <1>3, <1>4, <2>1, AddScoreIsGood
<1>7. data \in [D -> StateBytes]
  <2>1. ASSUME NEW b \in D
        PROVE  (IF b \in StateSlots(ffs[n]) THEN <<outcome.state, b - ffs[n].stateOffset>>
                ELSE hypo.stateData[b]) \in StateBytes
    <3>1. CASE b \in StateSlots(ffs[n])
      <4>1. b - ffs[n].stateOffset \in 0 .. totalStateSize
        BY <1>2, <1>3, <3>1 DEF StateSlots
      <4>2. <<outcome.state, b - ffs[n].stateOffset>> \in StateBytes
        BY <4>1 DEF StateBytes
      <4> QED  BY <3>1, <4>2
    <3>2. CASE b \notin StateSlots(ffs[n])
      BY <1>4, <3>2
    <3> QED  BY <3>1, <3>2
  <2> QED  BY <2>1
<1>8. e \in GoodHypos
  <2> HIDE DEF e, data
  <2> QED  BY <1>5, <1>6, <1>7 DEF GoodHypos
<1>9. e.stateData = data
  <2> HIDE DEF e, data
  <2> QED  BY <1>5
<1>10. \A b \in D : data[b] = IF b \in StateSlots(ffs[n])
                              THEN <<outcome.state, b - ffs[n].stateOffset>>
                              ELSE hypo.stateData[b]
  OBVIOUS
<1> HIDE DEF e, data
<1>11. \A b \in D : e.stateData[b] = IF b \in StateSlots(ffs[n])
                              THEN <<outcome.state, b - ffs[n].stateOffset>>
                              ELSE hypo.stateData[b]
  BY <1>9, <1>10
<1> QED  BY <1>8, <1>11 DEF e

\* The features come one after the other, each to bytes of its own.
LEMMA EvaluatedIsGood ==
  ASSUME FeaturesTyped, SlotsAreLaid, StatesAreLaid,
         weights \in [0 .. totalNumScores - 1 -> Int],
         NEW hypo \in GoodHypos, NEW outcomes \in [ToSet(statefulFFs) -> Outcomes],
         \A n \in ToSet(statefulFFs) : ffs[n].numScores = 1
  PROVE  LET e == FoldLeft(LAMBDA acc, n : Evaluate(acc, ffs[n], outcomes[n]), hypo, statefulFFs)
         IN  /\ e \in GoodHypos
             /\ \A n \in ToSet(statefulFFs) : \A b \in StateSlots(ffs[n]) :
                  e.stateData[b] = <<outcomes[n].state, b - ffs[n].stateOffset>>
<1> DEFINE seq == statefulFFs
           N   == Len(seq)
           op(acc, n) == Evaluate(acc, ffs[n], outcomes[n])
           IsIter(f) == f = [s \in SUBSET (1 .. N) |->
                               IF s = {} THEN hypo ELSE op(f[s \ {Max(s)}], seq[Max(s)])]
           iter == CHOOSE f : IsIter(f)
           e == FoldLeft(LAMBDA acc, n : Evaluate(acc, ffs[n], outcomes[n]), hypo, statefulFFs)
<1>1. N \in Nat /\ DOMAIN seq = 1 .. N /\ totalStateSize \in Nat
  BY DEF FeaturesTyped
<1>2. e = iter[1 .. N]
  BY <1>1 DEF FoldLeft, MapThenFoldSet
<1>3. ASSUME NEW acc \in GoodHypos, NEW n \in ToSet(seq)
      PROVE  /\ op(acc, n) \in GoodHypos
             /\ \A b \in 0 .. totalStateSize - 1 :
                  op(acc, n).stateData[b] = IF b \in StateSlots(ffs[n])
                                            THEN <<outcomes[n].state, b - ffs[n].stateOffset>>
                                            ELSE acc.stateData[b]
  <2>1. outcomes[n] \in Outcomes /\ n \in ToSet(statefulFFs) /\ ffs[n].numScores = 1
    OBVIOUS
  <2> QED  BY <2>1, EvaluateIsGood
<1>4. ToSet(seq) = {seq[k] : k \in 1 .. N}
  BY <1>1 DEF ToSet
<1>5. ASSUME NEW n \in ToSet(seq)
      PROVE  StateSlots(ffs[n]) \subseteq 0 .. totalStateSize - 1
  <2>1. n \in DOMAIN ffs /\ ffs[n].kind \in Stateful
    BY DEF FeaturesTyped
  <2>2. ffs[n].stateOffset \in Nat /\ StateSize[ffs[n].kind] \in Nat
    BY <2>1, FeatureAt, FeaturesAssumption
  <2>3. StateEnd(ffs[n]) <= totalStateSize
    BY DEF StatesAreLaid
  <2> QED  BY <1>1, <2>2, <2>3 DEF StateSlots, StateEnd
<1>6. ASSUME NEW j \in 1 .. N, NEW k \in 1 .. N, j # k
      PROVE  StateSlots(ffs[seq[j]]) \intersect StateSlots(ffs[seq[k]]) = {}
  <2>1. seq[j] # seq[k]
    BY <1>1, <1>6 DEF FeaturesTyped
  <2>2. seq[j] \in ToSet(statefulFFs) /\ seq[k] \in ToSet(statefulFFs)
    BY <1>4
  <2> QED  BY <2>1, <2>2, StateSlotsApart
<1> HIDE DEF op, seq, N, e
<1>7. IsIter(iter)
  <2> DEFINE step == [k \in 1 .. N |-> [x \in GoodHypos |-> op(x, seq[k])]]
  <2>1. step \in [1 .. N -> [GoodHypos -> GoodHypos]]
    BY <1>3, <1>4
  <2>2. PICK f \in [SUBSET (1 .. N) -> GoodHypos] : IsFold(f, step, hypo, N)
    <3> HIDE DEF step
    <3> QED  BY <1>1, <2>1, FoldExists
  <2>3. ASSUME NEW s \in SUBSET (1 .. N)
        PROVE  f[s] = IF s = {} THEN hypo ELSE op(f[s \ {Max(s)}], seq[Max(s)])
    <3>1. CASE s = {}
      BY <2>2, <3>1 DEF IsFold
    <3>2. CASE s # {}
      <4>1. Max(s) \in 1 .. N
        BY <1>1, <3>2, MaxIs
      <4>2. f[s] = step[Max(s)][f[s \ {Max(s)}]] /\ f[s \ {Max(s)}] \in GoodHypos
        <5> HIDE DEF step
        <5> QED  BY <2>2, <3>2 DEF IsFold
      <4> QED  BY <3>2, <4>1, <4>2
    <3> QED  BY <3>1, <3>2
  <2>4. f = [s \in SUBSET (1 .. N) |-> f[s]]
    OBVIOUS
  <2>5. IsIter(f)
    <3> HIDE DEF step
    <3> QED  BY <2>3, <2>4
  <2> HIDE DEF IsIter
  <2> QED  BY <2>5
<1>8. \A s \in SUBSET (1 .. N) :
        iter[s] = IF s = {} THEN hypo ELSE op(iter[s \ {Max(s)}], seq[Max(s)])
  <2> HIDE DEF iter
  <2> QED  BY <1>7
<1> HIDE DEF iter, IsIter
\* After k of the features each of them has its state.
<1> DEFINE good == {k \in 0 .. N :
                      /\ iter[1 .. k] \in GoodHypos
                      /\ \A j \in 1 .. k : \A b \in StateSlots(ffs[seq[j]]) :
                           iter[1 .. k].stateData[b]
                           = <<outcomes[seq[j]].state, b - ffs[seq[j]].stateOffset>>}
<1>9. 0 \in good
  <2>1. 1 .. 0 = {} /\ {} \in SUBSET (1 .. N)
    OBVIOUS
  <2>2. iter[1 .. 0] = hypo
    BY <1>8, <2>1
  <2> QED  BY <1>1, <2>1, <2>2
<1>10. ASSUME NEW k \in 1 .. N, k - 1 \in good
       PROVE  k \in good
  <2> DEFINE acc == iter[1 .. k - 1]
             n   == seq[k]
  <2>1. iter[1 .. k] = op(acc, n)
    <3>1. /\ 1 .. k \in SUBSET (1 .. N) /\ 1 .. k # {} /\ Max(1 .. k) = k
          /\ (1 .. k) \ {Max(1 .. k)} = 1 .. k - 1
      BY <1>1, MaxOfPrefix
    <3> QED  BY <1>8, <3>1
  <2>2. /\ acc \in GoodHypos
        /\ \A j \in 1 .. k - 1 : \A b \in StateSlots(ffs[seq[j]]) :
             acc.stateData[b] = <<outcomes[seq[j]].state, b - ffs[seq[j]].stateOffset>>
    BY <1>10
  <2>3. n \in ToSet(seq)
    BY <1>4
  <2> HIDE DEF acc
  <2>4. /\ op(acc, n) \in GoodHypos
        /\ \A b \in 0 .. totalStateSize - 1 :
             op(acc, n).stateData[b] = IF b \in StateSlots(ffs[n])
                                       THEN <<outcomes[n].state, b - ffs[n].stateOffset>>
                                       ELSE acc.stateData[b]
    BY <1>3, <2>2, <2>3
  <2>5. ASSUME NEW j \in 1 .. k, NEW b \in StateSlots(ffs[seq[j]])
        PROVE  op(acc, n).stateData[b]
               = <<outcomes[seq[j]].state, b - ffs[seq[j]].stateOffset>>
    <3>1. j \in 1 .. N /\ seq[j] \in ToSet(seq)
      BY <1>1, <1>4
    <3>2. b \in 0 .. totalStateSize - 1
      BY <1>5, <3>1
    <3>3. CASE j = k
      BY <2>4, <3>2, <3>3
    <3>4. CASE j # k
      <4>1. b \notin StateSlots(ffs[n])
        BY <1>6, <3>1, <3>4
      <4>2. j \in 1 .. k - 1
        BY <3>4
      <4>3. op(acc, n).stateData[b] = acc.stateData[b]
        BY <2>4, <3>2, <4>1
      <4> QED  BY <2>2, <4>2, <4>3
    <3> QED  BY <3>3, <3>4
  <2>6. k \in 0 .. N
    OBVIOUS
  <2> QED  BY <2>1, <2>4, <2>5, <2>6
<1>11. \A k \in 0 .. N : k \in good
  <2> HIDE DEF good
  <2> QED  BY <1>1, <1>9, <1>10, UpTo
<1>12. N \in good
  <2>1. N \in 0 .. N
    BY <1>1
  <2> HIDE DEF good
  <2> QED  BY <1>11, <2>1
<1>13. e \in GoodHypos
  BY <1>2, <1>12
<1>14. ASSUME NEW n \in ToSet(statefulFFs), NEW b \in StateSlots(ffs[n])
       PROVE  e.stateData[b] = <<outcomes[n].state, b - ffs[n].stateOffset>>
  <2>1. PICK j \in 1 .. N : n = seq[j]
    BY <1>4 DEF seq
  <2> QED  BY <1>2, <1>12, <2>1
<1> QED  BY <1>13, <1>14 DEF e

-----------------------------------------------------------------------------
(* The steps of the features. *)

LEMMA ToSetAppend ==
  ASSUME NEW S, NEW s \in Seq(S), NEW x
  PROVE  ToSet(Append(s, x)) = ToSet(s) \union {x}
<1>1. /\ Len(s) \in Nat /\ DOMAIN s = 1 .. Len(s)
      /\ DOMAIN Append(s, x) = 1 .. Len(s) + 1
      /\ \A n \in 1 .. Len(s) : Append(s, x)[n] = s[n]
      /\ Append(s, x)[Len(s) + 1] = x
  OBVIOUS
<1> DEFINE t == Append(s, x)
<1> HIDE DEF t
<1>2. ToSet(t) \subseteq ToSet(s) \union {x}
  BY <1>1 DEF ToSet, t
<1>3. ToSet(s) \subseteq ToSet(t)
  BY <1>1 DEF ToSet, t
<1>4. x \in ToSet(t)
  <2>1. Len(s) + 1 \in DOMAIN t /\ t[Len(s) + 1] = x
    BY <1>1 DEF t
  <2> QED  BY <2>1 DEF ToSet
<1> QED  BY <1>2, <1>3, <1>4 DEF t

\* Numbers that are all different and below the next stay so when it is appended.
LEMMA AppendDiffers ==
  ASSUME NEW s \in Seq(Nat), NEW x \in Nat, x \notin ToSet(s),
         \A k, l \in DOMAIN s : k # l => s[k] # s[l]
  PROVE  /\ Append(s, x) \in Seq(Nat)
         /\ \A k, l \in DOMAIN Append(s, x) : k # l => Append(s, x)[k] # Append(s, x)[l]
<1>1. /\ Len(s) \in Nat /\ DOMAIN s = 1 .. Len(s)
      /\ DOMAIN Append(s, x) = 1 .. Len(s) + 1
      /\ \A n \in 1 .. Len(s) : Append(s, x)[n] = s[n]
      /\ Append(s, x)[Len(s) + 1] = x
      /\ Append(s, x) \in Seq(Nat)
  OBVIOUS
<1> DEFINE t == Append(s, x)
<1> HIDE DEF t
<1>2. \A n \in 1 .. Len(s) : s[n] # x
  BY <1>1 DEF ToSet
<1>3. \A k, l \in 1 .. Len(s) + 1 : k # l => t[k] # t[l]
  BY <1>1, <1>2 DEF t
<1> QED  BY <1>1, <1>3 DEF t

LEMMA LayoutStays ==
  ASSUME FeaturesTyped, SlotsAreLaid, StatesAreLaid, UNCHANGED layout
  PROVE  FeaturesTyped' /\ SlotsAreLaid' /\ StatesAreLaid'
BY ZenonT(40) DEF FeaturesTyped, SlotsAreLaid, StatesAreLaid, layout, Slots, StateSlots, SlotsEnd, StateEnd

LEMMA GoodStays ==
  ASSUME UNCHANGED <<layout, weights>>
  PROVE  GoodScores' = GoodScores /\ GoodHypos' = GoodHypos /\ NoScores' = NoScores
<1>1. weights' = weights /\ totalNumScores' = totalNumScores /\ totalStateSize' = totalStateSize
  BY DEF layout
<1>2. \A values : Product(values)' = Product(values)
  BY <1>1 DEF Product
<1>3. GoodScores' = GoodScores
  BY <1>1, <1>2 DEF GoodScores, ScoreRecords
<1>4. GoodHypos' = GoodHypos
  BY <1>1, <1>3 DEF GoodHypos, StateBytes
<1> QED  BY <1>1, <1>3, <1>4 DEF NoScores

LEMMA FeaturesInitKeeps ==
  ASSUME FeaturesInit
  PROVE  FeaturesInv
<1> USE DEF FeaturesInit
<1>1. FeaturesTyped
  BY DEF FeaturesTyped, ToSet
<1>2. SlotsAreLaid /\ StatesAreLaid
  BY DEF SlotsAreLaid, StatesAreLaid, ToSet
<1>3. StageIsRight
  <2>1. sections \in Seq([name : STRING, weights : Seq(Int)])
    BY FeaturesAssumption
  <2>2. Len(sections) \in Nat
    BY <2>1
  <2> QED  BY <2>2 DEF StageIsRight
<1>4. StatesKept
  BY DEF StatesKept
<1>5. ScoresAreRight
  BY DEF ScoresAreRight
<1> QED  BY <1>1, <1>2, <1>3, <1>4, <1>5 DEF FeaturesInv

\* What the line of a feature that can be made adds to the layout.
LEMMA LayoutGrows ==
  ASSUME FeaturesInv, NEW line \in FeatureLines, CreateFeature(line), system' # "exception"
  PROVE  FeaturesTyped' /\ SlotsAreLaid' /\ StatesAreLaid'
<1> USE DEF FeaturesInv
<1> DEFINE N  == Len(ffs)
           new == N + 1
           kinds == Stateful \union Stateless \union {Table}
           ff == [kind |-> line.kind, name |-> line.name,
                  startInd |-> totalNumScores, numScores |-> line.numScores,
                  stateOffset |-> IF line.kind \in Stateful THEN totalStateSize ELSE 0]
<1>1. /\ line.kind \in kinds
      /\ ffs' = Append(ffs, ff)
      /\ totalNumScores' = totalNumScores + line.numScores
      /\ system = "create"
  <2>1. ~ (~(line.wellFormed /\ line.kind \in kinds) /\ system' = "exception" /\ UNCHANGED layout)
    OBVIOUS
  <2>2. system' # "exception" /\ system = "create"
    BY DEF CreateFeature
  <2> QED  BY <2>1, <2>2 DEF CreateFeature, StartInd, StateOffset
<1>2. /\ line.kind \in Stateful =>
           /\ totalStateSize' = totalStateSize + StateSize[line.kind]
           /\ statefulFFs' = Append(statefulFFs, Len(ffs')) /\ statelessFFs' = statelessFFs
           /\ pt' = pt
      /\ line.kind = Table =>
           /\ totalStateSize' = totalStateSize /\ statelessFFs' = statelessFFs
           /\ statefulFFs' = statefulFFs /\ pt' = {Len(ffs')}
      /\ line.kind \in Stateless =>
           /\ totalStateSize' = totalStateSize /\ statefulFFs' = statefulFFs /\ pt' = pt
           /\ statelessFFs' = Append(statelessFFs, Len(ffs'))
  BY <1>1 DEF CreateFeature, Stateful, Stateless, Table
<1>3. /\ ffs \in Seq(FeatureRecords) /\ N \in Nat /\ DOMAIN ffs = 1 .. N
      /\ totalNumScores \in Nat /\ totalStateSize \in Nat
      /\ line.numScores \in Nat
      /\ line.kind \in Stateful => StateSize[line.kind] \in Nat
  BY FeaturesAssumption DEF FeaturesTyped
<1>4. ff \in FeatureRecords
  BY <1>1, <1>3 DEF FeatureRecords
<1>5. /\ ff.kind = line.kind /\ ff.name = line.name /\ ff.startInd = totalNumScores
      /\ ff.numScores = line.numScores
      /\ line.kind \in Stateful => ff.stateOffset = totalStateSize
  OBVIOUS
<1> HIDE DEF ff
<1>6. /\ ffs' \in Seq(FeatureRecords) /\ Len(ffs') = new /\ DOMAIN ffs' = 1 .. new
      /\ \A n \in 1 .. N : ffs'[n] = ffs[n] /\ n # new /\ n < new
      /\ ffs'[new] = ff
  BY <1>1, <1>3, <1>4
<1>7. /\ statelessFFs \in Seq(Nat) /\ statefulFFs \in Seq(Nat)
      /\ ToSet(statelessFFs) \subseteq 1 .. N /\ ToSet(statefulFFs) \subseteq 1 .. N
      /\ pt \subseteq 1 .. N
      /\ new \notin ToSet(statelessFFs) /\ new \notin ToSet(statefulFFs) /\ new \in Nat
  BY <1>3 DEF FeaturesTyped
<1> HIDE DEF N, new
\* The lists of features of each sort.
<1>8. /\ statefulFFs' \in Seq(Nat) /\ statelessFFs' \in Seq(Nat)
      /\ ToSet(statefulFFs') = ToSet(statefulFFs) \union (IF line.kind \in Stateful THEN {new} ELSE {})
      /\ ToSet(statelessFFs')
         = ToSet(statelessFFs) \union (IF line.kind \in Stateless THEN {new} ELSE {})
      /\ \A k, l \in DOMAIN statelessFFs' : k # l => statelessFFs'[k] # statelessFFs'[l]
      /\ \A k, l \in DOMAIN statefulFFs' : k # l => statefulFFs'[k] # statefulFFs'[l]
  <2>1. CASE line.kind \in Stateful
    <3>1. line.kind \notin Stateless
      BY <2>1 DEF Stateful, Stateless
    <3>2. statefulFFs' = Append(statefulFFs, new) /\ statelessFFs' = statelessFFs
      BY <1>2, <1>6, <2>1
    <3>3. ToSet(statefulFFs') = ToSet(statefulFFs) \union {new}
      BY <1>7, <3>2, ToSetAppend
    <3>4. /\ statefulFFs' \in Seq(Nat)
          /\ \A k, l \in DOMAIN statefulFFs' : k # l => statefulFFs'[k] # statefulFFs'[l]
      <4>1. \A k, l \in DOMAIN statefulFFs : k # l => statefulFFs[k] # statefulFFs[l]
        BY DEF FeaturesTyped
      <4> DEFINE longer == Append(statefulFFs, new)
      <4>2. longer \in Seq(Nat) /\ \A k, l \in DOMAIN longer : k # l => longer[k] # longer[l]
        BY <1>7, <4>1, AppendDiffers
      <4> HIDE DEF longer
      <4>3. statefulFFs' = longer
        BY <3>2 DEF longer
      <4> QED  BY <4>2, <4>3, Zenon
    <3> QED  BY <1>7, <2>1, <3>1, <3>2, <3>3, <3>4 DEF FeaturesTyped
  <2>2. CASE line.kind \in Stateless
    <3>1. line.kind \notin Stateful
      BY <2>2 DEF Stateful, Stateless
    <3>2. statelessFFs' = Append(statelessFFs, new) /\ statefulFFs' = statefulFFs
      BY <1>2, <1>6, <2>2
    <3>3. ToSet(statelessFFs') = ToSet(statelessFFs) \union {new}
      BY <1>7, <3>2, ToSetAppend
    <3>4. /\ statelessFFs' \in Seq(Nat)
          /\ \A k, l \in DOMAIN statelessFFs' : k # l => statelessFFs'[k] # statelessFFs'[l]
      <4>1. \A k, l \in DOMAIN statelessFFs : k # l => statelessFFs[k] # statelessFFs[l]
        BY DEF FeaturesTyped
      <4> DEFINE longer == Append(statelessFFs, new)
      <4>2. longer \in Seq(Nat) /\ \A k, l \in DOMAIN longer : k # l => longer[k] # longer[l]
        BY <1>7, <4>1, AppendDiffers
      <4> HIDE DEF longer
      <4>3. statelessFFs' = longer
        BY <3>2 DEF longer
      <4> QED  BY <4>2, <4>3, Zenon
    <3> QED  BY <1>7, <2>2, <3>1, <3>2, <3>3, <3>4 DEF FeaturesTyped
  <2>3. CASE line.kind = Table
    <3>1. line.kind \notin Stateful /\ line.kind \notin Stateless
      BY <2>3 DEF Stateful, Stateless, Table
    <3> QED  BY <1>2, <1>7, <2>3, <3>1 DEF FeaturesTyped
  <2> QED  BY <1>1, <2>1, <2>2, <2>3
<1>9. FeaturesTyped'
  <2>1. /\ ToSet(statelessFFs') = {n \in DOMAIN ffs' : ffs'[n].kind \in Stateless}
        /\ ToSet(statefulFFs') = {n \in DOMAIN ffs' : ffs'[n].kind \in Stateful}
    <3>1. /\ ToSet(statelessFFs) = {n \in 1 .. N : ffs[n].kind \in Stateless}
          /\ ToSet(statefulFFs) = {n \in 1 .. N : ffs[n].kind \in Stateful}
      BY <1>3 DEF FeaturesTyped
    <3>2. DOMAIN ffs' = (1 .. N) \union {new}
      BY <1>3, <1>6 DEF new
    <3>3. \A n \in 1 .. N : ffs'[n].kind = ffs[n].kind
      BY <1>6
    <3>4. ffs'[new].kind = line.kind
      BY <1>5, <1>6
    <3>5. ToSet(statelessFFs') = {n \in DOMAIN ffs' : ffs'[n].kind \in Stateless}
      <4>1. {n \in DOMAIN ffs' : ffs'[n].kind \in Stateless}
            = {n \in 1 .. N : ffs[n].kind \in Stateless}
              \union (IF line.kind \in Stateless THEN {new} ELSE {})
        BY <3>2, <3>3, <3>4, Zenon
      <4> QED  BY <1>8, <3>1, <4>1
    <3>6. ToSet(statefulFFs') = {n \in DOMAIN ffs' : ffs'[n].kind \in Stateful}
      <4>1. {n \in DOMAIN ffs' : ffs'[n].kind \in Stateful}
            = {n \in 1 .. N : ffs[n].kind \in Stateful}
              \union (IF line.kind \in Stateful THEN {new} ELSE {})
        BY <3>2, <3>3, <3>4, Zenon
      <4> QED  BY <1>8, <3>1, <4>1
    <3> QED  BY <3>5, <3>6
  <2>2. /\ pt' \in SUBSET {n \in DOMAIN ffs' : ffs'[n].kind = Table}
        /\ \A m, n \in pt' : m = n
    <3>1. /\ pt \subseteq {n \in 1 .. N : ffs[n].kind = Table}
          /\ \A m, n \in pt : m = n
      BY <1>3 DEF FeaturesTyped
    <3>2. 1 .. N \subseteq DOMAIN ffs' /\ new \in DOMAIN ffs'
      BY <1>3, <1>6 DEF new
    <3>3. pt' = IF line.kind = Table THEN {new} ELSE pt
      BY <1>1, <1>2, <1>6 DEF Stateful, Stateless, Table
    <3> QED  BY <1>5, <1>6, <3>1, <3>2, <3>3
  <2>3. totalNumScores' \in Nat /\ totalStateSize' \in Nat
    BY <1>1, <1>2, <1>3 DEF Stateful, Stateless, Table
  <2>4. FeatureRecords' = FeatureRecords
    BY DEF FeatureRecords
  <2> QED  BY <1>6, <1>8, <2>1, <2>2, <2>3, <2>4 DEF FeaturesTyped
<1>10. SlotsAreLaid'
  <2>1. \A m, n \in 1 .. N : m < n => SlotsEnd(ffs[m]) <= ffs[n].startInd
    BY <1>3 DEF SlotsAreLaid
  <2>2. \A n \in 1 .. N : SlotsEnd(ffs[n]) <= totalNumScores /\ SlotsEnd(ffs[n]) \in Nat
    <3>1. \A n \in 1 .. N : SlotsEnd(ffs[n]) <= totalNumScores
      BY <1>3 DEF SlotsAreLaid
    <3>2. \A n \in 1 .. N : ffs[n].startInd \in Nat /\ ffs[n].numScores \in Nat
      BY <1>3, FeatureAt
    <3> QED  BY <3>1, <3>2 DEF SlotsEnd
  <2>3. SlotsEnd(ff) = totalNumScores'
    BY <1>1, <1>5 DEF SlotsEnd
  <2>4. DOMAIN ffs' = (1 .. N) \union {new}
    BY <1>3, <1>6 DEF new
  <2>5. ASSUME NEW m \in DOMAIN ffs', NEW n \in DOMAIN ffs', m < n
        PROVE  SlotsEnd(ffs'[m]) <= ffs'[n].startInd
    <3>1. m \in 1 .. N
      BY <1>3, <1>6, <2>5 DEF new
    <3>2. CASE n \in 1 .. N
      BY <1>6, <2>1, <2>5, <3>1, <3>2
    <3>3. CASE n = new
      BY <1>5, <1>6, <2>2, <3>1, <3>3
    <3> QED  BY <2>4, <3>2, <3>3
  <2>6. ASSUME NEW n \in DOMAIN ffs'
        PROVE  SlotsEnd(ffs'[n]) <= totalNumScores'
    <3>1. CASE n \in 1 .. N
      BY <1>1, <1>3, <1>6, <2>2, <3>1
    <3>2. CASE n = new
      BY <1>1, <1>3, <1>6, <2>3, <3>2
    <3> QED  BY <2>4, <3>1, <3>2
  <2>7. ASSUME NEW s \in 0 .. totalNumScores' - 1
        PROVE  \E n \in DOMAIN ffs' : s \in Slots(ffs'[n])
    <3>1. CASE s < totalNumScores
      <4>1. PICK n \in 1 .. N : s \in Slots(ffs[n])
        BY <1>3, <3>1 DEF SlotsAreLaid
      <4> QED  BY <1>6, <2>4, <4>1
    <3>2. CASE s >= totalNumScores
      <4>1. s \in Slots(ff)
        BY <1>1, <1>3, <1>5, <3>2 DEF Slots
      <4> QED  BY <1>6, <2>4, <4>1
    <3> QED  BY <1>1, <1>3, <3>1, <3>2
  <2> QED  BY <2>5, <2>6, <2>7 DEF SlotsAreLaid, SlotsEnd, Slots
<1>11. StatesAreLaid'
  <2>1. \A n \in ToSet(statefulFFs) : ffs'[n] = ffs[n] /\ n < new /\ n \in Nat /\ n \in 1 .. N
    BY <1>3, <1>6, <1>7
  <2>2. CASE line.kind \notin Stateful
    <3>1. totalStateSize' = totalStateSize /\ ToSet(statefulFFs') = ToSet(statefulFFs)
      BY <1>1, <1>2, <1>8, <2>2
    <3> QED  BY <2>1, <3>1 DEF StatesAreLaid, StateEnd, StateSlots
  <2>3. CASE line.kind \in Stateful
    <3>1. /\ totalStateSize' = totalStateSize + StateSize[line.kind]
          /\ ToSet(statefulFFs') = ToSet(statefulFFs) \union {new}
          /\ StateSize[line.kind] \in Nat /\ ff.stateOffset = totalStateSize
      BY <1>2, <1>3, <1>5, <1>8, <2>3
    <3>2. \A n \in ToSet(statefulFFs) : StateEnd(ffs[n]) <= totalStateSize /\ StateEnd(ffs[n]) \in Nat
      <4>1. ASSUME NEW n \in ToSet(statefulFFs)
            PROVE  ffs[n].stateOffset \in Nat /\ StateSize[ffs[n].kind] \in Nat
        <5>1. n \in DOMAIN ffs /\ ffs[n].kind \in Stateful
          BY DEF FeaturesTyped
        <5> QED  BY <5>1, FeatureAt, FeaturesAssumption
      <4> QED  BY <4>1 DEF StatesAreLaid, StateEnd
    <3>3. StateEnd(ff) = totalStateSize'
      BY <1>5, <3>1 DEF StateEnd
    <3>4. ASSUME NEW m \in ToSet(statefulFFs'), NEW n \in ToSet(statefulFFs'), m < n
          PROVE  StateEnd(ffs'[m]) <= ffs'[n].stateOffset
      <4>1. m \in ToSet(statefulFFs)
        BY <1>3, <2>1, <3>1, <3>4 DEF new
      <4>2. CASE n \in ToSet(statefulFFs)
        BY <2>1, <3>4, <4>1, <4>2 DEF StatesAreLaid
      <4>3. CASE n = new
        BY <1>6, <2>1, <3>1, <3>2, <4>1, <4>3
      <4> QED  BY <3>1, <4>2, <4>3
    <3>5. ASSUME NEW n \in ToSet(statefulFFs')
          PROVE  StateEnd(ffs'[n]) <= totalStateSize'
      <4>1. CASE n \in ToSet(statefulFFs)
        BY <1>3, <2>1, <3>1, <3>2, <4>1
      <4>2. CASE n = new
        BY <1>3, <1>6, <3>1, <3>3, <4>2
      <4> QED  BY <3>1, <4>1, <4>2
    <3>6. ASSUME NEW b \in 0 .. totalStateSize' - 1
          PROVE  \E n \in ToSet(statefulFFs') : b \in StateSlots(ffs'[n])
      <4>1. CASE b < totalStateSize
        <5>1. PICK n \in ToSet(statefulFFs) : b \in StateSlots(ffs[n])
          BY <1>3, <4>1 DEF StatesAreLaid
        <5> QED  BY <2>1, <3>1, <5>1
      <4>2. CASE b >= totalStateSize
        <5>1. b \in StateSlots(ff)
          BY <1>3, <1>5, <3>1, <4>2 DEF StateSlots
        <5> QED  BY <1>6, <3>1, <5>1
      <4> QED  BY <1>3, <3>1, <4>1, <4>2
    <3> QED  BY <3>4, <3>5, <3>6 DEF StatesAreLaid, StateEnd, StateSlots
  <2> QED  BY <2>2, <2>3
<1> QED  BY <1>9, <1>10, <1>11

LEMMA CreateFeatureKeeps ==
  ASSUME FeaturesInv, NEW line \in FeatureLines, CreateFeature(line)
  PROVE  FeaturesInv'
<1>1. system = "create" /\ UNCHANGED <<sections, next, weights, tps, hypos, given>>
  BY DEF CreateFeature
<1>2. weights = <<>> /\ tps = <<>> /\ hypos = <<>>
  BY <1>1 DEF FeaturesInv, StageIsRight
<1>3. system' \in {"create", "exception"}
  BY <1>1 DEF CreateFeature
<1>4. FeaturesTyped' /\ SlotsAreLaid' /\ StatesAreLaid'
  <2>1. CASE system' # "exception"
    BY <2>1, LayoutGrows
  <2>2. CASE system' = "exception"
    <3>1. UNCHANGED layout
      BY <1>1, <2>2 DEF CreateFeature
    <3> QED  BY <3>1, LayoutStays DEF FeaturesInv
  <2> QED  BY <2>1, <2>2
<1>5. StageIsRight'
  BY <1>1, <1>2, <1>3 DEF FeaturesInv, StageIsRight
<1>6. StatesKept'
  BY <1>1, <1>2 DEF StatesKept
<1>7. ScoresAreRight'
  BY <1>1, <1>2 DEF ScoresAreRight
<1> QED  BY <1>4, <1>5, <1>6, <1>7 DEF FeaturesInv

LEMMA SectionsAreLists ==
  ASSUME NEW list \in SectionLists
  PROVE  /\ list \in Seq([name : STRING, weights : Seq(Int)])
         /\ Len(list) \in Nat /\ DOMAIN list = 1 .. Len(list)
         /\ \A k, l \in DOMAIN list : k # l => list[k].name # list[l].name
BY FeaturesAssumption

\* Slots are places of the weights.
LEMMA SlotsOfWeights ==
  ASSUME FeaturesTyped, SlotsAreLaid, NEW n \in DOMAIN ffs, NEW s \in Slots(ffs[n])
  PROVE  s \in 0 .. totalNumScores - 1 /\ s - ffs[n].startInd + 1 \in 1 .. ffs[n].numScores
<1>1. ffs[n].startInd \in Nat /\ ffs[n].numScores \in Nat /\ totalNumScores \in Nat
  BY FeatureAt DEF FeaturesTyped
<1>2. ffs[n].startInd + ffs[n].numScores <= totalNumScores
  BY DEF SlotsAreLaid, SlotsEnd
<1> QED  BY <1>1, <1>2 DEF Slots

\* A stage with weights is right when this holds of what follows.
LEMMA StageWithWeights ==
  ASSUME sections' \in SectionLists, next' \in 1 .. Len(sections') + 1,
         system' \in {"weights", "load", "search", "undefined", "assert"},
         system' \in {"load", "search", "assert"} => next' = Len(sections') + 1,
         system' \in {"weights", "undefined"} => tps' = <<>>,
         hypos' = <<>> <=> system' \notin {"search", "assert"},
         weights' \in [0 .. totalNumScores' - 1 -> Int],
         WeightsSoFar'
  PROVE  StageIsRight'
<1>1. system' # "create" /\ system' # "exception"
  OBVIOUS
<1>2. /\ system' = "create" => next' = 1
      /\ system' \in {"create", "weights", "undefined"} => tps' = <<>>
  BY <1>1
<1>3. system' \in {"create", "weights", "load", "search", "exception", "undefined", "assert"}
  OBVIOUS
<1> QED  BY <1>1, <1>2, <1>3, Zenon DEF StageIsRight

\* And when loading fails there may be none.
LEMMA StageOfException ==
  ASSUME StageIsRight, system' = "exception", hypos' = <<>>,
         sections' = sections, next' \in 1 .. Len(sections) + 1,
         totalNumScores' = totalNumScores, weights' = weights, tps' = tps,
         weights # <<>> => system # "create"
  PROVE  StageIsRight'
<1>1. sections' \in SectionLists /\ next' \in 1 .. Len(sections') + 1
  BY DEF StageIsRight
<1>2. \/ weights' = <<>> /\ tps' = <<>>
      \/ weights' \in [0 .. totalNumScores' - 1 -> Int]
  BY DEF StageIsRight
<1>3. /\ system' # "create"
      /\ system' \notin {"load", "search", "assert"}
      /\ system' \notin {"create", "weights", "undefined"}
      /\ system' \in {"create", "weights", "load", "search", "exception", "undefined", "assert"}
      /\ system' \in {"create", "exception"}
  OBVIOUS
<1> QED  BY <1>1, <1>2, <1>3, Zenon DEF StageIsRight

LEMMA CreatedKeeps ==
  ASSUME FeaturesInv, Created
  PROVE  FeaturesInv'
<1> USE DEF FeaturesInv
<1>1. system = "create" /\ UNCHANGED <<layout, sections, next, tps, hypos, given>>
  BY DEF Created
<1>2. /\ weights = <<>> /\ tps = <<>> /\ hypos = <<>> /\ sections \in SectionLists
      /\ next \in 1 .. Len(sections) + 1
  BY <1>1 DEF StageIsRight
<1>3. FeaturesTyped' /\ SlotsAreLaid' /\ StatesAreLaid'
  BY <1>1, LayoutStays
<1>4. StatesKept' /\ ScoresAreRight'
  BY <1>1, <1>2 DEF StatesKept, ScoresAreRight
<1>5. ASSUME system' = "exception"
      PROVE  StageIsRight'
  <2>1. weights' = weights
    BY <1>5 DEF Created
  <2>2. totalNumScores' = totalNumScores
    BY <1>1 DEF layout
  <2> QED  BY <1>1, <1>2, <1>5, <2>1, <2>2, StageOfException
<1>6. ASSUME system' # "exception"
      PROVE  StageIsRight'
  <2>1. system' = "weights" /\ weights' \in [0 .. totalNumScores - 1 -> Junk]
    BY <1>6 DEF Created
  <2>2. next = 1
    BY <1>1 DEF StageIsRight
  <2>3. WeightsSoFar'
    <3>1. \A n \in DOMAIN ffs : \A s \in Slots(ffs[n]) : weights'[s] \in Junk
      BY <2>1, SlotsOfWeights
    <3>2. \A k \in DOMAIN sections : ~ (k < next)
      <4>1. DOMAIN sections = 1 .. Len(sections) /\ Len(sections) \in Nat
        BY <1>2, SectionsAreLists
      <4> QED  BY <2>2, <4>1
    <3> QED  BY <1>1, <3>1, <3>2 DEF WeightsSoFar, SectionsOf, Slots, Named, layout
  <2>4. weights' \in [0 .. totalNumScores' - 1 -> Int]
    <3>1. totalNumScores' = totalNumScores
      BY <1>1 DEF layout
    <3> QED  BY <2>1, <3>1, FeaturesAssumption
  <2>5. /\ sections' \in SectionLists /\ next' \in 1 .. Len(sections') + 1
        /\ tps' = <<>> /\ hypos' = <<>>
    BY <1>1, <1>2
  <2> QED  BY <2>1, <2>3, <2>4, <2>5, StageWithWeights
<1>7. StageIsRight'
  BY <1>5, <1>6
<1> QED  BY <1>3, <1>4, <1>7

\* A list of weights goes to the slots of the first feature of its name.
LEMMA WeightsAreSet ==
  ASSUME FeaturesInv, system = "weights", next <= Len(sections),
         NEW n \in DOMAIN ffs, n = Min(Named(sections[next].name)),
         Named(sections[next].name) # {},
         ffs[n].numScores = Len(sections[next].weights),
         UNCHANGED <<layout, sections>>, next' = next + 1,
         weights' = [s \in DOMAIN weights |->
                       IF s \in Slots(ffs[n])
                       THEN sections[next].weights[s - ffs[n].startInd + 1]
                       ELSE weights[s]]
  PROVE  weights' \in [0 .. totalNumScores - 1 -> Int] /\ WeightsSoFar'
<1> USE DEF FeaturesInv
<1> DEFINE section == sections[next]
           D == 0 .. totalNumScores - 1
<1>1. /\ sections \in Seq([name : STRING, weights : Seq(Int)])
      /\ DOMAIN sections = 1 .. Len(sections) /\ Len(sections) \in Nat
      /\ \A k, l \in DOMAIN sections : k # l => sections[k].name # sections[l].name
      /\ next \in Nat /\ next \in DOMAIN sections
  <2>1. sections \in SectionLists /\ next \in 1 .. Len(sections) + 1
    BY DEF StageIsRight
  <2>2. Len(sections) \in Nat
    BY <2>1, SectionsAreLists
  <2> QED  BY <2>1, <2>2, SectionsAreLists
<1>2. section.weights \in Seq(Int)
  <2>1. section \in [name : STRING, weights : Seq(Int)]
    <3> DEFINE R == [name : STRING, weights : Seq(Int)]
    <3>1. sections \in Seq(R) /\ next \in 1 .. Len(sections)
      BY <1>1
    <3>2. sections[next] \in R
      <4> HIDE DEF R
      <4> QED  BY <3>1, ElementOfSeq
    <3> QED  BY <3>2
  <2> HIDE DEF section
  <2> QED  BY <2>1
<1>3. weights \in [D -> Int] /\ WeightsSoFar
  BY DEF StageIsRight
<1>4. ASSUME NEW s \in D, s \in Slots(ffs[n])
      PROVE  section.weights[s - ffs[n].startInd + 1] \in Int
  <2>1. s - ffs[n].startInd + 1 \in 1 .. Len(section.weights)
    BY <1>4, SlotsOfWeights
  <2> HIDE DEF section
  <2> QED  BY <1>2, <2>1
<1>5. weights' \in [D -> Int]
  BY <1>3, <1>4
<1>6. ffs[n].name = section.name
  <2>1. Named(section.name) \in SUBSET (1 .. Len(ffs)) /\ Len(ffs) \in Nat
    BY FeatureAt DEF Named
  <2>2. Min(Named(section.name)) \in Named(section.name)
    BY <2>1, MinIs
  <2> QED  BY <2>2 DEF Named
<1>7. ASSUME NEW m \in DOMAIN ffs, NEW s \in Slots(ffs[m])
      PROVE  LET done == {k \in SectionsOf(m) : k < next + 1}
             IN  IF done = {} THEN weights'[s] \in Junk
                 ELSE \A k \in done : weights'[s] = sections[k].weights[s - ffs[m].startInd + 1]
  <2> DEFINE before == {k \in SectionsOf(m) : k < next}
             done == {k \in SectionsOf(m) : k < next + 1}
  <2>1. SectionsOf(m) \subseteq 1 .. Len(sections)
    BY <1>1 DEF SectionsOf
  <2>2. done = before \union (IF next \in SectionsOf(m) THEN {next} ELSE {})
    BY <1>1, <2>1
  <2>3. s \in D
    BY SlotsOfWeights
  <2>4. IF before = {} THEN weights[s] \in Junk
        ELSE \A k \in before : weights[s] = sections[k].weights[s - ffs[m].startInd + 1]
    BY <1>3 DEF WeightsSoFar
  <2> HIDE DEF before, done
  <2>5. CASE m = n
    <3>1. next \in SectionsOf(m)
      BY <1>1, <1>6, <2>5 DEF SectionsOf
    <3>2. before = {}
      <4>1. \A k \in SectionsOf(m) : k = next
        BY <1>1, <1>6, <2>5 DEF SectionsOf
      <4> QED  BY <1>1, <4>1 DEF before
    <3>3. weights'[s] = section.weights[s - ffs[m].startInd + 1]
      BY <1>3, <2>3, <2>5
    <3> QED  BY <2>2, <3>1, <3>2, <3>3 DEF done
  <2>6. CASE m # n
    <3>1. next \notin SectionsOf(m)
      <4>1. ASSUME next \in SectionsOf(m)
            PROVE  FALSE
        <5>1. section.name = ffs[m].name /\ m = Min(Named(ffs[m].name))
          BY <4>1 DEF SectionsOf
        <5> QED  BY <2>6, <5>1
      <4> QED  BY <4>1
    <3>2. s \notin Slots(ffs[n])
      BY <2>6, SlotsApart
    <3>3. weights'[s] = weights[s]
      BY <1>3, <2>3, <3>2
    <3>4. done = before
      BY <2>2, <3>1
    <3> QED  BY <2>4, <3>3, <3>4 DEF done
  <2> QED  BY <2>5, <2>6
<1>8. WeightsSoFar'
  <2>1. /\ ffs' = ffs /\ sections' = sections /\ next' = next + 1
        /\ \A m \in DOMAIN ffs : SectionsOf(m)' = SectionsOf(m) /\ Slots(ffs[m])' = Slots(ffs[m])
    BY DEF layout, SectionsOf, Slots, Named
  <2>2. \A m \in DOMAIN ffs : \A s \in Slots(ffs[m]) :
          LET done == {k \in SectionsOf(m)' : k < next'}
          IN  IF done = {} THEN weights'[s] \in Junk
              ELSE \A k \in done : weights'[s] = sections'[k].weights[s - ffs'[m].startInd + 1]
    <3> SUFFICES ASSUME NEW m \in DOMAIN ffs, NEW s \in Slots(ffs[m])
                 PROVE  LET done == {k \in SectionsOf(m)' : k < next'}
                        IN  IF done = {} THEN weights'[s] \in Junk
                            ELSE \A k \in done :
                                   weights'[s] = sections'[k].weights[s - ffs'[m].startInd + 1]
      OBVIOUS
    <3>1. {k \in SectionsOf(m)' : k < next'} = {k \in SectionsOf(m) : k < next + 1}
      BY <2>1
    <3>2. LET done == {k \in SectionsOf(m) : k < next + 1}
          IN  IF done = {} THEN weights'[s] \in Junk
              ELSE \A k \in done : weights'[s] = sections[k].weights[s - ffs[m].startInd + 1]
      BY <1>7
    <3>3. sections' = sections /\ ffs' = ffs
      BY <2>1
    <3> QED  BY <3>1, <3>2, <3>3, Zenon
  <2> HIDE DEF section, D
  <2> QED  BY <2>1, <2>2 DEF WeightsSoFar
<1> QED  BY <1>5, <1>8

LEMMA SetWeightsKeeps ==
  ASSUME FeaturesInv, SetWeights
  PROVE  FeaturesInv'
<1> USE DEF FeaturesInv
<1>1. /\ system = "weights" /\ next <= Len(sections) /\ next' = next + 1
      /\ UNCHANGED <<layout, sections, tps, hypos, given>>
  BY DEF SetWeights
<1>2. /\ tps = <<>> /\ hypos = <<>> /\ sections \in SectionLists
      /\ next \in 1 .. Len(sections) + 1
      /\ weights \in [0 .. totalNumScores - 1 -> Int]
  BY <1>1 DEF StageIsRight
<1>3. next' \in 1 .. Len(sections') + 1
  <2>1. Len(sections) \in Nat
    BY <1>2, SectionsAreLists
  <2> QED  BY <1>1, <1>2, <2>1
<1>4. FeaturesTyped' /\ SlotsAreLaid' /\ StatesAreLaid'
  BY <1>1, LayoutStays
<1>5. StatesKept' /\ ScoresAreRight'
  BY <1>1, <1>2 DEF StatesKept, ScoresAreRight
<1>6. totalNumScores' = totalNumScores
  BY <1>1 DEF layout
<1>7. ASSUME system' = "exception", UNCHANGED weights
      PROVE  StageIsRight'
  BY <1>1, <1>2, <1>3, <1>6, <1>7, StageOfException
<1>8. ASSUME ~ (system' = "exception" /\ UNCHANGED weights)
      PROVE  StageIsRight'
  <2> DEFINE section == sections[next]
  <2>1. PICK n \in FindFeatureFunction(section.name) :
          /\ ffs[n].numScores = Len(section.weights)
          /\ weights' = [s \in DOMAIN weights |->
                           IF s \in Slots(ffs[n])
                           THEN section.weights[s - ffs[n].startInd + 1]
                           ELSE weights[s]]
    BY <1>8 DEF SetWeights
  <2>2. Named(section.name) # {} /\ n = Min(Named(section.name))
    BY <2>1 DEF FindFeatureFunction
  <2>3. n \in DOMAIN ffs
    <3>1. Len(ffs) \in Nat /\ DOMAIN ffs = 1 .. Len(ffs)
      BY DEF FeaturesTyped
    <3>2. Named(section.name) \in SUBSET (1 .. Len(ffs))
      BY <3>1 DEF Named
    <3>3. Min(Named(section.name)) \in Named(section.name)
      BY <2>2, <3>1, <3>2, MinIs
    <3> QED  BY <2>2, <3>3 DEF Named
  <2>4. weights' \in [0 .. totalNumScores - 1 -> Int] /\ WeightsSoFar'
    BY <1>1, <2>1, <2>2, <2>3, WeightsAreSet
  <2>5. system' = "weights"
    BY <1>1, <1>8 DEF SetWeights
  <2>6. weights' \in [0 .. totalNumScores' - 1 -> Int]
    BY <1>6, <2>4
  <2>7. sections' \in SectionLists /\ tps' = <<>> /\ hypos' = <<>>
    BY <1>1, <1>2
  <2> QED  BY <1>3, <2>4, <2>5, <2>6, <2>7, StageWithWeights
<1>9. StageIsRight'
  BY <1>7, <1>8
<1> QED  BY <1>4, <1>5, <1>9

LEMMA WeightsLoadedKeeps ==
  ASSUME FeaturesInv, WeightsLoaded
  PROVE  FeaturesInv'
<1> USE DEF FeaturesInv
<1>1. /\ system = "weights" /\ next > Len(sections) /\ system' \in {"undefined", "load"}
      /\ UNCHANGED <<layout, sections, next, weights, tps, hypos, given>>
  BY DEF WeightsLoaded
<1>2. FeaturesTyped' /\ SlotsAreLaid' /\ StatesAreLaid'
  BY <1>1, LayoutStays
<1>3. /\ tps = <<>> /\ hypos = <<>> /\ sections \in SectionLists
      /\ next = Len(sections) + 1
      /\ weights \in [0 .. totalNumScores - 1 -> Int] /\ WeightsSoFar
  <2>1. /\ tps = <<>> /\ hypos = <<>> /\ sections \in SectionLists
        /\ next \in 1 .. Len(sections) + 1
        /\ weights \in [0 .. totalNumScores - 1 -> Int] /\ WeightsSoFar
    BY <1>1 DEF StageIsRight
  <2>2. Len(sections) \in Nat
    BY <2>1, SectionsAreLists
  <2> QED  BY <1>1, <2>1, <2>2
<1>4. WeightsSoFar' /\ totalNumScores' = totalNumScores
  BY <1>1, <1>3 DEF WeightsSoFar, SectionsOf, Slots, Named, layout
<1>5. next' = Len(sections') + 1 /\ next' \in 1 .. Len(sections') + 1
  <2>1. Len(sections) \in Nat
    BY <1>3, SectionsAreLists
  <2> QED  BY <1>1, <1>3, <2>1
<1>6. StageIsRight'
  BY <1>1, <1>3, <1>4, <1>5 DEF StageIsRight
<1>7. StatesKept' /\ ScoresAreRight'
  BY <1>1, <1>3 DEF StatesKept, ScoresAreRight
<1> QED  BY <1>2, <1>6, <1>7
\* Before the search there are weights, and afterwards the same.
LEMMA WeightsStay ==
  ASSUME FeaturesInv, system \in {"load", "search", "assert"},
         UNCHANGED <<layout, sections, next, weights>>
  PROVE  /\ sections' \in SectionLists /\ next' = Len(sections') + 1
         /\ next' \in 1 .. Len(sections') + 1
         /\ weights \in [0 .. totalNumScores - 1 -> Int]
         /\ weights' \in [0 .. totalNumScores' - 1 -> Int]
         /\ WeightsSoFar /\ WeightsSoFar'
<1>1. /\ sections \in SectionLists /\ next = Len(sections) + 1
      /\ weights \in [0 .. totalNumScores - 1 -> Int] /\ WeightsSoFar
  BY DEF FeaturesInv, StageIsRight
<1>2. totalNumScores' = totalNumScores /\ sections' = sections /\ next' = next /\ weights' = weights
  BY DEF layout
<1>3. WeightsSoFar'
  BY <1>1 DEF WeightsSoFar, SectionsOf, Slots, Named, layout
<1>4. Len(sections) \in Nat
  BY <1>1, SectionsAreLists
<1> QED  BY <1>1, <1>2, <1>3, <1>4

\* The scores of a target phrase: those of its line, and then the word penalties.
LEMMA LoadedScoresAreGood ==
  ASSUME FeaturesTyped, SlotsAreLaid, weights \in [0 .. totalNumScores - 1 -> Int],
         NEW line \in Tables, NEW n \in pt, Len(line.scores) = ffs[n].numScores,
         \A w \in WordPenalties : ffs[w].numScores = 1
  PROVE  EvaluateInIsolation(PlusEqual(NoScores, ffs[n], line.scores), line) \in GoodScores
<1> DEFINE sc == PlusEqual(NoScores, ffs[n], line.scores)
<1>1. /\ n \in DOMAIN ffs /\ ffs[n].kind = Table
      /\ totalNumScores \in Nat
  BY DEF FeaturesTyped
<1>2. line.scores \in Seq(Int) /\ line.size \in Int
  BY FeaturesAssumption
<1>3. NoScores \in GoodScores /\ \A s \in 0 .. totalNumScores - 1 : NoScores.scores[s] = 0
  BY <1>1, NoScoresAreGood
<1>4. ffs[n].startInd \in Nat /\ ffs[n].startInd + ffs[n].numScores <= totalNumScores
  BY <1>1, FeatureAt DEF SlotsAreLaid, SlotsEnd
<1>5. \A s \in Slots(ffs[n]) : NoScores.scores[s] = 0
  BY <1>1, <1>3, SlotsOfWeights
<1>6. /\ sc \in GoodScores
      /\ \A s \in 0 .. totalNumScores - 1 :
           s \notin Slots(ffs[n]) => sc.scores[s] = NoScores.scores[s]
  BY <1>1, <1>2, <1>3, <1>4, <1>5, PlusEqualIsGood
<1>7. ASSUME NEW w \in WordPenalties, NEW s \in Slots(ffs[w])
      PROVE  sc.scores[s] = 0
  <2>1. w \in DOMAIN ffs /\ ffs[w].kind = "WordPenalty"
    BY DEF WordPenalties, FeaturesTyped
  <2>2. w # n
    BY <1>1, <2>1 DEF Table
  <2>3. s \notin Slots(ffs[n])
    BY <1>1, <2>1, <2>2, SlotsApart
  <2>4. s \in 0 .. totalNumScores - 1
    BY <2>1, SlotsOfWeights
  <2> QED  BY <1>3, <1>6, <2>3, <2>4
<1> HIDE DEF sc
<1>8. EvaluateInIsolation(sc, line) \in GoodScores
  BY <1>2, <1>6, <1>7, IsolationIsGood
<1> QED  BY <1>8 DEF sc

LEMMA LoadTargetPhraseKeeps ==
  ASSUME FeaturesInv, NEW line \in Tables, LoadTargetPhrase(line)
  PROVE  FeaturesInv'
<1> USE DEF FeaturesInv
<1>1. system = "load" /\ UNCHANGED <<layout, sections, next, weights, hypos, given>>
  BY DEF LoadTargetPhrase
<1>2. FeaturesTyped' /\ SlotsAreLaid' /\ StatesAreLaid'
  BY <1>1, LayoutStays
<1>3. /\ sections' \in SectionLists /\ next' = Len(sections') + 1
      /\ next' \in 1 .. Len(sections') + 1
      /\ weights \in [0 .. totalNumScores - 1 -> Int]
      /\ weights' \in [0 .. totalNumScores' - 1 -> Int]
      /\ WeightsSoFar'
  BY <1>1, WeightsStay
<1>4. hypos = <<>> /\ hypos' = <<>>
  BY <1>1 DEF StageIsRight
<1>5. StatesKept'
  BY <1>4 DEF StatesKept
<1>6. GoodScores' = GoodScores
  BY <1>1, GoodStays
<1>7. CASE system' = "exception" /\ tps' = tps
  <2>1. StageIsRight'
    <3>1. totalNumScores' = totalNumScores /\ sections' = sections /\ weights' = weights
      BY <1>1 DEF layout
    <3> QED  BY <1>1, <1>3, <1>4, <1>7, <3>1, StageOfException
  <2>2. ScoresAreRight'
    BY <1>4, <1>6, <1>7 DEF ScoresAreRight
  <2> QED  BY <1>2, <1>5, <2>1, <2>2
<1>8. CASE ~ (system' = "exception" /\ tps' = tps)
  <2>1. PICK n \in pt :
          /\ Len(line.scores) = ffs[n].numScores
          /\ \A w \in WordPenalties : ffs[w].numScores = 1
          /\ tps' = Append(tps, EvaluateInIsolation(PlusEqual(NoScores, ffs[n], line.scores), line))
          /\ system' = system
    BY <1>8 DEF LoadTargetPhrase
  <2> DEFINE sc == EvaluateInIsolation(PlusEqual(NoScores, ffs[n], line.scores), line)
  <2>2. sc \in GoodScores
    BY <1>3, <2>1, LoadedScoresAreGood
  <2>3. tps' = Append(tps, sc) /\ system' = "load"
    BY <1>1, <2>1
  <2> HIDE DEF sc
  <2>4. tps' \in Seq(GoodScores)
    <3>1. tps \in Seq(GoodScores)
      BY DEF ScoresAreRight
    <3> QED  BY <2>2, <2>3, <3>1
  <2>5. ScoresAreRight'
    BY <1>4, <1>6, <2>4 DEF ScoresAreRight
  <2>6. StageIsRight'
    BY <1>3, <1>4, <2>3, StageWithWeights
  <2> QED  BY <1>2, <1>5, <2>5, <2>6
<1> QED  BY <1>7, <1>8

LEMMA TableLoadedKeeps ==
  ASSUME FeaturesInv, TableLoaded
  PROVE  FeaturesInv'
<1> USE DEF FeaturesInv
<1> DEFINE hypo == [scores |-> NoScores,
                    stateData |-> [b \in 0 .. (totalStateSize - 1) |-> NoState]]
<1>1. /\ system = "load" /\ system' = "search" /\ hypos' = <<hypo>>
      /\ UNCHANGED <<layout, sections, next, weights, tps, given>>
  BY DEF TableLoaded
<1>2. FeaturesTyped' /\ SlotsAreLaid' /\ StatesAreLaid'
  BY <1>1, LayoutStays
<1>3. /\ sections' \in SectionLists /\ next' = Len(sections') + 1
      /\ next' \in 1 .. Len(sections') + 1
      /\ weights \in [0 .. totalNumScores - 1 -> Int]
      /\ weights' \in [0 .. totalNumScores' - 1 -> Int]
      /\ WeightsSoFar'
  BY <1>1, WeightsStay
<1>4. hypo \in GoodHypos
  <2>1. NoScores \in GoodScores
    BY <1>3, NoScoresAreGood DEF FeaturesTyped
  <2>2. [b \in 0 .. (totalStateSize - 1) |-> NoState] \in [0 .. totalStateSize - 1 -> StateBytes]
    BY DEF StateBytes
  <2> QED  BY <2>1, <2>2 DEF GoodHypos
<1> HIDE DEF hypo
<1>5. GoodScores' = GoodScores /\ GoodHypos' = GoodHypos
  BY <1>1, GoodStays
<1>6. hypos' \in Seq(GoodHypos) /\ Len(hypos') = 1 /\ hypos' # <<>>
  BY <1>1, <1>4
<1>7. ScoresAreRight'
  BY <1>1, <1>5, <1>6 DEF ScoresAreRight
<1>8. StatesKept'
  BY <1>6 DEF StatesKept
<1>9. StageIsRight'
  BY <1>1, <1>3, <1>6, StageWithWeights
<1> QED  BY <1>2, <1>7, <1>8, <1>9

LEMMA ExtendKeeps ==
  ASSUME FeaturesInv, NEW phrase \in ToSet(tps),
         NEW outcomes \in [ToSet(statefulFFs) -> Outcomes], Extend(phrase, outcomes)
  PROVE  FeaturesInv'
<1> USE DEF FeaturesInv
<1>1. system = "search" /\ UNCHANGED <<layout, sections, next, weights, tps>>
  BY DEF Extend
<1>2. FeaturesTyped' /\ SlotsAreLaid' /\ StatesAreLaid'
  BY <1>1, LayoutStays
<1>3. /\ sections' \in SectionLists /\ next' = Len(sections') + 1
      /\ next' \in 1 .. Len(sections') + 1
      /\ weights \in [0 .. totalNumScores - 1 -> Int]
      /\ weights' \in [0 .. totalNumScores' - 1 -> Int]
      /\ WeightsSoFar'
  BY <1>1, WeightsStay
<1>4. GoodScores' = GoodScores /\ GoodHypos' = GoodHypos
  BY <1>1, GoodStays
<1>5. hypos # <<>> /\ hypos \in Seq(GoodHypos) /\ tps \in Seq(GoodScores)
  BY <1>1 DEF StageIsRight, ScoresAreRight
<1>6. CASE /\ \A n \in ToSet(statefulFFs) : ffs[n].numScores = 1
           /\ given' = outcomes /\ system' = system
           /\ LET hypo == [scores    |-> AddScores(AddScores(NoScores, phrase),
                                                   Last(hypos).scores),
                           stateData |-> [b \in 0 .. (totalStateSize - 1) |-> NoState]]
              IN  hypos' = Append(hypos,
                     FoldLeft(LAMBDA acc, n : Evaluate(acc, ffs[n], outcomes[n]),
                              hypo, statefulFFs))
  <2> DEFINE hypo == [scores    |-> AddScores(AddScores(NoScores, phrase), Last(hypos).scores),
                      stateData |-> [b \in 0 .. (totalStateSize - 1) |-> NoState]]
             e == FoldLeft(LAMBDA acc, n : Evaluate(acc, ffs[n], outcomes[n]), hypo, statefulFFs)
  <2>1. hypo \in GoodHypos
    <3>1. Last(hypos) \in GoodHypos
      BY <1>5 DEF Last
    <3>2. Last(hypos).scores \in GoodScores
      BY <3>1 DEF GoodHypos
    <3>3. phrase \in GoodScores
      BY <1>5 DEF ToSet
    <3>4. totalNumScores \in Nat
      BY DEF FeaturesTyped
    <3>5. NoScores \in GoodScores
      BY <1>3, <3>4, NoScoresAreGood
    <3>6. AddScores(NoScores, phrase) \in GoodScores
      BY <1>3, <3>3, <3>4, <3>5, AddScoresIsGood
    <3>7. AddScores(AddScores(NoScores, phrase), Last(hypos).scores) \in GoodScores
      BY <1>3, <3>2, <3>4, <3>6, AddScoresIsGood
    <3>8. [b \in 0 .. (totalStateSize - 1) |-> NoState] \in [0 .. totalStateSize - 1 -> StateBytes]
      BY DEF StateBytes
    <3> QED  BY <3>7, <3>8 DEF GoodHypos
  <2>2. hypos' = Append(hypos, e)
    BY <1>6
  <2> HIDE DEF hypo
  <2>3. /\ e \in GoodHypos
        /\ \A n \in ToSet(statefulFFs) : \A b \in StateSlots(ffs[n]) :
             e.stateData[b] = <<outcomes[n].state, b - ffs[n].stateOffset>>
    BY <1>3, <1>6, <2>1, EvaluatedIsGood
  <2> HIDE DEF e
  <2>4. hypos' \in Seq(GoodHypos) /\ hypos' # <<>> /\ Last(hypos') = e
    BY <1>5, <2>2, <2>3 DEF Last
  <2>5. ScoresAreRight'
    BY <1>1, <1>4, <1>5, <2>4 DEF ScoresAreRight
  <2>6. StatesKept'
    <3>1. ffs' = ffs /\ statefulFFs' = statefulFFs /\ given' = outcomes
      BY <1>1, <1>6 DEF layout
    <3> QED  BY <2>3, <2>4, <3>1 DEF StatesKept, StateSlots
  <2>7. StageIsRight'
    BY <1>1, <1>3, <1>6, <2>4, StageWithWeights
  <2> QED  BY <1>2, <2>5, <2>6, <2>7
<1>7. CASE system' = "assert" /\ UNCHANGED <<hypos, given>>
  <2>1. ScoresAreRight'
    BY <1>1, <1>4, <1>5, <1>7 DEF ScoresAreRight
  <2>2. StatesKept'
    BY <1>1, <1>7 DEF StatesKept, StateSlots, layout
  <2>3. StageIsRight'
    BY <1>1, <1>3, <1>5, <1>7, StageWithWeights
  <2> QED  BY <1>2, <2>1, <2>2, <2>3
<1> QED  BY <1>6, <1>7 DEF Extend

LEMMA FeaturesNextKeeps ==
  ASSUME FeaturesInv, [FeaturesNext]_featureVars
  PROVE  FeaturesInv'
<1>1. CASE Created
  BY <1>1, CreatedKeeps
<1>2. CASE SetWeights
  BY <1>2, SetWeightsKeeps
<1>3. CASE WeightsLoaded
  BY <1>3, WeightsLoadedKeeps
<1>4. CASE TableLoaded
  BY <1>4, TableLoadedKeeps
<1>5. CASE \E line \in FeatureLines : CreateFeature(line)
  BY <1>5, CreateFeatureKeeps
<1>6. CASE \E line \in Tables : LoadTargetPhrase(line)
  BY <1>6, LoadTargetPhraseKeeps
<1>7. CASE \E phrase \in ToSet(tps), outcomes \in [ToSet(statefulFFs) -> Outcomes] :
             Extend(phrase, outcomes)
  BY <1>7, ExtendKeeps
<1>8. CASE UNCHANGED featureVars
  <2>1. UNCHANGED <<layout, sections, next, weights, system, tps, hypos, given>>
    BY <1>8 DEF featureVars
  <2>2. FeaturesTyped' /\ SlotsAreLaid' /\ StatesAreLaid'
    BY <2>1, LayoutStays DEF FeaturesInv
  <2>3. GoodScores' = GoodScores /\ GoodHypos' = GoodHypos
    BY <2>1, GoodStays
  <2>4. ScoresAreRight'
    BY <2>1, <2>3 DEF FeaturesInv, ScoresAreRight
  <2>5. StatesKept'
    BY <2>1 DEF FeaturesInv, StatesKept, StateSlots, layout
  <2>6. StageIsRight'
    <3>1. StageIsRight
      BY DEF FeaturesInv
    <3>2. totalNumScores' = totalNumScores /\ ffs' = ffs
      BY <2>1 DEF layout
    <3>3. WeightsSoFar' <=> WeightsSoFar
      BY <2>1, <3>2 DEF WeightsSoFar, SectionsOf, Slots, Named
    <3> QED  BY <2>1, <3>1, <3>2, <3>3 DEF StageIsRight
  <2> QED  BY <2>2, <2>4, <2>5, <2>6 DEF FeaturesInv
<1> QED  BY <1>1, <1>2, <1>3, <1>4, <1>5, <1>6, <1>7, <1>8 DEF FeaturesNext

LEMMA FeaturesInvariant == FeaturesSpec => []FeaturesInv
<1>1. FeaturesInit => FeaturesInv
  BY FeaturesInitKeeps
<1>2. FeaturesInv /\ [FeaturesNext]_featureVars => FeaturesInv'
  BY FeaturesNextKeeps
<1> QED  BY <1>1, <1>2, PTL DEF FeaturesSpec

LEMMA InvImpliesLayout ==
  ASSUME FeaturesInv
  PROVE  LayoutIsRight
<1> USE DEF FeaturesInv
<1>1. OwnSlots
  <2>1. \A m, n \in DOMAIN ffs : m # n => Slots(ffs[m]) \intersect Slots(ffs[n]) = {}
    BY SlotsApart
  <2>2. UNION {Slots(ffs[n]) : n \in DOMAIN ffs} = 0 .. totalNumScores - 1
    <3>1. \A n \in DOMAIN ffs : \A s \in Slots(ffs[n]) : s \in 0 .. totalNumScores - 1
      BY SlotsOfWeights
    <3>2. \A s \in 0 .. totalNumScores - 1 : \E n \in DOMAIN ffs : s \in Slots(ffs[n])
      BY DEF SlotsAreLaid
    <3> QED  BY <3>1, <3>2
  <2>3. \A m, n \in ToSet(statefulFFs) :
          m # n => StateSlots(ffs[m]) \intersect StateSlots(ffs[n]) = {}
    BY StateSlotsApart
  <2>4. UNION {StateSlots(ffs[n]) : n \in ToSet(statefulFFs)} = 0 .. totalStateSize - 1
    <3>1. ASSUME NEW n \in ToSet(statefulFFs), NEW b \in StateSlots(ffs[n])
          PROVE  b \in 0 .. totalStateSize - 1
      <4>1. n \in DOMAIN ffs /\ ffs[n].kind \in Stateful /\ totalStateSize \in Nat
        BY DEF FeaturesTyped
      <4>2. ffs[n].stateOffset \in Nat /\ StateSize[ffs[n].kind] \in Nat
        BY <4>1, FeatureAt, FeaturesAssumption
      <4>3. StateEnd(ffs[n]) <= totalStateSize
        BY DEF StatesAreLaid
      <4> QED  BY <4>1, <4>2, <4>3 DEF StateSlots, StateEnd
    <3>2. \A b \in 0 .. totalStateSize - 1 :
            \E n \in ToSet(statefulFFs) : b \in StateSlots(ffs[n])
      BY DEF StatesAreLaid
    <3> QED  BY <3>1, <3>2
  <2> QED  BY <2>1, <2>2, <2>3, <2>4 DEF OwnSlots
<1>2. WeightsOfTheirFeature
  <2>1. ASSUME system \in {"load", "search", "assert"}, NEW n \in DOMAIN ffs,
               NEW s \in Slots(ffs[n])
        PROVE  IF SectionsOf(n) = {} THEN weights[s] \in Junk
               ELSE \A k \in SectionsOf(n) :
                      weights[s] = sections[k].weights[s - ffs[n].startInd + 1]
    <3>1. next = Len(sections) + 1 /\ sections \in SectionLists /\ WeightsSoFar
      BY <2>1 DEF StageIsRight
    <3>2. {k \in SectionsOf(n) : k < next} = SectionsOf(n)
      <4>1. DOMAIN sections = 1 .. Len(sections) /\ Len(sections) \in Nat
        BY <3>1, SectionsAreLists
      <4> QED  BY <3>1, <4>1 DEF SectionsOf
    <3> QED  BY <3>1, <3>2 DEF WeightsSoFar
  <2> QED  BY <2>1 DEF WeightsOfTheirFeature, SectionsOf
<1> QED  BY <1>1, <1>2 DEF LayoutIsRight

(***************************************************************************)
(* Each feature has score slots and state bytes of its own, its weights    *)
(* and no other's are in its slots, and its state is what it set last,     *)
(* whatever the lines and their order, for states of any size              *)
(* (FeatureFunctions.cu:49-105, System.cu:19-53).                          *)
(***************************************************************************)
THEOREM LayoutAlwaysRight == FeaturesSpec => []LayoutIsRight
<1>1. FeaturesInv => LayoutIsRight
  BY InvImpliesLayout
<1> QED  BY <1>1, FeaturesInvariant, PTL

(***************************************************************************)
(* The total of every target phrase and of every hypothesis is the product *)
(* of its scores with the weights, for chains of any length and any        *)
(* scores and weights (Scores.cu:35-57, ScoresUnmanaged.cu:28-54).         *)
(***************************************************************************)
THEOREM TotalsAlwaysDotProducts == FeaturesSpec => []TotalsAreDotProducts
<1>1. ASSUME FeaturesInv
      PROVE  TotalsAreDotProducts
  <2>1. tps \in Seq(GoodScores) /\ hypos \in Seq(GoodHypos)
    BY <1>1 DEF FeaturesInv, ScoresAreRight
  <2>2. \A sc \in ToSet(tps) : sc \in GoodScores
    BY <2>1 DEF ToSet
  <2>3. \A n \in DOMAIN hypos : hypos[n].scores \in GoodScores
    <3>1. \A n \in DOMAIN hypos : hypos[n] \in GoodHypos
      BY <2>1
    <3> QED  BY <3>1 DEF GoodHypos
  <2>4. \A sc \in GoodScores : sc.total = Product(sc.scores)
    BY DEF GoodScores
  <2> QED  BY <2>2, <2>3, <2>4, TotalIsTotalOf DEF TotalsAreDotProducts
<1> QED  BY <1>1, FeaturesInvariant, PTL

=============================================================================
