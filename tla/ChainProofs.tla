---------------------------- MODULE ChainProofs -----------------------------
(***************************************************************************)
(* Proofs about Chain, for any programs of workers, any files, any sizes   *)
(* and numbers of blocks: no block is lost or in two places at once, and   *)
(* what a chain writes is what went into it.                               *)
(***************************************************************************)
EXTENDS Chain, TrieProofs, FiniteSetTheorems

(***************************************************************************)
(* Chains of workers                                                       *)
(***************************************************************************)

IsSeq(s) == s \in Seq(ToSet(s))

IsBlock(b) == b = [x \in {"mem", "valid"} |-> b[x]]

LinkFields == {"job", "in", "out", "at", "block", "offset", "carry"}

IsLink(th) == th = [x \in LinkFields |-> th[x]]

Holding == {"work", "poison"}

\* The sequences and records are what they seem to be, and links lie between queues.
Linked ==
  /\ IsSeq(queues)
  /\ \A q \in DOMAIN queues :
       IsSeq(queues[q]) /\ \A n \in DOMAIN queues[q] : IsBlock(queues[q][n])
  /\ IsSeq(threads)
  /\ \A t \in DOMAIN threads :
       /\ IsLink(threads[t])
       /\ IsBlock(threads[t].block)
       /\ threads[t].in \in DOMAIN queues
       /\ threads[t].out \in DOMAIN queues

\* Rounds still to do, each of which starts a chain.
RoundsAreRight ==
  /\ IsSeq(program)
  /\ \A n \in DOMAIN program : Len(program[n]) > 0 /\ program[n][1].kind \notin Sinks
  /\ main \in {"build", "join", "drain", "clear"} => program # <<>>

\* Each block is in one place.
NoneIsLost == Cardinality(InQueues) + Cardinality(HeldBlocks) = Config.blockCount

NoneIsDoubled ==
  /\ \A i, j \in InQueues :
       i # j /\ ~IsPoison(BlockAt(i)) => BlockAt(i).mem # BlockAt(j).mem
  /\ \A i \in InQueues : \A t \in HeldBlocks :
       ~IsPoison(BlockAt(i)) => BlockAt(i).mem # threads[t].block.mem
  /\ \A s, t \in HeldBlocks :
       s # t /\ ~IsPoison(threads[s].block) => threads[s].block.mem # threads[t].block.mem

\* What is left for Wait to take out.
Draining ==
  /\ \A t \in DOMAIN threads : threads[t].at = "ended"
  /\ queues # <<>>
  /\ drained \in Nat
  /\ drained + Len(queues[1]) <= Config.blockCount

ChainInv ==
  /\ RoundsAreRight
  /\ main \in {"build", "join", "drain"} => Linked
  /\ main \in {"build", "join"} /\ queues # <<>> => NoneIsLost /\ NoneIsDoubled
  /\ main = "build" /\ queues = <<>> => threads = <<>>
  /\ main = "join" => queues # <<>>
  /\ main = "drain" => Draining
  /\ main # "abort"

-----------------------------------------------------------------------------
(* Sequences *)

LEMMA SeqFacts ==
  ASSUME NEW s, IsSeq(s)
  PROVE  /\ Len(s) \in Nat
         /\ DOMAIN s = 1 .. Len(s)
         /\ s # <<>> <=> Len(s) > 0
BY DEF IsSeq

LEMMA SeqIsSeq == ASSUME NEW S, NEW s \in Seq(S) PROVE IsSeq(s)
BY DEF IsSeq, ToSet

LEMMA AppendIs ==
  ASSUME NEW s, NEW e, IsSeq(s)
  PROVE  /\ IsSeq(Append(s, e))
         /\ Len(Append(s, e)) = Len(s) + 1
         /\ DOMAIN Append(s, e) = 1 .. (Len(s) + 1)
         /\ \A n \in DOMAIN s : Append(s, e)[n] = s[n]
         /\ Append(s, e)[Len(s) + 1] = e
<1> DEFINE S == ToSet(s) \union {e}
<1>1. s \in Seq(S) /\ e \in S
  BY DEF IsSeq
<1> HIDE DEF S
<1>2. Append(s, e) \in Seq(S)
  BY <1>1
<1>3. IsSeq(Append(s, e))
  BY <1>2, SeqIsSeq
<1> QED  BY <1>1, <1>3

LEMMA TailIs ==
  ASSUME NEW s, IsSeq(s), s # <<>>
  PROVE  /\ IsSeq(Tail(s))
         /\ Len(Tail(s)) = Len(s) - 1
         /\ DOMAIN Tail(s) = 1 .. (Len(s) - 1)
         /\ \A n \in DOMAIN Tail(s) : Tail(s)[n] = s[n + 1]
         /\ Head(s) = s[1]
         /\ Len(s) > 0
<1>1. s \in Seq(ToSet(s)) /\ Len(s) > 0
  BY DEF IsSeq
<1>2. Tail(s) \in Seq(ToSet(s))
  BY <1>1
<1>3. IsSeq(Tail(s))
  BY <1>2, SeqIsSeq
<1> QED  BY <1>1, <1>3

LEMMA ExceptIs ==
  ASSUME NEW s, NEW n \in DOMAIN s, NEW e, IsSeq(s)
  PROVE  /\ IsSeq([s EXCEPT ![n] = e])
         /\ Len([s EXCEPT ![n] = e]) = Len(s)
         /\ DOMAIN [s EXCEPT ![n] = e] = DOMAIN s
         /\ [s EXCEPT ![n] = e] # <<>>
<1> DEFINE S == ToSet(s) \union {e}
<1>1. s \in Seq(S) /\ e \in S
  BY DEF IsSeq
<1> HIDE DEF S
<1>2. [s EXCEPT ![n] = e] \in Seq(S)
  BY <1>1
<1>3. DOMAIN [s EXCEPT ![n] = e] = DOMAIN s
  OBVIOUS
<1>4. Len([s EXCEPT ![n] = e]) = Len(s) /\ Len(s) \in Nat /\ n \in 1 .. Len(s)
  BY <1>1, <1>2, <1>3
<1>5. IsSeq([s EXCEPT ![n] = e])
  BY <1>2, SeqIsSeq
<1> QED  BY <1>3, <1>4, <1>5

-----------------------------------------------------------------------------
(* Counting blocks *)

LEMMA PlaceIs ==
  \A p : p \in InQueues <=>
           /\ p = <<p[1], p[2]>>
           /\ p[1] \in DOMAIN queues
           /\ p[2] \in DOMAIN queues[p[1]]
<1> SUFFICES ASSUME NEW p
             PROVE  p \in InQueues <=> /\ p = <<p[1], p[2]>>
                                       /\ p[1] \in DOMAIN queues
                                       /\ p[2] \in DOMAIN queues[p[1]]
  OBVIOUS
<1>1. p \in InQueues <=> \E q \in DOMAIN queues : p \in {q} \X DOMAIN queues[q]
  BY Zenon DEF InQueues
<1>2. \A q : p \in {q} \X DOMAIN queues[q] <=>
               p = <<p[1], p[2]>> /\ p[1] = q /\ p[2] \in DOMAIN queues[q]
  OBVIOUS
<1> QED  BY <1>1, <1>2, Zenon

LEMMA CountsAreNatural ==
  ASSUME Linked
  PROVE  /\ IsFiniteSet(InQueues) /\ Cardinality(InQueues) \in Nat
         /\ IsFiniteSet(HeldBlocks) /\ Cardinality(HeldBlocks) \in Nat
         /\ HeldBlocks \subseteq DOMAIN threads
<1>1. IsFiniteSet(DOMAIN queues) /\ IsFiniteSet(DOMAIN threads)
  BY SeqFacts, FS_Interval DEF Linked
<1>2. \A q \in DOMAIN queues : IsFiniteSet({q} \X DOMAIN queues[q])
  <2> SUFFICES ASSUME NEW q \in DOMAIN queues PROVE IsFiniteSet({q} \X DOMAIN queues[q])
    OBVIOUS
  <2>1. IsFiniteSet(DOMAIN queues[q])
    BY SeqFacts, FS_Interval DEF Linked
  <2> QED  BY <2>1, FS_Singleton, FS_Product
<1> DEFINE Rows == {{q} \X DOMAIN queues[q] : q \in DOMAIN queues}
<1>3. IsFiniteSet(Rows)
  <2> DEFINE RowOf == [q \in DOMAIN queues |-> {q} \X DOMAIN queues[q]]
  <2>1. RowOf \in Surjection(DOMAIN queues, Rows)
    BY DEF Surjection
  <2> QED  BY <1>1, <2>1, FS_Surjection
<1>4. \A T \in Rows : IsFiniteSet(T)
  BY <1>2
<1>5. IsFiniteSet(InQueues)
  <2> HIDE DEF Rows
  <2>1. IsFiniteSet(UNION Rows)
    BY <1>3, <1>4, FS_UNION
  <2> QED  BY <2>1 DEF InQueues, Rows
<1>6. HeldBlocks \subseteq DOMAIN threads
  BY DEF HeldBlocks
<1> QED  BY <1>1, <1>5, <1>6, FS_Subset, FS_CardinalityType

\* No queue has more blocks than all of them together.
LEMMA QueueIsPart ==
  ASSUME Linked, NEW q \in DOMAIN queues
  PROVE  Len(queues[q]) \in Nat /\ Len(queues[q]) <= Cardinality(InQueues)
<1>1. IsSeq(queues[q])
  BY DEF Linked
<1>2. Len(queues[q]) \in Nat /\ DOMAIN queues[q] = 1 .. Len(queues[q])
  BY <1>1, SeqFacts
<1>3. IsFiniteSet(DOMAIN queues[q]) /\ Cardinality(DOMAIN queues[q]) = Len(queues[q])
  BY <1>2, FS_Interval
<1>4. Cardinality({q} \X DOMAIN queues[q]) = Cardinality({q}) * Cardinality(DOMAIN queues[q])
  BY <1>3, FS_Singleton, FS_Product
<1>5. Cardinality({q}) = 1
  BY FS_Singleton
<1>6. Cardinality({q} \X DOMAIN queues[q]) = Len(queues[q])
  BY <1>2, <1>3, <1>4, <1>5
<1>7. {q} \X DOMAIN queues[q] \subseteq InQueues
  BY PlaceIs
<1>8. Cardinality({q} \X DOMAIN queues[q]) <= Cardinality(InQueues)
  BY <1>7, CountsAreNatural, FS_Subset
<1> QED  BY <1>2, <1>6, <1>8

-----------------------------------------------------------------------------
(* A thread takes a block from its queue, or gives one to the next *)

\* Thread t is at another point, and may have another block.
Becomes(t, where) ==
  /\ IsSeq(threads') /\ DOMAIN threads' = DOMAIN threads
  /\ \A u \in DOMAIN threads : u # t => threads'[u] = threads[u]
  /\ IsLink(threads'[t]) /\ IsBlock(threads'[t].block)
  /\ threads'[t].in = threads[t].in /\ threads'[t].out = threads[t].out
  /\ threads'[t].at = where

AllKept == Linked /\ NoneIsLost /\ NoneIsDoubled

LEMMA TakeKeeps ==
  ASSUME AllKept, NEW t \in DOMAIN threads, NEW where \in Holding,
         threads[t].at \notin Holding,
         queues[threads[t].in] # <<>>,
         queues' = [queues EXCEPT ![threads[t].in] = Tail(@)],
         Becomes(t, where), threads'[t].block = Head(queues[threads[t].in])
  PROVE  AllKept' /\ queues' # <<>>
<1> DEFINE q == threads[t].in
           n == Len(queues[q])
           Old(p) == IF p[1] = q THEN <<q, p[2] + 1>> ELSE p
<1>1. /\ q \in DOMAIN queues /\ IsSeq(queues) /\ IsSeq(queues[q])
      /\ \A i \in DOMAIN queues[q] : IsBlock(queues[q][i])
  BY DEF AllKept, Linked
<1>2. /\ IsSeq(queues') /\ DOMAIN queues' = DOMAIN queues /\ queues' # <<>>
  BY <1>1, ExceptIs
<1>3. /\ queues'[q] = Tail(queues[q])
      /\ \A p \in DOMAIN queues : p # q => queues'[p] = queues[p]
  BY <1>1
<1>4. /\ IsSeq(queues'[q]) /\ n \in Nat /\ n > 0
      /\ DOMAIN queues[q] = 1 .. n /\ DOMAIN queues'[q] = 1 .. (n - 1)
      /\ \A i \in 1 .. (n - 1) : queues'[q][i] = queues[q][i + 1]
      /\ Head(queues[q]) = queues[q][1]
  BY <1>1, <1>3, TailIs, SeqFacts
<1>5. Linked'
  <2>1. \A p \in DOMAIN queues : 
          IsSeq(queues'[p]) /\ \A i \in DOMAIN queues'[p] : IsBlock(queues'[p][i])
    <3> SUFFICES ASSUME NEW p \in DOMAIN queues
                 PROVE  IsSeq(queues'[p]) /\ \A i \in DOMAIN queues'[p] : IsBlock(queues'[p][i])
      OBVIOUS
    <3>1. CASE p = q
      BY <3>1, <1>1, <1>4
    <3>2. CASE p # q
      BY <3>2, <1>3 DEF AllKept, Linked
    <3> QED  BY <3>1, <3>2
  <2>2. \A u \in DOMAIN threads :
          /\ IsLink(threads'[u]) /\ IsBlock(threads'[u].block)
          /\ threads'[u].in \in DOMAIN queues /\ threads'[u].out \in DOMAIN queues
    BY DEF AllKept, Linked, Becomes
  <2> QED  BY <1>2, <2>1, <2>2 DEF Linked, Becomes, IsSeq, IsBlock, IsLink
<1>6. InQueues' = InQueues \ {<<q, n>>} /\ <<q, n>> \in InQueues
  <2>0. (\A p : p \in InQueues <=> /\ p = <<p[1], p[2]>>
                                   /\ p[1] \in DOMAIN queues
                                   /\ p[2] \in DOMAIN queues[p[1]])'
    BY PlaceIs, PTL
  <2>1. \A p : p \in InQueues' <=> /\ p = <<p[1], p[2]>>
                                   /\ p[1] \in DOMAIN queues
                                   /\ p[2] \in DOMAIN queues'[p[1]]
    BY <2>0, <1>2
  <2>2. \A p : p \in InQueues' <=> p \in InQueues /\ p # <<q, n>>
    BY <2>1, <1>1, <1>3, <1>4, PlaceIs
  <2> QED  BY <2>2, <1>1, <1>4, PlaceIs
<1>7. HeldBlocks' = HeldBlocks \union {t} /\ t \notin HeldBlocks
  BY DEF HeldBlocks, Becomes, Holding
<1>8. NoneIsLost'
  <2>1. Cardinality(InQueues') = Cardinality(InQueues) - 1
    BY <1>6, CountsAreNatural, FS_RemoveElement DEF AllKept
  <2>2. Cardinality(HeldBlocks') = Cardinality(HeldBlocks) + 1
    BY <1>7, CountsAreNatural, FS_AddElement DEF AllKept
  <2> QED  BY <2>1, <2>2, CountsAreNatural DEF AllKept, NoneIsLost
<1>9. \A i \in InQueues' :
        Old(i) \in InQueues /\ BlockAt(i)' = BlockAt(Old(i)) /\ Old(i) # <<q, 1>>
  <2> SUFFICES ASSUME NEW i \in InQueues'
               PROVE  Old(i) \in InQueues /\ BlockAt(i)' = BlockAt(Old(i)) /\ Old(i) # <<q, 1>>
    OBVIOUS
  <2>1. i \in InQueues /\ i # <<q, n>> /\ i = <<i[1], i[2]>> /\ i[1] \in DOMAIN queues
        /\ i[2] \in DOMAIN queues[i[1]]
    BY <1>6, PlaceIs
  <2>2. CASE i[1] = q
    <3>1. i[2] \in 1 .. (n - 1)
      BY <2>1, <2>2, <1>4
    <3>2. Old(i) = <<q, i[2] + 1>> /\ i[2] + 1 \in 1 .. n /\ i[2] + 1 # 1
      BY <3>1, <2>2, <1>4
    <3>3. Old(i) \in InQueues
      BY <3>2, <1>1, <1>4, PlaceIs
    <3> QED  BY <3>1, <3>2, <3>3, <2>1, <2>2, <1>3, <1>4 DEF BlockAt
  <2>3. CASE i[1] # q
    BY <2>1, <2>3, <1>3 DEF BlockAt
  <2> QED  BY <2>2, <2>3
<1>10. \A i, j \in InQueues' : i # j => Old(i) # Old(j)
  <2> SUFFICES ASSUME NEW i \in InQueues', NEW j \in InQueues', i # j PROVE Old(i) # Old(j)
    OBVIOUS
  <2>1. /\ i = <<i[1], i[2]>> /\ i[1] \in DOMAIN queues /\ i[2] \in DOMAIN queues[i[1]]
        /\ j = <<j[1], j[2]>> /\ j[1] \in DOMAIN queues /\ j[2] \in DOMAIN queues[j[1]]
    BY <1>6, PlaceIs
  <2> QED  BY <2>1, <1>4
<1>11. <<q, 1>> \in InQueues /\ threads'[t].block = BlockAt(<<q, 1>>)
  BY <1>1, <1>4, PlaceIs DEF BlockAt, Becomes
<1>12. \A u \in HeldBlocks' : u # t => u \in HeldBlocks /\ threads'[u] = threads[u]
  BY <1>7, CountsAreNatural DEF Becomes, AllKept
<1>13. NoneIsDoubled'
  <2> HIDE DEF Old
  <2>1. \A i, j \in InQueues' :
          i # j /\ ~IsPoison(BlockAt(i)') => BlockAt(i)'.mem # BlockAt(j)'.mem
    BY <1>9, <1>10 DEF AllKept, NoneIsDoubled
  <2>2. \A i \in InQueues' : \A u \in HeldBlocks' :
          ~IsPoison(BlockAt(i)') => BlockAt(i)'.mem # threads'[u].block.mem
    BY <1>9, <1>11, <1>12 DEF AllKept, NoneIsDoubled
  <2>3. \A s, u \in HeldBlocks' :
          s # u /\ ~IsPoison(threads'[s].block) => threads'[s].block.mem # threads'[u].block.mem
    BY <1>11, <1>12 DEF AllKept, NoneIsDoubled, IsPoison
  <2> QED  BY <2>1, <2>2, <2>3 DEF NoneIsDoubled, IsPoison
<1> QED  BY <1>2, <1>5, <1>8, <1>13 DEF AllKept

LEMMA GiveKeeps ==
  ASSUME AllKept, NEW t \in DOMAIN threads, NEW where, NEW b,
         threads[t].at \in Holding, where \notin Holding,
         IsBlock(b), b.mem = NoMemory \/ b.mem = threads[t].block.mem,
         queues' = Produced(t, b),
         Becomes(t, where)
  PROVE  AllKept' /\ queues' # <<>>
<1> DEFINE q == threads[t].out
           n == Len(queues[q])
<1>1. /\ q \in DOMAIN queues /\ IsSeq(queues) /\ IsSeq(queues[q])
      /\ \A i \in DOMAIN queues[q] : IsBlock(queues[q][i])
      /\ queues' = [queues EXCEPT ![q] = Append(queues[q], b)]
  BY DEF AllKept, Linked, Produced
<1>2. /\ IsSeq(queues') /\ DOMAIN queues' = DOMAIN queues /\ queues' # <<>>
  BY <1>1, ExceptIs
<1>3. /\ queues'[q] = Append(queues[q], b)
      /\ \A p \in DOMAIN queues : p # q => queues'[p] = queues[p]
  BY <1>1
<1>4. /\ IsSeq(queues'[q]) /\ n \in Nat
      /\ DOMAIN queues[q] = 1 .. n /\ DOMAIN queues'[q] = 1 .. (n + 1)
      /\ \A i \in 1 .. n : queues'[q][i] = queues[q][i]
      /\ queues'[q][n + 1] = b
  BY <1>1, <1>3, AppendIs, SeqFacts
<1>5. Linked'
  <2>1. \A p \in DOMAIN queues :
          IsSeq(queues'[p]) /\ \A i \in DOMAIN queues'[p] : IsBlock(queues'[p][i])
    <3> SUFFICES ASSUME NEW p \in DOMAIN queues
                 PROVE  IsSeq(queues'[p]) /\ \A i \in DOMAIN queues'[p] : IsBlock(queues'[p][i])
      OBVIOUS
    <3>1. CASE p = q
      BY <3>1, <1>1, <1>4
    <3>2. CASE p # q
      BY <3>2, <1>3 DEF AllKept, Linked
    <3> QED  BY <3>1, <3>2
  <2>2. \A u \in DOMAIN threads :
          /\ IsLink(threads'[u]) /\ IsBlock(threads'[u].block)
          /\ threads'[u].in \in DOMAIN queues /\ threads'[u].out \in DOMAIN queues
    BY DEF AllKept, Linked, Becomes
  <2> QED  BY <1>2, <2>1, <2>2, ZenonT(40) DEF Linked, Becomes, IsSeq, IsBlock, IsLink
<1>6. InQueues' = InQueues \union {<<q, n + 1>>} /\ <<q, n + 1>> \notin InQueues
  <2>0. (\A p : p \in InQueues <=> /\ p = <<p[1], p[2]>>
                                   /\ p[1] \in DOMAIN queues
                                   /\ p[2] \in DOMAIN queues[p[1]])'
    BY PlaceIs, PTL
  <2>1. \A p : p \in InQueues' <=> p \in InQueues \/ p = <<q, n + 1>>
    BY <2>0, <1>1, <1>2, <1>3, <1>4, PlaceIs
  <2>2. <<q, n + 1>> \notin InQueues
    BY <1>4, PlaceIs
  <2> QED  BY <2>1, <2>2
<1>7. HeldBlocks' = HeldBlocks \ {t} /\ t \in HeldBlocks
  BY DEF HeldBlocks, Becomes, Holding
<1>8. NoneIsLost'
  <2>1. Cardinality(InQueues') = Cardinality(InQueues) + 1
    BY <1>6, CountsAreNatural, FS_AddElement DEF AllKept
  <2>2. Cardinality(HeldBlocks') = Cardinality(HeldBlocks) - 1
    BY <1>7, CountsAreNatural, FS_RemoveElement DEF AllKept
  <2> QED  BY <2>1, <2>2, CountsAreNatural DEF AllKept, NoneIsLost
<1>9. \A i \in InQueues : BlockAt(i)' = BlockAt(i)
  BY <1>3, <1>4, PlaceIs DEF BlockAt
<1>14. PICK p : p = <<q, n + 1>>
  OBVIOUS
<1>10. BlockAt(p)' = b
  BY <1>4, <1>14 DEF BlockAt
<1>11. \A u \in HeldBlocks' : u # t /\ u \in HeldBlocks /\ threads'[u] = threads[u]
  BY <1>7, CountsAreNatural DEF Becomes, AllKept
<1>12. IsPoison(b) \/ b.mem = threads[t].block.mem
  BY DEF IsPoison
<1>13. NoneIsDoubled'
  <2>1. \A i, j \in InQueues' :
          i # j /\ ~IsPoison(BlockAt(i)') => BlockAt(i)'.mem # BlockAt(j)'.mem
    BY <1>6, <1>14, <1>7, <1>9, <1>10, <1>12 DEF AllKept, NoneIsDoubled, IsPoison
  <2>2. \A i \in InQueues' : \A u \in HeldBlocks' :
          ~IsPoison(BlockAt(i)') => BlockAt(i)'.mem # threads'[u].block.mem
    BY <1>6, <1>14, <1>7, <1>9, <1>10, <1>11, <1>12 DEF AllKept, NoneIsDoubled, IsPoison
  <2>3. \A s, u \in HeldBlocks' :
          s # u /\ ~IsPoison(threads'[s].block) => threads'[s].block.mem # threads'[u].block.mem
    BY <1>11 DEF AllKept, NoneIsDoubled
  <2> QED  BY <2>1, <2>2, <2>3 DEF NoneIsDoubled, IsPoison
<1> QED  BY <1>2, <1>5, <1>8, <1>13 DEF AllKept

\* What is as before is not doubled.
LEMMA DoubledStays ==
  ASSUME NoneIsDoubled, InQueues' = InQueues, HeldBlocks' = HeldBlocks,
         \A i \in InQueues : BlockAt(i)' = BlockAt(i),
         \A t \in HeldBlocks : threads'[t].block = threads[t].block
  PROVE  NoneIsDoubled'
<1>1. \A i, j \in InQueues' :
        i # j /\ ~IsPoison(BlockAt(i)') => BlockAt(i)'.mem # BlockAt(j)'.mem
  BY DEF NoneIsDoubled
<1>2. \A i \in InQueues' : \A u \in HeldBlocks' :
        ~IsPoison(BlockAt(i)') => BlockAt(i)'.mem # threads'[u].block.mem
  BY DEF NoneIsDoubled
<1>3. \A s, u \in HeldBlocks' :
        s # u /\ ~IsPoison(threads'[s].block) => threads'[s].block.mem # threads'[u].block.mem
  BY DEF NoneIsDoubled
<1> QED  BY <1>1, <1>2, <1>3 DEF NoneIsDoubled, IsPoison

\* A thread that keeps its block loses none.
LEMMA HoldKeeps ==
  ASSUME AllKept, queues # <<>>, NEW t \in DOMAIN threads, NEW where \in Holding,
         threads[t].at \in Holding, UNCHANGED queues,
         Becomes(t, where), threads'[t].block = threads[t].block
  PROVE  AllKept' /\ queues' # <<>>
<1>1. Linked'
  <2>1. \A u \in DOMAIN threads :
          /\ IsLink(threads'[u]) /\ IsBlock(threads'[u].block)
          /\ threads'[u].in \in DOMAIN queues /\ threads'[u].out \in DOMAIN queues
    BY DEF AllKept, Linked, Becomes
  <2>2. IsSeq(queues) /\ \A q \in DOMAIN queues :
          IsSeq(queues[q]) /\ \A i \in DOMAIN queues[q] : IsBlock(queues[q][i])
    BY DEF AllKept, Linked
  <2>3. IsSeq(threads') /\ DOMAIN threads' = DOMAIN threads
    BY DEF Becomes
  <2> QED  BY <2>1, <2>2, <2>3 DEF Linked
<1>2. InQueues' = InQueues /\ \A i : BlockAt(i)' = BlockAt(i)
  BY DEF InQueues, BlockAt
<1>3. HeldBlocks' = HeldBlocks
  BY DEF HeldBlocks, Becomes, Holding
<1>4. \A u \in HeldBlocks : threads'[u].block = threads[u].block
  BY DEF HeldBlocks, Becomes
<1>5. NoneIsDoubled'
  BY <1>2, <1>3, <1>4, DoubledStays DEF AllKept
<1> QED  BY <1>1, <1>2, <1>3, <1>5 DEF AllKept, NoneIsLost

-----------------------------------------------------------------------------
(* What the workers do *)

\* A thread is at another point, with another block: all that this needs.
LEMMA ChangesOne ==
  ASSUME Linked, NEW t \in DOMAIN threads, NEW new, NEW where,
         threads' = [threads EXCEPT ![t] = new],
         IsLink(new), IsBlock(new.block), new.in = threads[t].in, new.out = threads[t].out,
         new.at = where
  PROVE  Becomes(t, where) /\ threads'[t].block = new.block
<1>1. IsSeq(threads') /\ DOMAIN threads' = DOMAIN threads
  BY ExceptIs DEF Linked
<1> QED  BY <1>1 DEF Becomes

\* What is given away leaves nothing behind.
LEMMA Gives ==
  ASSUME Linked, NEW t \in DOMAIN threads, NEW where, NEW offset, NEW carry,
         threads' = [threads EXCEPT ![t].at = where, ![t].block.mem = NoMemory,
                                    ![t].offset = offset, ![t].carry = carry]
  PROVE  Becomes(t, where)
<1> DEFINE new == [threads[t] EXCEPT !.at = where, !.block.mem = NoMemory, !.offset = offset,
                                     !.carry = carry]
<1>1. IsLink(threads[t]) /\ IsBlock(threads[t].block)
  BY DEF Linked
<1>2. IsLink(new) /\ IsBlock(new.block) /\ new.in = threads[t].in
      /\ new.out = threads[t].out /\ new.at = where
  BY <1>1 DEF IsLink, IsBlock, LinkFields
<1>3. threads' = [threads EXCEPT ![t] = new]
  OBVIOUS
<1> HIDE DEF new
<1> QED  BY <1>2, <1>3, ChangesOne

LEMMA GivesPlain ==
  ASSUME Linked, NEW t \in DOMAIN threads, NEW where,
         threads' = [threads EXCEPT ![t].at = where, ![t].block.mem = NoMemory]
  PROVE  Becomes(t, where)
<1> DEFINE new == [threads[t] EXCEPT !.at = where, !.block.mem = NoMemory]
<1>1. IsLink(threads[t]) /\ IsBlock(threads[t].block)
  BY DEF Linked
<1>2. IsLink(new) /\ IsBlock(new.block) /\ new.in = threads[t].in
      /\ new.out = threads[t].out /\ new.at = where
  BY <1>1 DEF IsLink, IsBlock, LinkFields
<1>3. threads' = [threads EXCEPT ![t] = new]
  OBVIOUS
<1> HIDE DEF new
<1> QED  BY <1>2, <1>3, ChangesOne

LEMMA GivesOn ==
  ASSUME Linked, NEW t \in DOMAIN threads, NEW where, NEW offset,
         threads' = [threads EXCEPT ![t].at = where, ![t].block.mem = NoMemory,
                                    ![t].offset = offset]
  PROVE  Becomes(t, where)
<1> DEFINE new == [threads[t] EXCEPT !.at = where, !.block.mem = NoMemory, !.offset = offset]
<1>1. IsLink(threads[t]) /\ IsBlock(threads[t].block)
  BY DEF Linked
<1>2. IsLink(new) /\ IsBlock(new.block) /\ new.in = threads[t].in
      /\ new.out = threads[t].out /\ new.at = where
  BY <1>1 DEF IsLink, IsBlock, LinkFields
<1>3. threads' = [threads EXCEPT ![t] = new]
  OBVIOUS
<1> HIDE DEF new
<1> QED  BY <1>2, <1>3, ChangesOne

\* The work of a thread keeps the blocks where the chain is built or joined.
LEMMA WorkersKeep ==
  ASSUME AllKept, queues # <<>>, NEW t, ThreadStep(t)
  PROVE  \/ main' = "terminated"
         \/ main' = main /\ AllKept' /\ queues' # <<>>
<1> DEFINE Goal == AllKept' /\ queues' # <<>>
           block == threads[t].block
<1>1. CASE Throw(t)
  BY <1>1 DEF Throw
<1> SUFFICES ASSUME ~Throw(t) PROVE main' = main /\ Goal
  BY <1>1
<1>2. t \in DOMAIN threads
  BY DEF ThreadStep, Consume, PassPoison, ReadBlock, WriteStream, ReadLines, ChangeStream,
         CountRecords, Write, WriteAndRecycle, PWriteAndRecycle, Recycle, Working, Running
<1>3. /\ Linked /\ IsLink(threads[t]) /\ IsBlock(block)
      /\ threads[t].in \in DOMAIN queues /\ IsSeq(queues[threads[t].in])
      /\ \A i \in DOMAIN queues[threads[t].in] : IsBlock(queues[threads[t].in][i])
  BY <1>2 DEF AllKept, Linked
<1>4. /\ \A size : IsBlock(Block(block.mem, size)) /\ Block(block.mem, size).mem = block.mem
      /\ \A size : /\ IsBlock([block EXCEPT !.valid = size])
                   /\ [block EXCEPT !.valid = size].mem = block.mem
      /\ IsBlock([block EXCEPT !.mem = NoMemory]) /\ [block EXCEPT !.mem = NoMemory].mem = NoMemory
  BY <1>3 DEF IsBlock, Block
<1> HIDE DEF Goal
<1>5. ASSUME NEW b, NEW where, IsBlock(b), b.mem = NoMemory \/ b.mem = block.mem,
             where \notin Holding, threads[t].at \in Holding, queues' = Produced(t, b),
             Becomes(t, where)
      PROVE  Goal
  BY <1>2, <1>5, GiveKeeps DEF Goal
<1>6. ASSUME NEW size, NEW next, next \notin Holding, threads[t].at = "work",
             PassOn(t, size, next)
      PROVE  Goal
  <2>1. threads' = [threads EXCEPT ![t].at = next, ![t].block.mem = NoMemory]
    BY <1>6 DEF PassOn
  <2>2. Becomes(t, next)
    BY <2>1, <1>2, <1>3, GivesPlain
  <2>3. queues' = Produced(t, [block EXCEPT !.valid = size])
    BY <1>6 DEF PassOn
  <2> QED  BY <2>2, <2>3, <1>4, <1>5, <1>6 DEF Holding
<1>7. "next" \notin Holding /\ "last" \notin Holding /\ "ended" \notin Holding
      /\ "work" \in Holding /\ "poison" \in Holding
  BY DEF Holding
<1>8. CASE Consume(t)
  <2> DEFINE q == threads[t].in
             where == IF IsPoison(Head(queues[q])) \/ threads[t].at = "last"
                      THEN "poison" ELSE "work"
             new == [threads[t] EXCEPT !.block = Head(queues[q]), !.at = where]
  <2>1. /\ queues[q] # <<>> /\ queues' = [queues EXCEPT ![q] = Tail(@)]
        /\ threads[t].at \in {"enter", "next", "last"} /\ main' = main
    BY <1>8 DEF Consume
  <2>2. threads' = [threads EXCEPT ![t] = new]
    BY <1>8, <1>2, <1>3 DEF Consume, IsLink, LinkFields
  <2>3. IsBlock(Head(queues[q]))
    BY <1>3, <2>1, TailIs, SeqFacts
  <2>4. IsLink(new) /\ new.block = Head(queues[q]) /\ new.in = q
        /\ new.out = threads[t].out /\ new.at = where
    BY <1>3 DEF IsLink, LinkFields
  <2>5. where \in Holding /\ threads[t].at \notin Holding
    BY <2>1 DEF Holding
  <2> HIDE DEF new, where
  <2>6. Becomes(t, where) /\ threads'[t].block = Head(queues[q])
    BY <1>2, <1>3, <2>2, <2>3, <2>4, ChangesOne
  <2> QED  BY <1>2, <2>1, <2>5, <2>6, TakeKeeps DEF Goal
<1>9. CASE PassPoison(t)
  <2>1. /\ queues' = Produced(t, [block EXCEPT !.mem = NoMemory]) /\ threads[t].at = "poison"
        /\ threads' = [threads EXCEPT ![t].at = "ended", ![t].block.mem = NoMemory]
        /\ main' = main
    BY <1>9 DEF PassPoison
  <2>2. Becomes(t, "ended")
    BY <2>1, <1>2, <1>3, GivesPlain
  <2> QED  BY <2>1, <2>2, <1>4, <1>5, <1>7
<1>10. CASE ReadBlock(t)
  <2> DEFINE entries == NextOf(FileOf(t), Offset(t), BlockSize)
  <2>1. threads[t].at = "work" /\ main' = main
    BY <1>10 DEF ReadBlock, Working
  <2>2. CASE entries = <<>>
    <3> DEFINE new == [threads[t] EXCEPT !.at = "poison"]
    <3>1. threads' = [threads EXCEPT ![t] = new] /\ UNCHANGED queues
      BY <1>10, <2>2 DEF ReadBlock
    <3>2. IsLink(new) /\ new.block = block /\ new.in = threads[t].in
          /\ new.out = threads[t].out /\ new.at = "poison"
      BY <1>3 DEF IsLink, LinkFields
    <3> HIDE DEF new
    <3>3. Becomes(t, "poison") /\ threads'[t].block = block
      BY <1>2, <1>3, <3>1, <3>2, ChangesOne
    <3> QED  BY <1>2, <1>7, <2>1, <3>1, <3>3, HoldKeeps DEF Goal
  <2>3. CASE entries # <<>>
    <3>1. /\ queues' = Produced(t, Block(block.mem, Len(entries)))
          /\ threads' = [threads EXCEPT ![t].at = "next", ![t].block.mem = NoMemory,
                                        ![t].offset = threads[t].offset + Len(entries)]
      BY <1>10, <2>3 DEF ReadBlock
    <3> HIDE DEF entries
    <3>2. Becomes(t, "next")
      BY <3>1, <1>2, <1>3, GivesOn
    <3> QED  BY <2>1, <3>1, <3>2, <1>4, <1>5, <1>7
  <2> QED  BY <2>1, <2>2, <2>3
<1>11. CASE WriteStream(t)
  <2> DEFINE entries == NextOf(threads[t].job.entries, Offset(t), block.valid)
             where == IF Len(entries) = block.valid THEN "next" ELSE "last"
  <2>1. /\ threads[t].at = "work" /\ main' = main
        /\ queues' = Produced(t, Block(block.mem, Len(entries)))
        /\ threads' = [threads EXCEPT ![t].at = where, ![t].block.mem = NoMemory,
                                      ![t].offset = threads[t].offset + Len(entries)]
    BY <1>11 DEF WriteStream, Working
  <2>2. where \notin Holding
    BY <1>7
  <2> HIDE DEF entries, where
  <2>3. Becomes(t, where)
    BY <2>1, <1>2, <1>3, GivesOn
  <2> QED  BY <2>1, <2>2, <2>3, <1>4, <1>5, <1>7
<1>12. CASE ReadLines(t)
  <2> DEFINE new  == NextOf(FileOf(t), Offset(t), BlockSize - Len(threads[t].carry))
             text == threads[t].carry \o new
             ends == {n \in DOMAIN text : text[n] = Newline}
  <2>1. threads[t].at = "work" /\ main' = main
    BY <1>12 DEF ReadLines, Working
  <2>2. CASE PassOn(t, Len(text), "last")
    BY <2>1, <2>2, <1>6, <1>7
  <2>3. CASE /\ queues' = Produced(t, Block(block.mem, Max(ends)))
             /\ threads' = [threads EXCEPT ![t].at = "next", ![t].block.mem = NoMemory,
                                           ![t].offset = threads[t].offset + Len(new),
                                           ![t].carry = Carry(text, ends)]
    <3> HIDE DEF new, text, ends
    <3>1. Becomes(t, "next")
      BY <2>3, <1>2, <1>3, Gives
    <3> QED  BY <2>1, <2>3, <3>1, <1>4, <1>5, <1>7
  <2> QED  BY <1>12, <2>1, <2>2, <2>3 DEF ReadLines
<1>13. CASE CountRecords(t)
  <2>1. /\ threads[t].at = "work" /\ main' = main
        /\ queues' = Produced(t, block)
        /\ threads' = [threads EXCEPT ![t].at = "next", ![t].block.mem = NoMemory,
                                      ![t].offset = threads[t].offset + block.valid]
    BY <1>13 DEF CountRecords, Working
  <2>2. Becomes(t, "next")
    BY <2>1, <1>2, <1>3, GivesOn
  <2> QED  BY <2>1, <2>2, <1>3, <1>5, <1>7
<1>14. CASE PWriteAndRecycle(t)
  <2>1. /\ threads[t].at = "work" /\ main' = main
        /\ queues' = Produced(t, Block(block.mem, BlockSize))
        /\ threads' = [threads EXCEPT ![t].at = "next", ![t].block.mem = NoMemory,
                                      ![t].offset = threads[t].offset + block.valid]
    BY <1>14 DEF PWriteAndRecycle, Working
  <2>2. Becomes(t, "next")
    BY <2>1, <1>2, <1>3, GivesOn
  <2> QED  BY <2>1, <2>2, <1>4, <1>5, <1>7
<1>15. CASE ChangeStream(t) \/ Write(t) \/ WriteAndRecycle(t) \/ Recycle(t)
  <2>1. /\ threads[t].at = "work" /\ main' = main
        /\ \E size : PassOn(t, size, "next")
    BY <1>15 DEF ChangeStream, Write, WriteAndRecycle, Recycle, Working
  <2> QED  BY <2>1, <1>6, <1>7
<1> QED  BY <1>8, <1>9, <1>10, <1>11, <1>12, <1>13, <1>14, <1>15 DEF ThreadStep

-----------------------------------------------------------------------------
(* What the owner does *)

LEMMA ThreadIsLink ==
  ASSUME NEW task, NEW in, NEW out
  PROVE  LET th == Thread(task, in, out)
         IN  IsLink(th) /\ IsBlock(th.block) /\ th.in = in /\ th.out = out /\ th.at = "enter"
BY DEF Thread, Block, IsLink, IsBlock, LinkFields

\* One more worker, and a queue for it if it does not close the loop.
LEMMA AddedKeeps ==
  ASSUME AllKept, NEW th, IsLink(th), IsBlock(th.block), th.at \notin Holding,
         th.in \in DOMAIN queues', th.out \in DOMAIN queues',
         threads' = Append(threads, th),
         queues' = queues \/ queues' = Append(queues, <<>>)
  PROVE  AllKept'
<1>1. /\ IsSeq(queues) /\ IsSeq(threads)
      /\ \A q \in DOMAIN queues :
           IsSeq(queues[q]) /\ \A n \in DOMAIN queues[q] : IsBlock(queues[q][n])
      /\ \A t \in DOMAIN threads :
           /\ IsLink(threads[t]) /\ IsBlock(threads[t].block)
           /\ threads[t].in \in DOMAIN queues /\ threads[t].out \in DOMAIN queues
  BY DEF AllKept, Linked
<1>2. /\ IsSeq(queues') /\ DOMAIN queues \subseteq DOMAIN queues'
      /\ \A q \in DOMAIN queues : queues'[q] = queues[q]
      /\ \A q \in DOMAIN queues' \ DOMAIN queues : queues'[q] = <<>>
  <2>1. CASE queues' = queues
    BY <2>1, <1>1
  <2>2. CASE queues' = Append(queues, <<>>)
    BY <2>2, <1>1, AppendIs, SeqFacts
  <2> QED  BY <2>1, <2>2
<1>3. /\ IsSeq(threads') /\ DOMAIN threads' = 1 .. (Len(threads) + 1)
      /\ DOMAIN threads = 1 .. Len(threads) /\ Len(threads) \in Nat
      /\ \A t \in DOMAIN threads : threads'[t] = threads[t]
      /\ threads'[Len(threads) + 1] = th
  BY <1>1, AppendIs, SeqFacts
<1>4. IsSeq(<<>>) /\ DOMAIN <<>> = {}
  BY DEF IsSeq
<1>5. Linked'
  <2>1. \A q \in DOMAIN queues' :
          IsSeq(queues'[q]) /\ \A n \in DOMAIN queues'[q] : IsBlock(queues'[q][n])
    BY <1>1, <1>2, <1>4
  <2>2. \A t \in DOMAIN threads' :
          /\ IsLink(threads'[t]) /\ IsBlock(threads'[t].block)
          /\ threads'[t].in \in DOMAIN queues' /\ threads'[t].out \in DOMAIN queues'
    <3> SUFFICES ASSUME NEW t \in DOMAIN threads'
                 PROVE  /\ IsLink(threads'[t]) /\ IsBlock(threads'[t].block)
                        /\ threads'[t].in \in DOMAIN queues'
                        /\ threads'[t].out \in DOMAIN queues'
      OBVIOUS
    <3>1. CASE t \in DOMAIN threads
      BY <3>1, <1>1, <1>2, <1>3
    <3>2. CASE t = Len(threads) + 1
      BY <3>2, <1>3
    <3> QED  BY <3>1, <3>2, <1>3
  <2> QED  BY <1>2, <1>3, <2>1, <2>2 DEF Linked
<1>6. InQueues' = InQueues /\ \A i \in InQueues : BlockAt(i)' = BlockAt(i)
  <2>0. (\A p : p \in InQueues <=> /\ p = <<p[1], p[2]>>
                                   /\ p[1] \in DOMAIN queues
                                   /\ p[2] \in DOMAIN queues[p[1]])'
    BY PlaceIs, PTL
  <2>1. \A p : p \in InQueues' <=> p \in InQueues
    BY <2>0, <1>2, <1>4, PlaceIs
  <2> QED  BY <2>1, <1>2, PlaceIs DEF BlockAt
<1>7. HeldBlocks' = HeldBlocks /\ \A t \in HeldBlocks : threads'[t] = threads[t]
  BY <1>3 DEF HeldBlocks, Holding
<1>8. \A t \in HeldBlocks : threads'[t].block = threads[t].block
  BY <1>7
<1>9. NoneIsDoubled'
  BY <1>6, <1>7, <1>8, DoubledStays DEF AllKept
<1> QED  BY <1>5, <1>6, <1>7, <1>9 DEF AllKept, NoneIsLost

\* Chain::Start with all the blocks in the first queue.
LEMMA StartedKeeps ==
  ASSUME queues' = Append(<<AllBlocks>>, <<>>), NEW th, IsLink(th), IsBlock(th.block),
         th.at \notin Holding, th.in = 1, th.out = 2, threads' = <<th>>
  PROVE  AllKept'
<1> DEFINE n == Config.blockCount
<1>1. /\ IsSeq(AllBlocks) /\ DOMAIN AllBlocks = 1 .. n /\ n \in Nat
      /\ \A b \in 1 .. n : IsBlock(AllBlocks[b]) /\ AllBlocks[b].mem = b
  <2> DEFINE Each == [mem : Blocks, valid : {BlockSize}]
  <2>0. \A b \in Blocks : Block(b, BlockSize) \in Each
    BY DEF Block
  <2>1. AllBlocks \in Seq(Each)
    <3> HIDE DEF Each
    <3> QED  BY <2>0, ConfigAssumption DEF AllBlocks, Blocks
  <2>2. DOMAIN AllBlocks = 1 .. n
    BY DEF AllBlocks, Blocks
  <2>3. \A b \in 1 .. n : IsBlock(AllBlocks[b]) /\ AllBlocks[b].mem = b
    BY DEF AllBlocks, Blocks, Block, IsBlock
  <2> QED  BY <2>1, <2>2, <2>3, SeqIsSeq, ConfigAssumption
<1>2. /\ IsSeq(queues') /\ DOMAIN queues' = {1, 2}
      /\ queues'[1] = AllBlocks /\ queues'[2] = <<>>
  <2>1. <<AllBlocks>> \in Seq({AllBlocks}) /\ Len(<<AllBlocks>>) = 1
        /\ <<AllBlocks>>[1] = AllBlocks
    OBVIOUS
  <2>2. IsSeq(<<AllBlocks>>)
    BY <2>1, SeqIsSeq
  <2> QED  BY <2>1, <2>2, AppendIs, SeqFacts
<1>3. IsSeq(threads') /\ DOMAIN threads' = {1} /\ threads'[1] = th
  <2>1. threads' \in Seq({th})
    OBVIOUS
  <2>2. IsSeq(threads')
    BY <2>1, SeqIsSeq
  <2> QED  BY <2>2
<1>4. IsSeq(<<>>) /\ DOMAIN <<>> = {}
  BY DEF IsSeq
<1>5. Linked'
  <2>1. \A q \in DOMAIN queues' :
          IsSeq(queues'[q]) /\ \A i \in DOMAIN queues'[q] : IsBlock(queues'[q][i])
    BY <1>1, <1>2, <1>4
  <2> QED  BY <2>1, <1>2, <1>3 DEF Linked
<1>6. InQueues' = {1} \X (1 .. n)
  <2>0. (\A p : p \in InQueues <=> /\ p = <<p[1], p[2]>>
                                   /\ p[1] \in DOMAIN queues
                                   /\ p[2] \in DOMAIN queues[p[1]])'
    BY PlaceIs, PTL
  <2>1. \A p : p \in InQueues' <=> p = <<p[1], p[2]>> /\ p[1] = 1 /\ p[2] \in 1 .. n
    BY <2>0, <1>1, <1>2, <1>4
  <2>2. \A p : p \in {1} \X (1 .. n) <=> p = <<p[1], p[2]>> /\ p[1] = 1 /\ p[2] \in 1 .. n
    OBVIOUS
  <2> QED  BY <2>1, <2>2
<1>7. HeldBlocks' = {}
  BY <1>3 DEF HeldBlocks, Holding
<1>8. NoneIsLost'
  <2>1. IsFiniteSet(1 .. n) /\ Cardinality(1 .. n) = n
    BY <1>1, FS_Interval
  <2>2. Cardinality({1} \X (1 .. n)) = Cardinality({1}) * Cardinality(1 .. n)
    BY <2>1, FS_Singleton, FS_Product
  <2>3. Cardinality({1}) = 1 /\ Cardinality({}) = 0
    BY FS_Singleton, FS_EmptySet
  <2>4. Cardinality(InQueues') = n /\ Cardinality(HeldBlocks') = 0
    BY <1>1, <1>6, <1>7, <2>1, <2>2, <2>3
  <2> QED  BY <1>1, <2>4 DEF NoneIsLost
<1>9. NoneIsDoubled'
  <2>1. \A i, j \in InQueues' :
          i # j /\ ~IsPoison(BlockAt(i)') => BlockAt(i)'.mem # BlockAt(j)'.mem
    BY <1>1, <1>2, <1>6 DEF BlockAt
  <2> QED  BY <1>7, <2>1 DEF NoneIsDoubled, IsPoison
<1> QED  BY <1>5, <1>8, <1>9 DEF AllKept

-----------------------------------------------------------------------------
(* The chain *)

LEMMA ChainInitIsRight == ChainInit => ChainInv
<1> SUFFICES ASSUME ChainInit PROVE ChainInv
  OBVIOUS
<1>1. program \in Programs /\ queues = <<>> /\ threads = <<>> /\ main \in {"refused", "build"}
  BY DEF ChainInit
<1>2. RoundsAreRight
  <2>1. /\ program \in Seq(ToSet(program)) \ {<<>>}
        /\ \A round \in ToSet(program) : Len(round) > 0 /\ round[1].kind \notin Sinks
    <3>1. /\ program \in Seq(ToSet(program)) \ {<<>>}
          /\ \A round \in ToSet(program) :
               /\ IsSeq(round) /\ round # <<>>
               /\ \A n \in DOMAIN round : round[n].kind \in Sources <=> n = 1
      BY <1>1, ProgramsAssumption DEF IsSeq
    <3>2. ASSUME NEW round \in ToSet(program)
          PROVE  Len(round) > 0 /\ round[1].kind \notin Sinks
      <4>1. Len(round) > 0 /\ 1 \in DOMAIN round
        BY <3>1, SeqFacts
      <4>2. round[1].kind \in Sources
        BY <3>1, <4>1
      <4> QED  BY <4>1, <4>2 DEF Sources, Sinks
    <3> QED  BY <3>1, <3>2
  <2>2. \A n \in DOMAIN program : program[n] \in ToSet(program)
    BY DEF ToSet
  <2> QED  BY <2>1, <2>2 DEF RoundsAreRight, IsSeq
<1>3. IsSeq(<<>>) /\ DOMAIN <<>> = {}
  BY DEF IsSeq
<1>4. Linked
  BY <1>1, <1>3 DEF Linked
<1> QED  BY <1>1, <1>2, <1>4 DEF ChainInv

LEMMA OwnerKeeps ==
  ASSUME ChainInv, OwnerStep
  PROVE  ChainInv'
<1>1. RoundsAreRight /\ IsSeq(program)
  BY DEF ChainInv, RoundsAreRight
<1>2. ASSUME UNCHANGED program, main \in {"build", "join", "drain"}
      PROVE  RoundsAreRight'
  BY <1>1, <1>2 DEF RoundsAreRight, IsSeq
<1>3. ASSUME main = "build"
      PROVE  /\ Len(Round) > 0 /\ Round[1].kind \notin Sinks /\ Linked
             /\ queues = <<>> => threads = <<>> /\ Len(threads) = 0
             /\ queues # <<>> => AllKept
             /\ Len(threads) \in Nat /\ Len(queues) \in Nat
             /\ DOMAIN queues = 1 .. Len(queues)
             /\ queues # <<>> => Len(queues) > 0
  <2>1. program # <<>> /\ Linked /\ (queues = <<>> => threads = <<>>)
        /\ (queues # <<>> => AllKept)
    BY <1>3 DEF ChainInv, RoundsAreRight, AllKept
  <2>2. Len(program) > 0 /\ 1 \in DOMAIN program /\ Round = program[1]
    BY <1>1, <2>1, SeqFacts, TailIs DEF Round
  <2>3. Len(Round) > 0 /\ Round[1].kind \notin Sinks
    BY <1>1, <2>2 DEF RoundsAreRight
  <2>4. IsSeq(queues) /\ IsSeq(threads)
    BY <2>1 DEF Linked
  <2> QED  BY <2>1, <2>3, <2>4, SeqFacts
<1>4. ASSUME NEW task, NEW out, main = "build", queues # <<>>, out \in DOMAIN queues',
             Len(queues) \in DOMAIN queues',
             threads' = Append(threads, Thread(task, Len(queues), out)),
             queues' = queues \/ queues' = Append(queues, <<>>)
      PROVE  AllKept'
  <2> DEFINE th == Thread(task, Len(queues), out)
  <2>1. IsLink(th) /\ IsBlock(th.block) /\ th.in = Len(queues) /\ th.out = out
        /\ th.at \notin Holding
    BY ThreadIsLink DEF Holding
  <2> HIDE DEF th
  <2> QED  BY <2>1, <1>3, <1>4, AddedKeeps DEF th
<1>5. CASE AddWorker
  <2>1. PICK task :
          /\ main = "build" /\ UNCHANGED <<program, main>>
          /\ queues' = Append(Started, <<>>)
          /\ threads' = Append(threads, Thread(task, Len(Started), Len(Started) + 1))
    BY <1>5 DEF AddWorker
  <2>2. AllKept' /\ queues' # <<>>
    <3>1. CASE queues = <<>>
      <4> DEFINE th == Thread(task, 1, 2)
      <4>1. Started = <<AllBlocks>> /\ queues' = Append(<<AllBlocks>>, <<>>)
        BY <3>1, <2>1 DEF Started
      <4>2. threads' = <<th>>
        BY <3>1, <4>1, <2>1, <1>3
      <4>3. IsLink(th) /\ IsBlock(th.block) /\ th.in = 1 /\ th.out = 2 /\ th.at \notin Holding
        BY ThreadIsLink DEF Holding
      <4> HIDE DEF th
      <4> QED  BY <4>1, <4>2, <4>3, StartedKeeps
    <3>2. CASE queues # <<>>
      <4>1. Started = queues /\ queues' = Append(queues, <<>>) /\ Linked
        BY <3>2, <2>1, <1>3 DEF Started
      <4>2. DOMAIN queues' = 1 .. (Len(queues) + 1) /\ queues' # <<>>
        BY <4>1, AppendIs, SeqFacts DEF Linked
      <4>3. Len(queues) + 1 \in DOMAIN queues' /\ Len(queues) \in DOMAIN queues'
        BY <3>2, <4>2, <2>1, <1>3
      <4> QED  BY <3>2, <4>1, <4>2, <4>3, <2>1, <1>4
    <3> QED  BY <3>1, <3>2
  <2> QED  BY <2>1, <2>2, <1>2 DEF ChainInv, AllKept
<1>6. ASSUME NEW task, main = "build", queues # <<>>, UNCHANGED queues,
             threads' = Append(threads, Thread(task, Len(queues), 1))
      PROVE  AllKept'
  <2>1. 1 \in DOMAIN queues' /\ Len(queues) \in DOMAIN queues'
    BY <1>6, <1>3
  <2> QED  BY <2>1, <1>4, <1>6
<1>7. CASE AddSink
  <2>1. PICK task :
          /\ main = "build" /\ UNCHANGED <<program, queues, main>>
          /\ task = Round[Len(threads) + 1] /\ task.kind \in Sinks
          /\ threads' = Append(threads, Thread(task, Len(queues), 1))
    BY <1>7 DEF AddSink
  <2>2. queues # <<>>
    BY <2>1, <1>3
  <2>3. AllKept'
    BY <2>1, <2>2, <1>6
  <2> QED  BY <2>1, <2>2, <2>3, <1>2 DEF ChainInv, AllKept
<1>8. CASE CompleteLoop
  <2>1. /\ main = "build" /\ main' = "join" /\ UNCHANGED <<program, queues>>
        /\ Len(threads) = Len(Round)
        /\ threads' = Append(threads, Thread([kind |-> "Recycler"], Len(queues), 1))
    BY <1>8 DEF CompleteLoop
  <2>2. queues # <<>>
    BY <2>1, <1>3
  <2>3. AllKept'
    BY <2>1, <2>2, <1>6
  <2> QED  BY <2>1, <2>2, <2>3, <1>2 DEF ChainInv, AllKept
<1>9. CASE StartWait
  <2>1. /\ main = "build" /\ main' = "join" /\ UNCHANGED <<program, queues, threads>>
        /\ Len(threads) = Len(Round)
    BY <1>9 DEF StartWait
  <2>2. queues # <<>> /\ AllKept
    BY <2>1, <1>3
  <2>3. AllKept'
    BY <2>1, <2>2 DEF AllKept, Linked, NoneIsLost, NoneIsDoubled, InQueues, HeldBlocks, BlockAt
  <2> QED  BY <2>1, <2>2, <2>3, <1>2 DEF ChainInv, AllKept
<1>10. CASE Join
  <2>1. /\ main = "join" /\ main' = "drain" /\ drained' = 0
        /\ \A t \in DOMAIN threads : threads[t].at = "ended"
        /\ UNCHANGED <<program, queues, threads>>
    BY <1>10 DEF Join
  <2>2. queues # <<>> /\ Linked /\ NoneIsLost
    BY <2>1 DEF ChainInv
  <2>3. HeldBlocks = {}
    BY <2>1 DEF HeldBlocks
  <2>4. Cardinality(InQueues) = Config.blockCount
    BY <2>2, <2>3, CountsAreNatural, FS_EmptySet DEF NoneIsLost
  <2>5. 1 \in DOMAIN queues
    BY <2>2, SeqFacts DEF Linked
  <2>6. Len(queues[1]) \in Nat /\ Len(queues[1]) <= Config.blockCount
    BY <2>2, <2>4, <2>5, QueueIsPart
  <2>7. Draining'
    BY <2>1, <2>2, <2>6 DEF Draining
  <2>8. Linked'
    BY <2>1, <2>2 DEF Linked
  <2> QED  BY <2>1, <2>7, <2>8, <1>2 DEF ChainInv
<1>11. CASE Drain
  <2>1. /\ main = "drain" /\ Head(queues) # <<>>
        /\ queues' = [queues EXCEPT ![1] = Tail(@)] /\ drained' = drained + 1
        /\ \/ main' = "clear"
           \/ main' = "abort" /\ drained = Config.blockCount
           \/ main' = main
        /\ UNCHANGED <<program, threads>>
    BY <1>11 DEF Drain
  <2>2. Draining /\ Linked /\ IsSeq(queues) /\ IsSeq(threads)
    BY <2>1 DEF ChainInv, Linked
  <2>3. 1 \in DOMAIN queues /\ Head(queues) = queues[1] /\ IsSeq(queues[1])
        /\ \A n \in DOMAIN queues[1] : IsBlock(queues[1][n])
    BY <2>2, SeqFacts, TailIs DEF Linked, Draining
  <2>4. /\ IsSeq(queues') /\ DOMAIN queues' = DOMAIN queues /\ queues' # <<>>
        /\ queues'[1] = Tail(queues[1])
        /\ \A q \in DOMAIN queues : q # 1 => queues'[q] = queues[q]
    BY <2>1, <2>2, <2>3, ExceptIs
  <2>5. /\ IsSeq(queues'[1]) /\ Len(queues'[1]) = Len(queues[1]) - 1
        /\ \A n \in DOMAIN queues'[1] : IsBlock(queues'[1][n])
        /\ Len(queues[1]) > 0 /\ Len(queues[1]) \in Nat
    BY <2>1, <2>3, <2>4, TailIs, SeqFacts
  <2>6. main' # "abort"
    BY <2>1, <2>2, <2>5, ConfigAssumption DEF Draining
  <2>7. Draining'
    BY <2>1, <2>2, <2>4, <2>5 DEF Draining
  <2>8. \A q \in DOMAIN queues' :
          IsSeq(queues'[q]) /\ \A n \in DOMAIN queues'[q] : IsBlock(queues'[q][n])
    BY <2>2, <2>4, <2>5 DEF Linked
  <2>9. Linked'
    BY <2>1, <2>2, <2>4, <2>8 DEF Linked
  <2> QED  BY <2>1, <2>6, <2>7, <2>9, <1>2 DEF ChainInv
<1>12. CASE Clear
  <2>1. /\ main = "clear" /\ queues' = <<>> /\ threads' = <<>> /\ program' = Tail(program)
        /\ main' = IF Tail(program) = <<>> THEN "done" ELSE "build"
    BY <1>12 DEF Clear
  <2>2. IsSeq(<<>>) /\ DOMAIN <<>> = {}
    BY DEF IsSeq
  <2>3. Linked'
    BY <2>1, <2>2 DEF Linked
  <2>4. RoundsAreRight'
    <3>1. program # <<>>
      BY <2>1, <1>1 DEF RoundsAreRight
    <3>2. /\ IsSeq(program') /\ DOMAIN program' = 1 .. (Len(program) - 1)
          /\ \A n \in DOMAIN program' : program'[n] = program[n + 1]
          /\ DOMAIN program = 1 .. Len(program) /\ Len(program) \in Nat
      BY <3>1, <2>1, <1>1, TailIs, SeqFacts
    <3>3. \A n \in DOMAIN program' : n + 1 \in DOMAIN program
      BY <3>2
    <3> QED  BY <2>1, <1>1, <3>2, <3>3 DEF RoundsAreRight
  <2> QED  BY <2>1, <2>3, <2>4 DEF ChainInv
<1> QED  BY <1>5, <1>7, <1>8, <1>9, <1>10, <1>11, <1>12 DEF OwnerStep

LEMMA ChainNextKeeps ==
  ASSUME ChainInv, [ChainNext]_chainVars
  PROVE  ChainInv'
<1>1. CASE OwnerStep
  BY <1>1, OwnerKeeps
<1>2. ASSUME NEW t, ThreadStep(t)
      PROVE  ChainInv'
  <2>1. /\ UNCHANGED program
        /\ main' \in {main, "terminated"} /\ t \in DOMAIN threads /\ main # "abort"
        /\ threads[t].at # "ended"
    BY <1>2 DEF ThreadStep, Consume, PassPoison, Throw, ReadBlock, WriteStream, ReadLines,
         ChangeStream, CountRecords, Write, WriteAndRecycle, PWriteAndRecycle, Recycle,
         Working, Running, SizeIsWrong
  <2>2. RoundsAreRight'
    BY <2>1 DEF ChainInv, RoundsAreRight, IsSeq
  <2>3. CASE main' = "terminated"
    BY <2>2, <2>3 DEF ChainInv
  <2>4. CASE main \in {"build", "join"}
    <3>1. AllKept /\ queues # <<>>
      BY <2>1, <2>4 DEF ChainInv, AllKept
    <3>2. \/ main' = "terminated"
          \/ main' = main /\ AllKept' /\ queues' # <<>>
      BY <3>1, <1>2, WorkersKeep
    <3> QED  BY <2>2, <2>4, <3>2 DEF ChainInv, AllKept
  <2>5. CASE main = "drain"
    BY <2>1, <2>5 DEF ChainInv, Draining
  <2>6. CASE main \notin {"build", "join", "drain"}
    BY <2>1, <2>2, <2>6 DEF ChainInv
  <2> QED  BY <2>4, <2>5, <2>6
<1>3. CASE UNCHANGED chainVars
  BY <1>3 DEF chainVars, ChainInv, RoundsAreRight, Linked, NoneIsLost, NoneIsDoubled, Draining,
       InQueues, HeldBlocks, BlockAt
<1> QED  BY <1>1, <1>2, <1>3 DEF ChainNext

LEMMA ChainInvIsRight == ChainInv => BlocksAreKept
<1> SUFFICES ASSUME ChainInv, main \in {"build", "join"}, queues # <<>>
             PROVE  \A t \in HeldBlocks : CanProduce(t)
  BY DEF ChainInv, BlocksAreKept, NoneIsLost, NoneIsDoubled
<1> SUFFICES ASSUME NEW t \in HeldBlocks
             PROVE  CanProduce(t)
  OBVIOUS
<1>1. Linked /\ NoneIsLost
  BY DEF ChainInv
<1>2. t \in DOMAIN threads /\ threads[t].out \in DOMAIN queues
  BY <1>1 DEF Linked, HeldBlocks
<1>3. Cardinality(HeldBlocks) > 0
  BY <1>1, CountsAreNatural, FS_EmptySet
<1>4. Len(queues[threads[t].out]) \in Nat
      /\ Len(queues[threads[t].out]) <= Cardinality(InQueues)
  BY <1>1, <1>2, QueueIsPart
<1> QED  BY <1>1, <1>3, <1>4, CountsAreNatural, ConfigAssumption DEF NoneIsLost, CanProduce

(***************************************************************************)
(* In every chain, of any programs, files and numbers of blocks, at any    *)
(* speed of its threads: no block is lost or in two places, no Produce has *)
(* to wait, and Wait never finds more than there were (chain.cc:65-160).   *)
(***************************************************************************)
THEOREM BlocksAlwaysKept == ChainSpec => []BlocksAreKept
<1>1. ChainInit => ChainInv
  BY ChainInitIsRight
<1>2. ChainInv /\ [ChainNext]_chainVars => ChainInv'
  BY ChainNextKeeps
<1>3. ChainInv => BlocksAreKept
  BY ChainInvIsRight
<1> QED  BY <1>1, <1>2, <1>3, PTL DEF ChainSpec

-----------------------------------------------------------------------------
(***************************************************************************)
(* What a chain delivers.  The entries that come out of its first worker   *)
(* are a stream; each of the others takes the stream from its queue, block *)
(* by block, and passes it on, some with every entry changed.              *)
(***************************************************************************)

\* What ProgramsAssumption and FilesAssumption say of the rounds still to do.
RoundIsRight(round) ==
  /\ IsSeq(round) /\ round # <<>>
  /\ \A n \in DOMAIN round :
       /\ round[n].kind \in Sources <=> n = 1
       /\ round[n].kind \in Sinks => n = Len(round)
       /\ round[n].kind = "Stream" => round[n].entries \in Seq(Int)
       /\ HasFile(round[n]) =>
            /\ round[n].file \in DOMAIN Files
            /\ \A m \in DOMAIN round :
                 m # n /\ HasFile(round[m]) => round[m].file # round[n].file

ProgramIsRight(p) ==
  /\ IsSeq(p)
  /\ \A i \in DOMAIN p : RoundIsRight(p[i])
  /\ \A i \in DOMAIN p : \A j \in 1 .. (i - 1) : \A n \in DOMAIN p[i] : \A m \in DOMAIN p[j] :
       p[i][n].kind \in Appenders /\ p[j][m].kind \in Writers => p[j][m].file # p[i][n].file

FilesAre == DOMAIN file = DOMAIN Files /\ \A f \in DOMAIN Files : file[f] \in Seq(Int)

MemoryIs ==
  /\ DOMAIN memory = Blocks
  /\ \A b \in Blocks : memory[b] \in Seq(Int) /\ Len(memory[b]) = BlockSize

\* Files that are to be written from their start on are empty until then.
NotYetWritten ==
  \A i \in DOMAIN program : \A n \in DOMAIN program[i] :
    program[i][n].kind \in Appenders /\ (i > 1 \/ n > Len(threads))
      => file[program[i][n].file] = <<>>

JobAt(t) == IF t <= Len(Round) THEN Round[t] ELSE [kind |-> "Recycler"]

\* Threads lie along the queues in the order of their jobs.
InLine ==
  /\ Len(threads) <= Len(Round) + 1
  /\ main = "build" => Len(threads) <= Len(Round)
  /\ main = "join" => complete
  /\ complete <=> threads # <<>> /\ JobAt(Len(threads)).kind \in Sinks
  /\ Len(threads) = Len(Round) + 1 => JobAt(Len(Round)).kind \notin Sinks
  /\ queues # <<>> => threads # <<>>
                      /\ Len(queues) = IF complete THEN Len(threads) ELSE Len(threads) + 1
  /\ \A t \in DOMAIN threads :
       /\ threads[t].job = JobAt(t)
       /\ threads[t].in = t
       /\ threads[t].out = IF JobAt(t).kind \in Sinks THEN 1 ELSE t + 1

HasEnded(t) == threads[t].at = "ended"

\* A thread that is done leaves nothing behind it; poison comes after all else.
PoisonIsLast ==
  /\ \A t \in DOMAIN threads :
       /\ threads[t].at \in {"enter", "next", "last", "work", "poison", "ended"}
       /\ threads[t].at = "last" => t = 1
       /\ t # 1 /\ threads[t].at \in {"poison", "ended"} =>
            queues[t] = <<>> /\ \A s \in 1 .. (t - 1) : HasEnded(s)
  /\ \A q \in DOMAIN queues : \A i \in DOMAIN queues[q] :
       IsPoison(queues[q][i]) =>
         IF q = 1 THEN complete /\ \A s \in DOMAIN threads : HasEnded(s)
                  ELSE i = Len(queues[q]) /\ \A s \in 1 .. (q - 1) : HasEnded(s)

-----------------------------------------------------------------------------
\* The stream, and what the first n workers add to each of its entries.
Entries == SourceOf(Round[1])

Added(n) == Cardinality({m \in 1 .. n : Round[m].kind = "Change"})

StreamAfter(n) == [e \in 1 .. Len(Entries) |-> Entries[e] + Added(n)]

\* Block b has the entries of a stream after place from.
Carries(mem, stream, b, from) ==
  /\ b.mem \in Blocks
  /\ b.valid \in Nat /\ b.valid <= BlockSize
  /\ from + b.valid <= Len(stream)
  /\ \A e \in 1 .. b.valid : mem[b.mem][e] = stream[from + e]

\* A file begins with the first n entries of a stream.
Begins(content, stream, n) ==
  n <= Len(content) /\ \A e \in 1 .. n : content[e] = stream[e]

SizeOf(b) == IF IsPoison(b) THEN 0 ELSE b.valid

HeldBy(t) == IF threads[t].at = "work" THEN threads[t].block.valid ELSE 0

\* Blocks go round empty from the last worker to the first.
FirstQueue ==
  \A i \in DOMAIN queues[1] : ~IsPoison(queues[1][i]) =>
    queues[1][i].mem \in Blocks /\ queues[1][i].valid = BlockSize

\* Where the next block of queue q begins.
NextIn(passed, pos, q) == IF queues[q] = <<>> THEN passed[q - 1] ELSE pos[q][1]

\* The blocks of queue q have what worker q - 1 has passed and worker q has not
\* taken, without a gap: passed counts the entries, pos is where each block begins.
QueueFlows(passed, pos, q) ==
  /\ pos[q] \in Seq(Nat) /\ Len(pos[q]) = Len(queues[q])
  /\ \A i \in DOMAIN queues[q] :
       /\ ~IsPoison(queues[q][i]) => Carries(memory, StreamAfter(q - 1), queues[q][i], pos[q][i])
       /\ pos[q][i] + SizeOf(queues[q][i])
            = IF i = Len(queues[q]) THEN passed[q - 1] ELSE pos[q][i + 1]
  /\ NextIn(passed, pos, q) = IF q \in DOMAIN threads THEN passed[q] + HeldBy(q) ELSE 0

\* Worker t has the next block of the stream, and when it is done has had all.
HeldFlows(passed, t) ==
  /\ threads[t].at = "work" =>
       /\ ~IsPoison(threads[t].block)
       /\ Carries(memory, StreamAfter(t - 1), threads[t].block, passed[t])
  /\ threads[t].at \in {"poison", "ended"} => passed[t] = Len(Entries)

\* What the first worker has read and not passed is what it carries.
SourceFlows(passed) ==
  /\ threads[1].at = "work" =>
       threads[1].block.mem \in Blocks /\ threads[1].block.valid = BlockSize
  /\ IF threads[1].at \in {"last", "poison", "ended"} THEN passed[1] = Len(Entries)
     ELSE /\ threads[1].carry \in Seq(Int) /\ threads[1].offset \in Nat
          /\ passed[1] + Len(threads[1].carry) = threads[1].offset
          /\ threads[1].offset <= Len(Entries)
          /\ Len(threads[1].carry) < BlockSize
          /\ \A e \in 1 .. Len(threads[1].carry) :
               threads[1].carry[e] = Entries[passed[1] + e]
          /\ threads[1].job.kind # "LineInput" => threads[1].carry = <<>>

\* What worker t has passed, it has written and counted.
Noted(passed, t) ==
  /\ JobAt(t).kind \in Writers => Begins(file[JobAt(t).file], StreamAfter(t), passed[t])
  /\ JobAt(t).kind \in Appenders => Len(file[JobAt(t).file]) = passed[t]
  /\ JobAt(t).kind \in {"PWriteAndRecycle", "CountRecords"} => threads[t].offset = passed[t]
  /\ JobAt(t).kind = "PWriteAndRecycle" /\ HasEnded(t) =>
       Len(file[JobAt(t).file]) = passed[t]

Flows(passed, pos) ==
  /\ passed \in [DOMAIN threads -> Nat] /\ DOMAIN pos = DOMAIN queues
  /\ threads # <<>> => FirstQueue /\ SourceFlows(passed)
  /\ \A t \in DOMAIN threads : t # 1 => HeldFlows(passed, t)
  /\ \A t \in DOMAIN threads : Noted(passed, t)
  /\ \A q \in DOMAIN queues : q # 1 => QueueFlows(passed, pos, q)

Delivered ==
  \A n \in DOMAIN Round :
    /\ Round[n].kind \in Writers => file[Round[n].file] = Expected(Round, n)
    /\ Round[n].kind = "CountRecords" => threads[n].offset = Len(Expected(Round, n))

\* What holds while the threads of a chain are at work.
Busy ==
  /\ AllKept /\ queues # <<>>
  /\ program # <<>> /\ ProgramIsRight(program)
  /\ FilesAre /\ MemoryIs /\ NotYetWritten
  /\ ~BadConfig /\ InLine /\ PoisonIsLast

\* The stream flows through a chain at work.
Flowing == Busy /\ \E passed, pos : Flows(passed, pos)

\* What holds from the first chain to the last.
Ready ==
  /\ program # <<>> /\ ProgramIsRight(program)
  /\ FilesAre /\ MemoryIs /\ NotYetWritten
  /\ ~BadConfig

DeliversInv ==
  /\ ChainInv
  /\ main \in {"build", "join", "drain", "clear"} => Ready
  /\ main \in {"build", "join"} /\ queues # <<>> => Flowing
  /\ main = "build" /\ queues = <<>> => ~complete
  /\ main \in {"drain", "clear"} =>
       /\ Delivered /\ Len(threads) >= Len(Round)
       /\ \A t \in DOMAIN threads : HasEnded(t)

\* Thread t changes, and no other does.
Steps(t) ==
  /\ Becomes(t, threads'[t].at) /\ threads'[t].job = threads[t].job
  /\ IsSeq(queues') /\ DOMAIN queues' = DOMAIN queues
  /\ UNCHANGED <<program, complete, main>>

-----------------------------------------------------------------------------
(* Rounds, the stream, and blocks of memory *)

LEMMA RoundIs ==
  ASSUME ProgramIsRight(program), program # <<>>
  PROVE  /\ RoundIsRight(Round) /\ Round = program[1] /\ 1 \in DOMAIN program
         /\ Len(Round) \in Nat /\ Len(Round) > 0 /\ DOMAIN Round = 1 .. Len(Round)
         /\ Round[1].kind \in Sources
<1>1. IsSeq(program) /\ 1 \in DOMAIN program /\ Round = program[1]
  BY SeqFacts, TailIs DEF ProgramIsRight, Round
<1>2. RoundIsRight(Round)
  BY <1>1 DEF ProgramIsRight
<1>3. IsSeq(Round) /\ Round # <<>>
  BY <1>2 DEF RoundIsRight
<1>4. Len(Round) \in Nat /\ Len(Round) > 0 /\ DOMAIN Round = 1 .. Len(Round)
  BY <1>3, SeqFacts
<1>5. 1 \in DOMAIN Round
  BY <1>4
<1> QED  BY <1>1, <1>2, <1>4, <1>5 DEF RoundIsRight

LEMMA AddedIs ==
  ASSUME RoundIsRight(Round), NEW n \in DOMAIN Round
  PROVE  /\ Added(n) \in Nat
         /\ Added(n) = IF n = 1 THEN 0
                       ELSE Added(n - 1) + (IF Round[n].kind = "Change" THEN 1 ELSE 0)
<1> DEFINE of(top) == {m \in 1 .. top : Round[m].kind = "Change"}
<1>1. n \in Nat /\ n > 0 /\ n \in 1 .. Len(Round) /\ Len(Round) \in Nat
  BY SeqFacts DEF RoundIsRight
<1>2. \A top \in Nat : IsFiniteSet(of(top))
  <2> SUFFICES ASSUME NEW top \in Nat PROVE IsFiniteSet(of(top))
    OBVIOUS
  <2>1. IsFiniteSet(1 .. top)
    BY FS_Interval
  <2> QED  BY <2>1, FS_Subset
<1>3. Added(n) \in Nat
  BY <1>1, <1>2, FS_CardinalityType DEF Added
<1>4. CASE n = 1
  <2>1. Round[1].kind # "Change"
    BY <1>4 DEF RoundIsRight, Sources
  <2>2. of(1) = {}
    BY <2>1
  <2> QED  BY <1>3, <1>4, <2>2, FS_EmptySet DEF Added
<1>5. CASE n # 1
  <2>1. n - 1 \in Nat /\ IsFiniteSet(of(n - 1)) /\ n \notin of(n - 1)
    BY <1>1, <1>2, <1>5
  <2>2. of(n) = IF Round[n].kind = "Change" THEN of(n - 1) \union {n} ELSE of(n - 1)
    BY <1>1, <1>5
  <2>3. Cardinality(of(n - 1) \union {n}) = Cardinality(of(n - 1)) + 1
    BY <2>1, FS_AddElement
  <2>4. Cardinality(of(n - 1)) \in Nat
    BY <2>1, FS_CardinalityType
  <2> HIDE DEF of
  <2>5. Added(n) = Cardinality(of(n)) /\ Added(n - 1) = Cardinality(of(n - 1))
    BY DEF Added, of
  <2> QED  BY <1>3, <1>5, <2>2, <2>3, <2>4, <2>5
<1> QED  BY <1>3, <1>4, <1>5

LEMMA ChangesAre ==
  ASSUME RoundIsRight(Round), NEW n \in DOMAIN Round
  PROVE  Changes(SubSeq(Round, 1, n)) = Added(n)
<1>1. IsSeq(Round) /\ n \in 1 .. Len(Round) /\ Len(Round) \in Nat
  BY SeqFacts DEF RoundIsRight
<1>2. Round \in Seq(ToSet(Round))
  BY <1>1 DEF IsSeq
<1>3. DOMAIN SubSeq(Round, 1, n) = 1 .. n /\ \A m \in 1 .. n : SubSeq(Round, 1, n)[m] = Round[m]
  BY <1>1, <1>2
<1>4. {m \in DOMAIN SubSeq(Round, 1, n) : SubSeq(Round, 1, n)[m].kind = "Change"}
        = {m \in 1 .. n : Round[m].kind = "Change"}
  BY <1>3
<1> QED  BY <1>4 DEF Changes, Added

LEMMA EntriesAre ==
  ASSUME ProgramIsRight(program), program # <<>>, FilesAre
  PROVE  Entries \in Seq(Int) /\ Len(Entries) \in Nat
<1>1. RoundIsRight(Round) /\ 1 \in DOMAIN Round /\ Round[1].kind \in Sources
  BY RoundIs
<1>2. CASE Round[1].kind = "Stream"
  BY <1>1, <1>2 DEF RoundIsRight, Entries, SourceOf
<1>3. CASE Round[1].kind # "Stream"
  <2>1. HasFile(Round[1])
    BY <1>1, <1>3 DEF HasFile, Sources
  <2> QED  BY <1>1, <1>3, <2>1 DEF RoundIsRight, Entries, SourceOf, FilesAre
<1> QED  BY <1>2, <1>3

LEMMA BlockSizeIs ==
  ASSUME ~BadConfig
  PROVE  BlockSize \in Nat /\ BlockSize > 0
<1> DEFINE product == Config.blockCount * Config.entrySize
<1>1. /\ Config.blockCount \in Nat /\ Config.entrySize \in Nat /\ Config.totalMemory \in Nat
      /\ Config.blockCount # 0 /\ Config.entrySize # 0
      /\ Config.totalMemory >= Config.entrySize * Config.blockCount
  BY ConfigAssumption DEF BadConfig
<1>2. product \in Nat /\ product > 0 /\ Config.totalMemory >= product
  BY <1>1
<1>3. ASSUME NEW a \in Nat, NEW b \in Nat, b > 0, a >= b
      PROVE  a \div b \in Nat /\ a \div b > 0
  BY <1>3
<1> HIDE DEF product
<1>4. Config.totalMemory \div product \in Nat /\ Config.totalMemory \div product > 0
  BY <1>1, <1>2, <1>3
<1> QED  BY <1>4 DEF BlockSize, product

\* Entries put at the start of a block.
LEMMA PutIs ==
  ASSUME MemoryIs, BlockSize \in Nat, NEW b \in Blocks, NEW es \in Seq(Int),
         Len(es) <= BlockSize,
         memory' = [memory EXCEPT ![b] = es \o SubSeq(@, Len(es) + 1, BlockSize)]
  PROVE  /\ MemoryIs'
         /\ \A e \in 1 .. Len(es) : memory'[b][e] = es[e]
         /\ \A c \in Blocks : c # b => memory'[c] = memory[c]
<1> DEFINE old == memory[b]
           rest == SubSeq(old, Len(es) + 1, BlockSize)
<1>1. old \in Seq(Int) /\ Len(old) = BlockSize
  BY DEF MemoryIs
<1>2. rest \in Seq(Int) /\ Len(rest) = BlockSize - Len(es)
  <2>1. \A i \in Len(es) + 1 .. BlockSize : old[i] \in Int
    BY <1>1
  <2> HIDE DEF old
  <2>2. Len(es) \in Nat
    OBVIOUS
  <2> QED  BY <2>1, <2>2, SubSeqProperties
<1>3. memory'[b] = es \o rest /\ DOMAIN memory' = Blocks
      /\ \A c \in Blocks : c # b => memory'[c] = memory[c]
  BY DEF MemoryIs
<1> HIDE DEF rest
<1>4. /\ es \o rest \in Seq(Int) /\ Len(es \o rest) = BlockSize
      /\ \A e \in 1 .. Len(es) : (es \o rest)[e] = es[e]
  BY <1>2
<1>5. Blocks' = Blocks /\ BlockSize' = BlockSize
  BY DEF Blocks, BlockSize
<1> QED  BY <1>3, <1>4, <1>5 DEF MemoryIs

\* The next entries of a sequence.
LEMMA NextAre ==
  ASSUME NEW es \in Seq(Int), NEW off \in Nat, NEW room \in Nat, off <= Len(es),
         NEW new, new = NextOf(es, off, room)
  PROVE  /\ new \in Seq(Int) /\ Len(new) \in Nat /\ Len(new) <= room
         /\ off + Len(new) <= Len(es)
         /\ Len(new) < room => off + Len(new) = Len(es)
         /\ \A e \in 1 .. Len(new) : new[e] = es[off + e]
<1> DEFINE end == Min({off + room, Len(es)})
<1>1. end = IF off + room <= Len(es) THEN off + room ELSE Len(es)
  <2>1. \A a, b \in Int : Min({a, b}) = IF a <= b THEN a ELSE b
    <3> SUFFICES ASSUME NEW a \in Int, NEW b \in Int PROVE Min({a, b}) = IF a <= b THEN a ELSE b
      OBVIOUS
    <3>1. \E x \in {a, b} : \A y \in {a, b} : x <= y
      OBVIOUS
    <3>2. Min({a, b}) \in {a, b} /\ \A y \in {a, b} : Min({a, b}) <= y
      BY <3>1 DEF Min
    <3> QED  BY <3>2
  <2>2. off + room \in Int /\ Len(es) \in Int
    OBVIOUS
  <2> QED  BY <2>1, <2>2
<1>2. new = SubSeq(es, off + 1, end)
  BY DEF NextOf
<1>3. end \in Nat /\ end <= Len(es) /\ off <= end /\ end <= off + room
      /\ (end < off + room => end = Len(es))
  BY <1>1
<1> HIDE DEF end
<1>4. \A i \in off + 1 .. end : es[i] \in Int
  BY <1>3
<1>5. /\ new \in Seq(Int) /\ Len(new) = end - off
      /\ \A i \in 1 .. end - off : new[i] = es[off + i]
  <2>1. /\ new \in Seq(Int) /\ Len(new) = IF off + 1 <= end THEN end - (off + 1) + 1 ELSE 0
        /\ \A i \in 1 .. end - (off + 1) + 1 : new[i] = es[off + 1 + i - 1]
    <3>1. off + 1 \in Int /\ end \in Int
      BY <1>3
    <3> QED  BY <1>2, <1>4, <3>1, SubSeqProperties
  <2>2. end - (off + 1) + 1 = end - off /\ (off + 1 <= end <=> end - off > 0)
    BY <1>3
  <2>3. Len(new) = end - off
    BY <1>3, <2>1, <2>2
  <2>4. ASSUME NEW i \in 1 .. end - off
        PROVE  new[i] = es[off + i]
    <3>1. off + 1 + i - 1 = off + i
      OBVIOUS
    <3> QED  BY <2>1, <2>2, <3>1
  <2> QED  BY <2>1, <2>3, <2>4
<1>6. new \in Seq(Int) /\ \A e \in 1 .. Len(new) : new[e] = es[off + e]
  BY <1>5
<1>7. /\ Len(new) \in Nat /\ Len(new) <= room /\ off + Len(new) <= Len(es)
      /\ Len(new) < room => off + Len(new) = Len(es)
  <2>1. Len(new) = end - off /\ Len(es) \in Nat
    BY <1>5
  <2> QED  BY <1>3, <2>1
<1> QED  BY <1>6, <1>7

LEMMA StreamIs ==
  ASSUME ProgramIsRight(program), program # <<>>, FilesAre, NEW n \in DOMAIN Round
  PROVE  /\ Len(StreamAfter(n)) = Len(Entries) /\ StreamAfter(n) \in Seq(Int)
         /\ \A e \in 1 .. Len(Entries) : StreamAfter(n)[e] =
              IF n = 1 THEN Entries[e]
              ELSE StreamAfter(n - 1)[e] + (IF Round[n].kind = "Change" THEN 1 ELSE 0)
<1>1. Entries \in Seq(Int) /\ Len(Entries) \in Nat
  BY EntriesAre
<1>2. RoundIsRight(Round) /\ n \in 1 .. Len(Round) /\ Len(Round) \in Nat
  BY RoundIs
<1>3. /\ Added(n) \in Nat
      /\ Added(n) = IF n = 1 THEN 0
                    ELSE Added(n - 1) + (IF Round[n].kind = "Change" THEN 1 ELSE 0)
  BY <1>2, AddedIs
<1>4. n # 1 => Added(n - 1) \in Nat
  <2> SUFFICES ASSUME n # 1 PROVE Added(n - 1) \in Nat
    OBVIOUS
  <2>1. n - 1 \in DOMAIN Round
    BY <1>2, RoundIs
  <2> QED  BY <1>2, <2>1, AddedIs
<1>5. \A e \in 1 .. Len(Entries) : Entries[e] \in Int
  BY <1>1
<1>6. StreamAfter(n) = [e \in 1 .. Len(Entries) |-> Entries[e] + Added(n)]
  BY DEF StreamAfter
<1>7. \A e \in 1 .. Len(Entries) : Entries[e] + Added(n) \in Int
  BY <1>3, <1>5
<1>8. StreamAfter(n) \in Seq(Int) /\ Len(StreamAfter(n)) = Len(Entries)
  BY <1>1, <1>6, <1>7
<1>9. \A e \in 1 .. Len(Entries) : StreamAfter(n)[e] =
        IF n = 1 THEN Entries[e]
        ELSE StreamAfter(n - 1)[e] + (IF Round[n].kind = "Change" THEN 1 ELSE 0)
  <2> SUFFICES ASSUME NEW e \in 1 .. Len(Entries)
               PROVE  StreamAfter(n)[e] =
                        IF n = 1 THEN Entries[e]
                        ELSE StreamAfter(n - 1)[e]
                               + (IF Round[n].kind = "Change" THEN 1 ELSE 0)
    OBVIOUS
  <2>1. Entries[e] \in Int /\ StreamAfter(n)[e] = Entries[e] + Added(n)
        /\ StreamAfter(n - 1)[e] = Entries[e] + Added(n - 1)
    BY <1>5 DEF StreamAfter
  <2> QED  BY <2>1, <1>3, <1>4
<1> QED  BY <1>8, <1>9

-----------------------------------------------------------------------------
(* Threads in a line *)

LEMMA LineIs ==
  ASSUME Busy, NEW t \in DOMAIN threads
  PROVE  /\ DOMAIN threads = 1 .. Len(threads) /\ Len(threads) \in Nat /\ t \in Nat /\ t > 0
         /\ DOMAIN queues = 1 .. Len(queues) /\ Len(queues) \in Nat
         /\ t <= Len(Round) + 1 /\ Len(Round) \in Nat /\ Len(Round) > 0
         /\ DOMAIN Round = 1 .. Len(Round)
         /\ threads[t].job = JobAt(t) /\ threads[t].in = t
         /\ t \in DOMAIN queues /\ 1 \in DOMAIN queues /\ 1 \in DOMAIN threads
         /\ threads[t].out = IF JobAt(t).kind \in Sinks THEN 1 ELSE t + 1
         /\ threads[t].out \in DOMAIN queues
         /\ JobAt(t).kind \in Sinks => t # 1 /\ t = Len(threads) /\ complete
         /\ JobAt(t).kind \notin Sinks => t \in DOMAIN Round
         /\ t \in DOMAIN Round => JobAt(t) = Round[t]
         /\ t \notin DOMAIN Round => JobAt(t).kind = "Recycler"
         /\ JobAt(t).kind \in Sources <=> t = 1
<1>1. /\ DOMAIN threads = 1 .. Len(threads) /\ Len(threads) \in Nat
      /\ DOMAIN queues = 1 .. Len(queues) /\ Len(queues) \in Nat
  BY SeqFacts DEF Busy, AllKept, Linked
<1>2. /\ RoundIsRight(Round) /\ Len(Round) \in Nat /\ Len(Round) > 0
      /\ DOMAIN Round = 1 .. Len(Round)
  BY RoundIs DEF Busy
<1>3. /\ threads[t].job = JobAt(t) /\ threads[t].in = t
      /\ threads[t].out = IF JobAt(t).kind \in Sinks THEN 1 ELSE t + 1
      /\ Len(threads) <= Len(Round) + 1
  BY DEF Busy, InLine
<1>4. threads[t].in \in DOMAIN queues /\ threads[t].out \in DOMAIN queues
  BY DEF Busy, AllKept, Linked
<1>5. /\ t \in DOMAIN Round => JobAt(t) = Round[t]
      /\ t \notin DOMAIN Round => JobAt(t).kind = "Recycler" /\ t = Len(Round) + 1
  BY <1>1, <1>2, <1>3 DEF JobAt
<1>6. JobAt(t).kind \notin Sinks => t \in DOMAIN Round
  BY <1>5 DEF Sinks
<1>7. JobAt(t).kind \in Sources <=> t = 1
  <2>1. CASE t \in DOMAIN Round
    BY <2>1, <1>2, <1>5 DEF RoundIsRight
  <2>2. CASE t \notin DOMAIN Round
    BY <2>2, <1>1, <1>2, <1>5 DEF Sources
  <2> QED  BY <2>1, <2>2
<1>8. ASSUME JobAt(t).kind \in Sinks
      PROVE  t # 1 /\ t = Len(threads) /\ complete
  <2>1. t # 1
    BY <1>7, <1>8 DEF Sources, Sinks
  <2>2. t = Len(threads)
    <3>0. /\ t \in Nat /\ Len(threads) \in Nat /\ Len(Round) \in Nat
          /\ t <= Len(threads) /\ Len(threads) <= Len(Round) + 1
      BY <1>1, <1>2, <1>3
    <3>1. CASE t \notin DOMAIN Round
      <4>1. t = Len(Round) + 1
        BY <3>1, <1>5
      <4> QED  BY <3>0, <4>1
    <3>2. CASE t \in DOMAIN Round
      <4>1. t = Len(Round)
        BY <3>2, <1>2, <1>5, <1>8 DEF RoundIsRight
      <4>2. Len(threads) # Len(Round) + 1
        BY <4>1, <1>8 DEF Busy, InLine
      <4> QED  BY <4>1, <4>2, <3>0
    <3> QED  BY <3>1, <3>2
  <2>3. threads # <<>>
    BY <1>1
  <2> QED  BY <2>1, <2>2, <2>3, <1>8 DEF Busy, InLine
<1> QED  BY <1>1, <1>2, <1>3, <1>4, <1>5, <1>6, <1>7, <1>8

LEMMA QueuesAre ==
  ASSUME Busy
  PROVE  /\ DOMAIN queues = 1 .. Len(queues) /\ Len(queues) \in Nat
         /\ DOMAIN threads = 1 .. Len(threads) /\ Len(threads) \in Nat /\ Len(threads) > 0
         /\ Len(queues) <= Len(threads) + 1
         /\ Len(queues) = IF complete THEN Len(threads) ELSE Len(threads) + 1
<1>1. Linked /\ InLine /\ queues # <<>>
  BY DEF Busy, AllKept
<1>2. IsSeq(queues) /\ IsSeq(threads)
  BY <1>1 DEF Linked
<1>3. /\ Len(queues) = IF complete THEN Len(threads) ELSE Len(threads) + 1
      /\ threads # <<>>
  BY <1>1 DEF InLine
<1> QED  BY <1>2, <1>3, SeqFacts

LEMMA LineStays ==
  ASSUME InLine, queues # <<>>, NEW t \in DOMAIN threads, Steps(t), Linked
  PROVE  InLine' /\ queues' # <<>> /\ DOMAIN threads' = DOMAIN threads
         /\ Len(queues') = Len(queues) /\ Len(threads') = Len(threads)
         /\ threads # <<>> /\ threads' # <<>>
         /\ Round' = Round /\ \A u : JobAt(u)' = JobAt(u)
<1>1. IsSeq(queues) /\ IsSeq(queues') /\ DOMAIN queues' = DOMAIN queues
  BY DEF Linked, Steps
<1>2. Len(queues') = Len(queues) /\ queues' # <<>>
  BY <1>1, SeqFacts
<1>3. IsSeq(threads) /\ IsSeq(threads') /\ DOMAIN threads' = DOMAIN threads
  BY DEF Linked, Steps, Becomes
<1>4. Len(threads') = Len(threads) /\ threads # <<>> /\ threads' # <<>>
  BY <1>3, SeqFacts
<1>5. Round' = Round /\ \A u : JobAt(u)' = JobAt(u)
  BY DEF Steps, Round, JobAt
<1>6. \A u \in DOMAIN threads : /\ threads'[u].job = threads[u].job
                                /\ threads'[u].in = threads[u].in
                                /\ threads'[u].out = threads[u].out
  BY DEF Steps, Becomes
<1>7. UNCHANGED <<complete, main>>
  BY DEF Steps
<1> QED  BY <1>2, <1>3, <1>4, <1>5, <1>6, <1>7 DEF InLine

\* The blocks of others are not in the memory of a block that is held.
LEMMA OtherMemory ==
  ASSUME NoneIsDoubled, NEW t \in DOMAIN threads, threads[t].at = "work",
         ~IsPoison(threads[t].block)
  PROVE  /\ \A q \in DOMAIN queues : \A i \in DOMAIN queues[q] :
              ~IsPoison(queues[q][i]) => queues[q][i].mem # threads[t].block.mem
         /\ \A u \in DOMAIN threads :
              u # t /\ threads[u].at = "work" => threads[u].block.mem # threads[t].block.mem
<1>1. t \in HeldBlocks
  BY DEF HeldBlocks
<1>2. ASSUME NEW q \in DOMAIN queues, NEW i \in DOMAIN queues[q], ~IsPoison(queues[q][i])
      PROVE  queues[q][i].mem # threads[t].block.mem
  <2>1. <<q, i>> \in InQueues /\ BlockAt(<<q, i>>) = queues[q][i]
    BY PlaceIs DEF BlockAt
  <2> QED  BY <1>1, <1>2, <2>1 DEF NoneIsDoubled
<1>3. \A u \in DOMAIN threads : threads[u].at = "work" => u \in HeldBlocks
  BY DEF HeldBlocks
<1> QED  BY <1>1, <1>2, <1>3 DEF NoneIsDoubled

LEMMA ProducedIs ==
  ASSUME Linked, NEW t \in DOMAIN threads, NEW b, queues' = Produced(t, b)
  PROVE  /\ IsSeq(queues') /\ DOMAIN queues' = DOMAIN queues
         /\ \A q \in DOMAIN queues : q # threads[t].out => queues'[q] = queues[q]
         /\ IsSeq(queues'[threads[t].out])
         /\ Len(queues'[threads[t].out]) = Len(queues[threads[t].out]) + 1
         /\ Len(queues[threads[t].out]) \in Nat
         /\ queues'[threads[t].out] # <<>>
         /\ \A i \in DOMAIN queues[threads[t].out] :
              queues'[threads[t].out][i] = queues[threads[t].out][i]
         /\ queues'[threads[t].out][Len(queues[threads[t].out]) + 1] = b
         /\ DOMAIN queues[threads[t].out] = 1 .. Len(queues[threads[t].out])
         /\ DOMAIN queues'[threads[t].out] = 1 .. (Len(queues[threads[t].out]) + 1)
<1> DEFINE o == threads[t].out
<1>1. o \in DOMAIN queues /\ IsSeq(queues) /\ IsSeq(queues[o])
  BY DEF Linked
<1>2. queues' = [queues EXCEPT ![o] = Append(queues[o], b)]
  BY DEF Produced
<1> HIDE DEF o
<1>3. IsSeq(queues') /\ DOMAIN queues' = DOMAIN queues
      /\ queues'[o] = Append(queues[o], b)
      /\ \A q \in DOMAIN queues : q # o => queues'[q] = queues[q]
  BY <1>1, <1>2, ExceptIs
<1>4. /\ IsSeq(queues'[o]) /\ Len(queues'[o]) = Len(queues[o]) + 1
      /\ DOMAIN queues'[o] = 1 .. (Len(queues[o]) + 1)
      /\ \A i \in DOMAIN queues[o] : queues'[o][i] = queues[o][i]
      /\ queues'[o][Len(queues[o]) + 1] = b
      /\ Len(queues[o]) \in Nat /\ DOMAIN queues[o] = 1 .. Len(queues[o])
  BY <1>1, <1>3, AppendIs, SeqFacts
<1>5. queues'[o] # <<>>
  BY <1>4, SeqFacts
<1> QED  BY <1>3, <1>4, <1>5 DEF o

-----------------------------------------------------------------------------
(* Poison comes last *)

LEMMA GivesNoPoison ==
  ASSUME Busy, NEW t \in DOMAIN threads, threads[t].at = "work", Steps(t),
         NEW b, ~IsPoison(b), queues' = Produced(t, b),
         threads'[t].at \in {"next", "last"}, threads'[t].at = "last" => t = 1
  PROVE  PoisonIsLast'
<1>1. Linked /\ PoisonIsLast /\ InLine /\ queues # <<>>
  BY DEF Busy, AllKept
<1>2. /\ DOMAIN threads' = DOMAIN threads /\ complete' = complete
      /\ \A u \in DOMAIN threads : u # t => threads'[u] = threads[u]
  BY <1>1, LineStays DEF Steps, Becomes
<1>3. \A u \in DOMAIN threads : HasEnded(u)' <=> HasEnded(u)
  BY <1>2 DEF HasEnded
<1>4. ~HasEnded(t)
  BY DEF HasEnded
<1>5. /\ DOMAIN threads = 1 .. Len(threads) /\ Len(threads) \in Nat /\ t \in Nat /\ t > 0
      /\ threads[t].out \in {1, t + 1}
  BY LineIs
<1>6. ASSUME NEW u \in DOMAIN threads
      PROVE  /\ threads'[u].at \in {"enter", "next", "last", "work", "poison", "ended"}
             /\ threads'[u].at = "last" => u = 1
             /\ u # 1 /\ threads'[u].at \in {"poison", "ended"} =>
                  queues'[u] = <<>> /\ \A s \in 1 .. (u - 1) : HasEnded(s)'
  <2>1. CASE u = t
    BY <2>1
  <2>2. CASE u # t
    <3>1. threads'[u] = threads[u]
      BY <1>2, <2>2
    <3>2. ASSUME u # 1, threads[u].at \in {"poison", "ended"}
          PROVE  queues'[u] = <<>> /\ \A s \in 1 .. (u - 1) : HasEnded(s)'
      <4>1. queues[u] = <<>> /\ \A s \in 1 .. (u - 1) : HasEnded(s)
        BY <3>2, <1>1 DEF PoisonIsLast
      <4>2. t \notin 1 .. (u - 1)
        BY <4>1, <1>4
      <4>3. u # threads[t].out
        BY <4>2, <3>2, <1>5
      <4>4. u \in DOMAIN queues
        BY LineIs
      <4>5. queues'[u] = queues[u]
        BY <4>3, <4>4, <1>1, ProducedIs
      <4>6. \A s \in 1 .. (u - 1) : s \in DOMAIN threads
        BY <1>5
      <4> QED  BY <4>1, <4>5, <4>6, <1>3
    <3>3. /\ threads[u].at \in {"enter", "next", "last", "work", "poison", "ended"}
          /\ threads[u].at = "last" => u = 1
      BY <1>1 DEF PoisonIsLast
    <3> QED  BY <3>1, <3>2, <3>3
  <2> QED  BY <2>1, <2>2
<1>7. ASSUME NEW q \in DOMAIN queues, NEW i \in DOMAIN queues'[q], IsPoison(queues'[q][i])
      PROVE  IF q = 1 THEN complete' /\ \A s \in DOMAIN threads' : HasEnded(s)'
                      ELSE i = Len(queues'[q]) /\ \A s \in 1 .. (q - 1) : HasEnded(s)'
  <2>0. /\ DOMAIN queues = 1 .. Len(queues) /\ Len(queues) \in Nat
        /\ Len(queues) <= Len(threads) + 1
    BY QueuesAre
  <2>1. CASE q # threads[t].out
    <3>1. queues'[q] = queues[q]
      BY <2>1, <1>1, ProducedIs
    <3>2. IF q = 1 THEN complete /\ \A s \in DOMAIN threads : HasEnded(s)
                   ELSE i = Len(queues[q]) /\ \A s \in 1 .. (q - 1) : HasEnded(s)
      BY <3>1, <1>7, <1>1 DEF PoisonIsLast
    <3>3. \A s \in 1 .. (q - 1) : s \in DOMAIN threads
      BY <2>0, <1>5
    <3> QED  BY <3>1, <3>2, <3>3, <1>2, <1>3
  <2>2. CASE q = threads[t].out
    <3>1. i \in DOMAIN queues[q] /\ IsPoison(queues[q][i])
      <4>1. /\ DOMAIN queues'[q] = 1 .. (Len(queues[q]) + 1) /\ Len(queues[q]) \in Nat
            /\ DOMAIN queues[q] = 1 .. Len(queues[q])
            /\ queues'[q][Len(queues[q]) + 1] = b
            /\ \A j \in DOMAIN queues[q] : queues'[q][j] = queues[q][j]
        BY <2>2, <1>1, ProducedIs
      <4>2. i # Len(queues[q]) + 1
        BY <4>1, <1>7
      <4>3. i \in DOMAIN queues[q]
        BY <4>1, <4>2
      <4> QED  BY <4>1, <4>3, <1>7
    <3>2. HasEnded(t)
      <4>1. IF q = 1 THEN complete /\ \A s \in DOMAIN threads : HasEnded(s)
                     ELSE i = Len(queues[q]) /\ \A s \in 1 .. (q - 1) : HasEnded(s)
        BY <3>1, <1>1 DEF PoisonIsLast
      <4>2. q # 1 => t \in 1 .. (q - 1)
        BY <2>2, <1>5
      <4> QED  BY <4>1, <4>2
    <3> QED  BY <3>2, <1>4
  <2> QED  BY <2>1, <2>2
<1>8. DOMAIN queues' = DOMAIN queues
  BY DEF Steps
<1> QED  BY <1>2, <1>6, <1>7, <1>8 DEF PoisonIsLast

LEMMA PassesPoison ==
  ASSUME Busy, NEW t \in DOMAIN threads, threads[t].at = "poison", Steps(t),
         NEW b, IsPoison(b), queues' = Produced(t, b), threads'[t].at = "ended"
  PROVE  PoisonIsLast'
<1>1. Linked /\ PoisonIsLast /\ InLine /\ queues # <<>>
  BY DEF Busy, AllKept
<1>2. /\ DOMAIN threads' = DOMAIN threads /\ complete' = complete
      /\ \A u \in DOMAIN threads : u # t => threads'[u] = threads[u]
  BY <1>1, LineStays DEF Steps, Becomes
<1>3. /\ \A u \in DOMAIN threads : HasEnded(u) => HasEnded(u)'
      /\ HasEnded(t)' /\ ~HasEnded(t)
  BY <1>2 DEF HasEnded
<1>4. t # 1 => queues[t] = <<>> /\ \A s \in 1 .. (t - 1) : HasEnded(s)
  BY <1>1 DEF PoisonIsLast
<1>5. /\ DOMAIN threads = 1 .. Len(threads) /\ Len(threads) \in Nat /\ t \in Nat /\ t > 0
      /\ threads[t].out = IF JobAt(t).kind \in Sinks THEN 1 ELSE t + 1
      /\ JobAt(t).kind \in Sinks => t # 1 /\ t = Len(threads) /\ complete
  BY LineIs
<1>6. ASSUME NEW u \in DOMAIN threads
      PROVE  /\ threads'[u].at \in {"enter", "next", "last", "work", "poison", "ended"}
             /\ threads'[u].at = "last" => u = 1
             /\ u # 1 /\ threads'[u].at \in {"poison", "ended"} =>
                  queues'[u] = <<>> /\ \A s \in 1 .. (u - 1) : HasEnded(s)'
  <2>0. ASSUME u # 1, u # threads[t].out, queues[u] = <<>>, \A s \in 1 .. (u - 1) : HasEnded(s)
        PROVE  queues'[u] = <<>> /\ \A s \in 1 .. (u - 1) : HasEnded(s)'
    <3>1. u \in DOMAIN queues
      BY LineIs
    <3>2. queues'[u] = queues[u]
      BY <2>0, <3>1, <1>1, ProducedIs
    <3>3. \A s \in 1 .. (u - 1) : s \in DOMAIN threads
      BY <1>5
    <3> QED  BY <2>0, <3>2, <3>3, <1>3
  <2>1. CASE u = t
    <3>1. u # 1 => u # threads[t].out
      BY <2>1, <1>5
    <3> QED  BY <2>0, <2>1, <3>1, <1>4
  <2>2. CASE u # t
    <3>1. threads'[u] = threads[u]
      BY <1>2, <2>2
    <3>2. ASSUME u # 1, threads[u].at \in {"poison", "ended"}
          PROVE  queues'[u] = <<>> /\ \A s \in 1 .. (u - 1) : HasEnded(s)'
      <4>1. queues[u] = <<>> /\ \A s \in 1 .. (u - 1) : HasEnded(s)
        BY <3>2, <1>1 DEF PoisonIsLast
      <4>2. t \notin 1 .. (u - 1)
        BY <4>1, <1>3
      <4>3. u # threads[t].out
        BY <4>2, <3>2, <1>5
      <4> QED  BY <3>2, <4>1, <4>3, <2>0
    <3>3. /\ threads[u].at \in {"enter", "next", "last", "work", "poison", "ended"}
          /\ threads[u].at = "last" => u = 1
      BY <1>1 DEF PoisonIsLast
    <3> QED  BY <3>1, <3>2, <3>3
  <2> QED  BY <2>1, <2>2
<1>7. ASSUME NEW q \in DOMAIN queues, NEW i \in DOMAIN queues'[q], IsPoison(queues'[q][i])
      PROVE  IF q = 1 THEN complete' /\ \A s \in DOMAIN threads' : HasEnded(s)'
                      ELSE i = Len(queues'[q]) /\ \A s \in 1 .. (q - 1) : HasEnded(s)'
  <2>0. /\ DOMAIN queues = 1 .. Len(queues) /\ Len(queues) \in Nat
        /\ Len(queues) <= Len(threads) + 1
    BY QueuesAre
  <2>1. CASE q # threads[t].out
    <3>1. queues'[q] = queues[q]
      BY <2>1, <1>1, ProducedIs
    <3>2. IF q = 1 THEN complete /\ \A s \in DOMAIN threads : HasEnded(s)
                   ELSE i = Len(queues[q]) /\ \A s \in 1 .. (q - 1) : HasEnded(s)
      BY <3>1, <1>7, <1>1 DEF PoisonIsLast
    <3>3. \A s \in 1 .. (q - 1) : s \in DOMAIN threads
      BY <2>0, <1>5
    <3> QED  BY <3>1, <3>2, <3>3, <1>2, <1>3
  <2>2. CASE q = threads[t].out
    <3>1. /\ DOMAIN queues'[q] = 1 .. (Len(queues[q]) + 1) /\ Len(queues[q]) \in Nat
          /\ DOMAIN queues[q] = 1 .. Len(queues[q])
          /\ Len(queues'[q]) = Len(queues[q]) + 1
          /\ \A j \in DOMAIN queues[q] : queues'[q][j] = queues[q][j]
      BY <2>2, <1>1, ProducedIs
    <3>2. i \notin DOMAIN queues[q]
      <4> SUFFICES ASSUME i \in DOMAIN queues[q] PROVE FALSE
        OBVIOUS
      <4>1. IsPoison(queues[q][i])
        BY <3>1, <1>7
      <4>2. IF q = 1 THEN complete /\ \A s \in DOMAIN threads : HasEnded(s)
                     ELSE i = Len(queues[q]) /\ \A s \in 1 .. (q - 1) : HasEnded(s)
        BY <4>1, <1>1 DEF PoisonIsLast
      <4>3. q # 1 => t \in 1 .. (q - 1)
        BY <2>2, <1>5
      <4> QED  BY <4>2, <4>3, <1>3
    <3>3. i = Len(queues'[q])
      BY <3>1, <3>2
    <3>4. \A s \in 1 .. t : HasEnded(s)'
      <4> SUFFICES ASSUME NEW s \in 1 .. t PROVE HasEnded(s)'
        OBVIOUS
      <4>1. CASE s = t
        BY <4>1, <1>3
      <4>2. CASE s # t
        <5>1. t # 1 /\ s \in 1 .. (t - 1) /\ s \in DOMAIN threads
          BY <4>2, <1>5
        <5> QED  BY <5>1, <1>3, <1>4
      <4> QED  BY <4>1, <4>2
    <3>5. CASE JobAt(t).kind \in Sinks
      <4>1. q = 1 /\ complete' /\ DOMAIN threads' = 1 .. t
        BY <3>5, <2>2, <1>2, <1>5
      <4> QED  BY <4>1, <3>4
    <3>6. CASE JobAt(t).kind \notin Sinks
      <4>1. q # 1 /\ q - 1 = t
        BY <3>6, <2>2, <1>5
      <4> QED  BY <4>1, <3>3, <3>4
    <3> QED  BY <3>5, <3>6
  <2> QED  BY <2>1, <2>2
<1>8. DOMAIN queues' = DOMAIN queues
  BY DEF Steps
<1> QED  BY <1>2, <1>6, <1>7, <1>8 DEF PoisonIsLast

LEMMA TakesLast ==
  ASSUME Busy, NEW t \in DOMAIN threads, threads[t].at \in {"enter", "next", "last"}, Steps(t),
         queues[t] # <<>>, queues' = [queues EXCEPT ![t] = Tail(@)],
         threads'[t].at = IF IsPoison(Head(queues[t])) \/ threads[t].at = "last"
                          THEN "poison" ELSE "work"
  PROVE  /\ PoisonIsLast'
         /\ t # 1 /\ IsPoison(Head(queues[t])) =>
              Len(queues[t]) = 1 /\ \A s \in 1 .. (t - 1) : HasEnded(s)
         /\ t = 1 => ~IsPoison(Head(queues[t]))
<1>1. Linked /\ PoisonIsLast /\ InLine /\ queues # <<>>
  BY DEF Busy, AllKept
<1>2. /\ DOMAIN threads' = DOMAIN threads /\ complete' = complete
      /\ \A u \in DOMAIN threads : u # t => threads'[u] = threads[u]
  BY <1>1, LineStays DEF Steps, Becomes
<1>3. /\ \A u \in DOMAIN threads : HasEnded(u)' <=> HasEnded(u)
      /\ ~HasEnded(t)
  BY <1>2 DEF HasEnded
<1>4. /\ DOMAIN threads = 1 .. Len(threads) /\ Len(threads) \in Nat /\ t \in Nat /\ t > 0
      /\ t \in DOMAIN queues
  BY LineIs
<1>5. /\ IsSeq(queues[t]) /\ Len(queues[t]) \in Nat /\ Len(queues[t]) > 0
      /\ DOMAIN queues[t] = 1 .. Len(queues[t])
      /\ 1 \in DOMAIN queues[t] /\ Head(queues[t]) = queues[t][1]
  <2>1. IsSeq(queues[t])
    BY <1>1, <1>4 DEF Linked
  <2> QED  BY <2>1, SeqFacts, TailIs
<1>6. /\ queues'[t] = Tail(queues[t])
      /\ \A q \in DOMAIN queues : q # t => queues'[q] = queues[q]
  BY <1>4
<1>7. /\ Len(queues'[t]) = Len(queues[t]) - 1 /\ DOMAIN queues'[t] = 1 .. (Len(queues[t]) - 1)
      /\ \A i \in DOMAIN queues'[t] : queues'[t][i] = queues[t][i + 1]
      /\ IsSeq(queues'[t])
  <2> DEFINE queue == queues[t]
  <2>1. IsSeq(queue) /\ queue # <<>>
    BY <1>5
  <2> HIDE DEF queue
  <2>2. /\ Len(Tail(queue)) = Len(queue) - 1 /\ DOMAIN Tail(queue) = 1 .. (Len(queue) - 1)
        /\ \A i \in DOMAIN Tail(queue) : Tail(queue)[i] = queue[i + 1]
        /\ IsSeq(Tail(queue))
    BY <2>1, TailIs
  <2> QED  BY <2>2, <1>6 DEF queue
<1>8. ASSUME IsPoison(Head(queues[t]))
      PROVE  t # 1 /\ Len(queues[t]) = 1 /\ \A s \in 1 .. (t - 1) : HasEnded(s)
  <2>1. IF t = 1 THEN complete /\ \A s \in DOMAIN threads : HasEnded(s)
                 ELSE 1 = Len(queues[t]) /\ \A s \in 1 .. (t - 1) : HasEnded(s)
    BY <1>8, <1>1, <1>4, <1>5 DEF PoisonIsLast
  <2> QED  BY <2>1, <1>3
<1>9. ASSUME NEW u \in DOMAIN threads
      PROVE  /\ threads'[u].at \in {"enter", "next", "last", "work", "poison", "ended"}
             /\ threads'[u].at = "last" => u = 1
             /\ u # 1 /\ threads'[u].at \in {"poison", "ended"} =>
                  queues'[u] = <<>> /\ \A s \in 1 .. (u - 1) : HasEnded(s)'
  <2>0. \A s \in 1 .. (u - 1) : s \in DOMAIN threads
    BY <1>4
  <2>1. CASE u = t
    <3>1. ASSUME u # 1, threads'[u].at = "poison"
          PROVE  queues'[u] = <<>> /\ \A s \in 1 .. (u - 1) : HasEnded(s)'
      <4>1. threads[t].at # "last"
        BY <2>1, <3>1, <1>1 DEF PoisonIsLast
      <4>2. IsPoison(Head(queues[t]))
        BY <2>1, <3>1, <4>1
      <4>3. Len(queues[t]) = 1 /\ \A s \in 1 .. (t - 1) : HasEnded(s)
        BY <4>2, <1>8
      <4>4. queues'[t] = <<>>
        BY <4>3, <1>7, SeqFacts
      <4> QED  BY <2>0, <2>1, <4>3, <4>4, <1>3
    <3> QED  BY <2>1, <3>1
  <2>2. CASE u # t
    <3>1. threads'[u] = threads[u] /\ u \in DOMAIN queues
      BY <1>2, <2>2, LineIs
    <3>2. queues'[u] = queues[u]
      BY <3>1, <2>2, <1>6
    <3> QED  BY <2>0, <3>1, <3>2, <1>1, <1>3 DEF PoisonIsLast
  <2> QED  BY <2>1, <2>2
<1>10. ASSUME NEW q \in DOMAIN queues, NEW i \in DOMAIN queues'[q], IsPoison(queues'[q][i])
      PROVE  IF q = 1 THEN complete' /\ \A s \in DOMAIN threads' : HasEnded(s)'
                      ELSE i = Len(queues'[q]) /\ \A s \in 1 .. (q - 1) : HasEnded(s)'
  <2>0. /\ DOMAIN queues = 1 .. Len(queues) /\ Len(queues) \in Nat
        /\ Len(queues) <= Len(threads) + 1
    BY QueuesAre
  <2>1. \A s \in 1 .. (q - 1) : s \in DOMAIN threads
    BY <2>0, <1>4
  <2>2. CASE q # t
    <3>1. queues'[q] = queues[q]
      BY <2>2, <1>6
    <3>2. IF q = 1 THEN complete /\ \A s \in DOMAIN threads : HasEnded(s)
                   ELSE i = Len(queues[q]) /\ \A s \in 1 .. (q - 1) : HasEnded(s)
      BY <3>1, <1>10, <1>1 DEF PoisonIsLast
    <3> QED  BY <2>1, <3>1, <3>2, <1>2, <1>3
  <2>3. CASE q = t
    <3>1. i + 1 \in DOMAIN queues[q] /\ IsPoison(queues[q][i + 1])
      BY <2>3, <1>5, <1>7, <1>10
    <3>2. IF q = 1 THEN complete /\ \A s \in DOMAIN threads : HasEnded(s)
                   ELSE i + 1 = Len(queues[q]) /\ \A s \in 1 .. (q - 1) : HasEnded(s)
      BY <3>1, <1>1 DEF PoisonIsLast
    <3>3. i = Len(queues'[q]) <=> i + 1 = Len(queues[q])
      BY <2>3, <1>5, <1>7
    <3> QED  BY <2>1, <3>2, <3>3, <1>2, <1>3
  <2> QED  BY <2>2, <2>3
<1>11. DOMAIN queues' = DOMAIN queues
  BY DEF Steps
<1>12. PoisonIsLast'
  BY <1>2, <1>9, <1>10, <1>11 DEF PoisonIsLast
<1> QED  BY <1>8, <1>12

-----------------------------------------------------------------------------
(* The stream in a queue *)

\* Thread t leaves alone what is in the queues and with the others.
Unspoiled(t) ==
  /\ Entries' = Entries
  /\ \A q \in DOMAIN queues : \A i \in DOMAIN queues[q] :
       ~IsPoison(queues[q][i]) => memory'[queues[q][i].mem] = memory[queues[q][i].mem]
  /\ \A u \in DOMAIN threads :
       u # t /\ threads[u].at = "work" => memory'[threads[u].block.mem] = memory[threads[u].block.mem]

LEMMA ConstantsStay == Blocks' = Blocks /\ BlockSize' = BlockSize
BY DEF Blocks, BlockSize

LEMMA StreamStays ==
  ASSUME UNCHANGED program, Entries' = Entries
  PROVE  \A n : StreamAfter(n)' = StreamAfter(n)
<1>1. Round' = Round
  BY DEF Round
<1>2. \A n : Added(n)' = Added(n)
  BY <1>1 DEF Added
<1> QED  BY <1>2 DEF StreamAfter

LEMMA QueueStays ==
  ASSUME Linked, NEW t, UNCHANGED program, Unspoiled(t),
         NEW passed, NEW pos, NEW p2, NEW s2, NEW q \in DOMAIN queues,
         QueueFlows(passed, pos, q),
         queues'[q] = queues[q], s2[q] = pos[q], p2[q - 1] = passed[q - 1],
         q \in DOMAIN threads' <=> q \in DOMAIN threads,
         q \in DOMAIN threads => p2[q] + HeldBy(q)' = passed[q] + HeldBy(q)
  PROVE  QueueFlows(p2, s2, q)'
<1>1. StreamAfter(q - 1)' = StreamAfter(q - 1) /\ Blocks' = Blocks /\ BlockSize' = BlockSize
  BY StreamStays, ConstantsStay DEF Unspoiled
<1>2. \A i \in DOMAIN queues[q] :
        ~IsPoison(queues[q][i]) => memory'[queues[q][i].mem] = memory[queues[q][i].mem]
  BY DEF Unspoiled
<1>3. \A i \in DOMAIN queues[q] :
        ~IsPoison(queues[q][i])
          => Carries(memory', StreamAfter(q - 1), queues[q][i], pos[q][i])
  BY <1>2 DEF QueueFlows, Carries
<1>4. \A i \in DOMAIN queues'[q] :
        ~IsPoison(queues'[q][i])
          => Carries(memory, StreamAfter(q - 1), queues[q][i], s2[q][i])'
  BY <1>1, <1>3 DEF Carries
<1>5. \A i \in DOMAIN queues'[q] :
         s2[q][i] + SizeOf(queues[q][i])'
            = IF i = Len(queues'[q]) THEN p2[q - 1] ELSE s2[q][i + 1]
  BY DEF QueueFlows, SizeOf, IsPoison
<1>6. NextIn(p2, s2, q)' = NextIn(passed, pos, q)
  BY DEF NextIn
<1>7. s2[q] \in Seq(Nat) /\ Len(s2[q]) = Len(queues'[q])
  BY DEF QueueFlows
<1>8. NextIn(p2, s2, q)' = IF q \in DOMAIN threads' THEN p2[q] + HeldBy(q)' ELSE 0
  BY <1>6 DEF QueueFlows
<1> QED  BY <1>4, <1>5, <1>7, <1>8 DEF QueueFlows, IsPoison

\* One more block at the end.
LEMMA QueueGrows ==
  ASSUME Linked, NEW t, UNCHANGED program, Unspoiled(t),
         NEW passed, NEW pos, NEW p2, NEW s2, NEW q \in DOMAIN queues, NEW b,
         QueueFlows(passed, pos, q), passed[q - 1] \in Nat,
         queues'[q] = Append(queues[q], b), s2[q] = Append(pos[q], passed[q - 1]),
         p2[q - 1] = passed[q - 1] + SizeOf(b),
         ~IsPoison(b) => Carries(memory', StreamAfter(q - 1), b, passed[q - 1]),
         q \in DOMAIN threads' <=> q \in DOMAIN threads,
         q \in DOMAIN threads => p2[q] + HeldBy(q)' = passed[q] + HeldBy(q)
  PROVE  QueueFlows(p2, s2, q)'
<1> DEFINE n == Len(queues[q])
<1>1. StreamAfter(q - 1)' = StreamAfter(q - 1) /\ Blocks' = Blocks /\ BlockSize' = BlockSize
  BY StreamStays, ConstantsStay DEF Unspoiled
<1>2. /\ n \in Nat /\ DOMAIN queues[q] = 1 .. n
      /\ Len(queues'[q]) = n + 1 /\ DOMAIN queues'[q] = 1 .. (n + 1)
      /\ \A i \in 1 .. n : queues'[q][i] = queues[q][i]
      /\ queues'[q][n + 1] = b /\ queues'[q] # <<>>
      /\ queues[q] = <<>> <=> n = 0
  <2> DEFINE queue == queues[q]
  <2>1. IsSeq(queue)
    BY DEF Linked
  <2> HIDE DEF queue
  <2>2. /\ IsSeq(Append(queue, b)) /\ Len(Append(queue, b)) = Len(queue) + 1
        /\ DOMAIN Append(queue, b) = 1 .. (Len(queue) + 1)
        /\ \A i \in DOMAIN queue : Append(queue, b)[i] = queue[i]
        /\ Append(queue, b)[Len(queue) + 1] = b
    BY <2>1, AppendIs
  <2>3. Len(queue) \in Nat /\ DOMAIN queue = 1 .. Len(queue) /\ (queue # <<>> <=> Len(queue) > 0)
    BY <2>1, SeqFacts
  <2>4. Append(queue, b) # <<>>
    BY <2>2, <2>3, SeqFacts
  <2> QED  BY <2>2, <2>3, <2>4 DEF queue
<1>3. /\ s2[q] \in Seq(Nat) /\ Len(s2[q]) = n + 1
      /\ \A i \in 1 .. n : s2[q][i] = pos[q][i]
      /\ s2[q][n + 1] = passed[q - 1]
  <2>1. pos[q] \in Seq(Nat) /\ Len(pos[q]) = n
    BY DEF QueueFlows
  <2> HIDE DEF n
  <2> QED  BY <2>1
<1> HIDE DEF n
<1>4. ASSUME NEW i \in DOMAIN queues'[q]
      PROVE  /\ ~IsPoison(queues'[q][i])
                  => Carries(memory, StreamAfter(q - 1), queues[q][i], s2[q][i])'
             /\ s2[q][i] + SizeOf(queues[q][i])'
                  = IF i = Len(queues'[q]) THEN p2[q - 1] ELSE s2[q][i + 1]
  <2>1. CASE i = n + 1
    <3>1. queues'[q][i] = b /\ s2[q][i] = passed[q - 1]
      BY <2>1, <1>2, <1>3
    <3>2. ~IsPoison(b) => Carries(memory, StreamAfter(q - 1), queues[q][i], s2[q][i])'
      BY <3>1, <1>1 DEF Carries
    <3>3. SizeOf(queues[q][i])' = SizeOf(b)
      BY <3>1 DEF SizeOf, IsPoison
    <3> QED  BY <2>1, <3>1, <3>2, <3>3, <1>2
  <2>2. CASE i # n + 1
    <3>1. i \in 1 .. n /\ i \in DOMAIN queues[q] /\ queues'[q][i] = queues[q][i]
          /\ s2[q][i] = pos[q][i]
      BY <2>2, <1>2, <1>3
    <3>2. /\ ~IsPoison(queues[q][i])
               => Carries(memory, StreamAfter(q - 1), queues[q][i], pos[q][i])
          /\ pos[q][i] + SizeOf(queues[q][i])
               = IF i = n THEN passed[q - 1] ELSE pos[q][i + 1]
      BY <3>1 DEF QueueFlows, n
    <3>3. ~IsPoison(queues[q][i]) => memory'[queues[q][i].mem] = memory[queues[q][i].mem]
      BY <3>1 DEF Unspoiled
    <3>4. ~IsPoison(queues[q][i])
            => Carries(memory', StreamAfter(q - 1), queues[q][i], pos[q][i])
      BY <3>2, <3>3 DEF Carries
    <3>5. ~IsPoison(queues'[q][i])
             => Carries(memory, StreamAfter(q - 1), queues[q][i], s2[q][i])'
      BY <3>1, <3>4, <1>1 DEF Carries
    <3>6. SizeOf(queues[q][i])' = SizeOf(queues[q][i])
      BY <3>1 DEF SizeOf, IsPoison
    <3>7. i # n => i + 1 \in 1 .. n
      BY <3>1, <1>2
    <3>8. s2[q][i + 1] = IF i = n THEN passed[q - 1] ELSE pos[q][i + 1]
      BY <3>7, <1>2, <1>3
    <3> QED  BY <2>2, <3>1, <3>2, <3>5, <3>6, <3>8, <1>2
  <2> QED  BY <2>1, <2>2
<1>5. NextIn(p2, s2, q)' = NextIn(passed, pos, q)
  <2>1. NextIn(p2, s2, q)' = s2[q][1]
    BY <1>2 DEF NextIn
  <2>2. n = 0 => s2[q][1] = passed[q - 1]
    BY <1>3
  <2>3. n # 0 => s2[q][1] = pos[q][1]
    BY <1>2, <1>3
  <2> QED  BY <2>1, <2>2, <2>3, <1>2 DEF NextIn
<1>6. NextIn(p2, s2, q)' = IF q \in DOMAIN threads' THEN p2[q] + HeldBy(q)' ELSE 0
  BY <1>5 DEF QueueFlows
<1>7. Len(s2[q]) = Len(queues'[q]) /\ s2[q] \in Seq(Nat)
  BY <1>2, <1>3
<1> QED  BY <1>4, <1>6, <1>7 DEF QueueFlows, IsPoison

\* The first block is taken.
LEMMA QueueShrinks ==
  ASSUME Linked, NEW t, UNCHANGED program, Unspoiled(t),
         NEW passed, NEW pos, NEW s2, NEW q \in DOMAIN queues,
         QueueFlows(passed, pos, q), passed[q - 1] \in Nat, queues[q] # <<>>,
         queues'[q] = Tail(queues[q]), s2[q] = Tail(pos[q]),
         q \in DOMAIN threads, q \in DOMAIN threads', HeldBy(q) = 0, passed[q] \in Nat,
         HeldBy(q)' = SizeOf(Head(queues[q])), SizeOf(Head(queues[q])) \in Nat
  PROVE  /\ QueueFlows(passed, s2, q)'
         /\ pos[q][1] = passed[q] /\ 1 \in DOMAIN queues[q] /\ Head(queues[q]) = queues[q][1]
         /\ Len(queues[q]) = 1 => passed[q] + SizeOf(queues[q][1]) = passed[q - 1]
<1> DEFINE n == Len(queues[q])
<1>1. StreamAfter(q - 1)' = StreamAfter(q - 1) /\ Blocks' = Blocks /\ BlockSize' = BlockSize
  BY StreamStays, ConstantsStay DEF Unspoiled
<1>2. /\ n \in Nat /\ n > 0 /\ DOMAIN queues[q] = 1 .. n
      /\ Len(queues'[q]) = n - 1 /\ DOMAIN queues'[q] = 1 .. (n - 1)
      /\ \A i \in 1 .. (n - 1) : queues'[q][i] = queues[q][i + 1]
      /\ queues'[q] = <<>> <=> n = 1
      /\ Head(queues[q]) = queues[q][1]
  <2> DEFINE queue == queues[q]
  <2>1. IsSeq(queue) /\ queue # <<>>
    BY DEF Linked
  <2> HIDE DEF queue
  <2>2. /\ IsSeq(Tail(queue)) /\ Len(Tail(queue)) = Len(queue) - 1
        /\ DOMAIN Tail(queue) = 1 .. (Len(queue) - 1)
        /\ \A i \in DOMAIN Tail(queue) : Tail(queue)[i] = queue[i + 1]
        /\ Head(queue) = queue[1] /\ Len(queue) > 0
    BY <2>1, TailIs
  <2>3. Len(queue) \in Nat /\ DOMAIN queue = 1 .. Len(queue)
    BY <2>1, SeqFacts
  <2>4. Tail(queue) = <<>> <=> Len(queue) = 1
    <3>1. Tail(queue) # <<>> <=> Len(Tail(queue)) > 0
      BY <2>2, SeqFacts
    <3> QED  BY <3>1, <2>2, <2>3
  <2> QED  BY <2>2, <2>3, <2>4 DEF queue
<1>3. /\ s2[q] \in Seq(Nat) /\ Len(s2[q]) = n - 1
      /\ \A i \in 1 .. (n - 1) : s2[q][i] = pos[q][i + 1]
  <2>1. pos[q] \in Seq(Nat) /\ Len(pos[q]) = n
    BY DEF QueueFlows
  <2> HIDE DEF n
  <2>2. n > 0
    BY <1>2
  <2> QED  BY <2>1, <2>2
<1>4. pos[q][1] = passed[q]
  BY DEF QueueFlows, NextIn
<1>5. passed[q] + SizeOf(queues[q][1]) = IF n = 1 THEN passed[q - 1] ELSE pos[q][2]
  <2>1. 1 \in DOMAIN queues[q]
    BY <1>2
  <2>2. pos[q][1] + SizeOf(queues[q][1]) = IF 1 = n THEN passed[q - 1] ELSE pos[q][1 + 1]
    BY <2>1 DEF QueueFlows, n
  <2> QED  BY <2>2, <1>4
<1> HIDE DEF n
<1>6. ASSUME NEW i \in DOMAIN queues'[q]
      PROVE  /\ ~IsPoison(queues'[q][i])
                  => Carries(memory, StreamAfter(q - 1), queues[q][i], s2[q][i])'
             /\ s2[q][i] + SizeOf(queues[q][i])'
                  = IF i = Len(queues'[q]) THEN passed[q - 1] ELSE s2[q][i + 1]
  <2>1. i \in 1 .. (n - 1) /\ i + 1 \in DOMAIN queues[q] /\ queues'[q][i] = queues[q][i + 1]
        /\ s2[q][i] = pos[q][i + 1]
    <3>1. i \in 1 .. (n - 1)
      BY <1>2
    <3>2. i + 1 \in 1 .. n
      BY <1>2, <3>1
    <3> QED  BY <1>2, <1>3, <3>1, <3>2
  <2>2. /\ ~IsPoison(queues[q][i + 1])
             => Carries(memory, StreamAfter(q - 1), queues[q][i + 1], pos[q][i + 1])
        /\ pos[q][i + 1] + SizeOf(queues[q][i + 1])
             = IF i + 1 = n THEN passed[q - 1] ELSE pos[q][i + 1 + 1]
    BY <2>1 DEF QueueFlows, n
  <2>3. ~IsPoison(queues[q][i + 1]) => memory'[queues[q][i + 1].mem] = memory[queues[q][i + 1].mem]
    BY <2>1 DEF Unspoiled
  <2>4. ~IsPoison(queues[q][i + 1])
          => Carries(memory', StreamAfter(q - 1), queues[q][i + 1], pos[q][i + 1])
    BY <2>2, <2>3 DEF Carries
  <2>5. ~IsPoison(queues'[q][i])
           => Carries(memory, StreamAfter(q - 1), queues[q][i], s2[q][i])'
    BY <2>1, <2>4, <1>1 DEF Carries
  <2>6. SizeOf(queues[q][i])' = SizeOf(queues[q][i + 1])
    BY <2>1 DEF SizeOf, IsPoison
  <2>7. i # n - 1 => i + 1 \in 1 .. (n - 1)
    BY <2>1, <1>2
  <2>8. i # n - 1 => s2[q][i + 1] = pos[q][i + 1 + 1]
    BY <2>7, <1>3
  <2>9. i + 1 = n <=> i = Len(queues'[q])
    BY <2>1, <1>2
  <2> QED  BY <2>1, <2>2, <2>5, <2>6, <2>8, <2>9, <1>2
<1>7. NextIn(passed, s2, q)' = passed[q] + SizeOf(queues[q][1])
  <2>1. CASE n = 1
    BY <2>1, <1>2, <1>5 DEF NextIn
  <2>2. CASE n # 1
    <3>1. NextIn(passed, s2, q)' = s2[q][1]
      BY <2>2, <1>2 DEF NextIn
    <3>2. s2[q][1] = pos[q][2]
      BY <2>2, <1>2, <1>3
    <3> QED  BY <2>2, <3>1, <3>2, <1>5
  <2> QED  BY <2>1, <2>2
<1>8. NextIn(passed, s2, q)' = IF q \in DOMAIN threads' THEN passed[q] + HeldBy(q)' ELSE 0
  BY <1>2, <1>7
<1>9. Len(s2[q]) = Len(queues'[q]) /\ s2[q] \in Seq(Nat)
  BY <1>2, <1>3
<1>10. QueueFlows(passed, s2, q)'
  BY <1>6, <1>8, <1>9 DEF QueueFlows, IsPoison
<1>11. Len(queues[q]) = n
  BY DEF n
<1>12. 1 \in DOMAIN queues[q]
  BY <1>2
<1> QED  BY <1>2, <1>4, <1>5, <1>10, <1>11, <1>12

LEMMA HeldStays ==
  ASSUME NEW t, UNCHANGED program, Unspoiled(t),
         NEW passed, NEW p2, NEW u \in DOMAIN threads, u # t, HeldFlows(passed, u),
         threads'[u] = threads[u], p2[u] = passed[u]
  PROVE  HeldFlows(p2, u)'
<1>1. StreamAfter(u - 1)' = StreamAfter(u - 1) /\ Blocks' = Blocks /\ BlockSize' = BlockSize
  BY StreamStays, ConstantsStay DEF Unspoiled
<1>2. threads[u].at = "work" =>
        /\ ~IsPoison(threads[u].block)
        /\ Carries(memory', StreamAfter(u - 1), threads[u].block, passed[u])
  BY DEF HeldFlows, Unspoiled, Carries
<1>3. threads'[u].at = "work" =>
        /\ ~IsPoison(threads'[u].block)
        /\ Carries(memory, StreamAfter(u - 1), threads[u].block, p2[u])'
  BY <1>1, <1>2 DEF Carries
<1>4. threads'[u].at \in {"poison", "ended"} => p2[u] = Len(Entries')
  BY DEF HeldFlows, Unspoiled
<1> QED  BY <1>3, <1>4 DEF HeldFlows, IsPoison

LEMMA SourceStays ==
  ASSUME NEW t, UNCHANGED program, Unspoiled(t), NEW passed, NEW p2, SourceFlows(passed),
         threads'[1] = threads[1], p2[1] = passed[1]
  PROVE  SourceFlows(p2)'
<1>1. Blocks' = Blocks /\ BlockSize' = BlockSize /\ Entries' = Entries
  BY ConstantsStay DEF Unspoiled
<1>2. threads'[1].at = "work" =>
        threads'[1].block.mem \in Blocks' /\ threads'[1].block.valid = BlockSize'
  BY <1>1 DEF SourceFlows
<1>3. IF threads'[1].at \in {"last", "poison", "ended"} THEN p2[1] = Len(Entries')
     ELSE /\ threads'[1].carry \in Seq(Int) /\ threads'[1].offset \in Nat
          /\ p2[1] + Len(threads'[1].carry) = threads'[1].offset
          /\ threads'[1].offset <= Len(Entries')
          /\ Len(threads'[1].carry) < BlockSize'
          /\ \A e \in 1 .. Len(threads'[1].carry) :
               threads'[1].carry[e] = Entries'[p2[1] + e]
          /\ threads'[1].job.kind # "LineInput" => threads'[1].carry = <<>>
  BY <1>1 DEF SourceFlows
<1> QED  BY <1>2, <1>3 DEF SourceFlows

LEMMA NotedStays ==
  ASSUME UNCHANGED program, Entries' = Entries, NEW passed, NEW p2, NEW u, Noted(passed, u),
         threads'[u] = threads[u], p2[u] = passed[u],
         HasFile(JobAt(u)) => file'[JobAt(u).file] = file[JobAt(u).file]
  PROVE  Noted(p2, u)'
<1>1. StreamAfter(u)' = StreamAfter(u)
  BY StreamStays
<1>2. JobAt(u)' = JobAt(u)
  BY DEF JobAt, Round
<1>3. JobAt(u).kind \in Writers => file'[JobAt(u).file] = file[JobAt(u).file]
  BY DEF HasFile
<1> QED  BY <1>1, <1>2, <1>3 DEF Noted, Begins, HasEnded, Writers, Appenders

-----------------------------------------------------------------------------
(* The stream in a chain *)

\* A block is given to the next, and thread t has passed on n entries more.
LEMMA GivenFlows ==
  ASSUME Busy, NEW passed, NEW pos, Flows(passed, pos),
         NEW t \in DOMAIN threads, Steps(t), Unspoiled(t),
         NEW b, NEW n \in Nat, queues' = Produced(t, b),
         threads[t].out = 1 /\ ~IsPoison(b) => b.mem \in Blocks /\ b.valid = BlockSize,
         threads[t].out # 1 => SizeOf(b) = n,
         threads[t].out # 1 /\ ~IsPoison(b) => Carries(memory', StreamAfter(t), b, passed[t]),
         t # 1 => HeldBy(t) = n,
         threads'[t].at # "work",
         NEW p2, p2 = [passed EXCEPT ![t] = passed[t] + n],
         t = 1 => SourceFlows(p2)', t # 1 => HeldFlows(p2, t)',
         \A u \in DOMAIN threads : Noted(p2, u)'
  PROVE  \E s2 : Flows(p2, s2)'
<1> DEFINE out == threads[t].out
<1>1. Linked /\ InLine /\ queues # <<>> /\ UNCHANGED program
  BY DEF Busy, AllKept, Steps
<1>2. /\ DOMAIN threads' = DOMAIN threads /\ threads' # <<>> /\ threads # <<>>
      /\ \A u \in DOMAIN threads : u # t => threads'[u] = threads[u]
  BY <1>1, LineStays DEF Steps, Becomes
<1>3. /\ DOMAIN threads = 1 .. Len(threads) /\ Len(threads) \in Nat /\ t \in Nat /\ t > 0
      /\ t <= Len(threads)
      /\ DOMAIN queues = 1 .. Len(queues) /\ Len(queues) \in Nat
      /\ Len(queues) <= Len(threads) + 1
      /\ 1 \in DOMAIN threads /\ 1 \in DOMAIN queues
      /\ out \in DOMAIN queues
      /\ out = 1 \/ out = t + 1
      /\ out = 1 => Len(queues) = t
  <2>1. /\ DOMAIN threads = 1 .. Len(threads) /\ Len(threads) \in Nat /\ t \in Nat /\ t > 0
        /\ 1 \in DOMAIN threads /\ 1 \in DOMAIN queues /\ out \in DOMAIN queues
        /\ out = IF JobAt(t).kind \in Sinks THEN 1 ELSE t + 1
        /\ JobAt(t).kind \in Sinks => t = Len(threads) /\ complete
    BY LineIs
  <2>2. /\ DOMAIN queues = 1 .. Len(queues) /\ Len(queues) \in Nat
        /\ Len(queues) <= Len(threads) + 1
        /\ Len(queues) = IF complete THEN Len(threads) ELSE Len(threads) + 1
    BY QueuesAre
  <2> HIDE DEF out
  <2> QED  BY <2>1, <2>2
<1>4. /\ passed \in [DOMAIN threads -> Nat] /\ DOMAIN pos = DOMAIN queues
      /\ FirstQueue /\ SourceFlows(passed)
      /\ \A u \in DOMAIN threads : u # 1 => HeldFlows(passed, u)
      /\ \A q \in DOMAIN queues : q # 1 => QueueFlows(passed, pos, q)
  BY <1>2 DEF Flows
<1>5. /\ p2 \in [DOMAIN threads -> Nat] /\ p2[t] = passed[t] + n
      /\ \A u \in DOMAIN threads : u # t => p2[u] = passed[u]
  BY <1>4
<1>6. /\ DOMAIN queues' = DOMAIN queues
      /\ \A q \in DOMAIN queues : q # out => queues'[q] = queues[q]
      /\ queues'[out] = Append(queues[out], b)
  <2>1. /\ DOMAIN queues' = DOMAIN queues
        /\ \A q \in DOMAIN queues : q # out => queues'[q] = queues[q]
    BY <1>1, ProducedIs
  <2>2. queues'[out] = Append(queues[out], b)
    BY <1>3 DEF Produced
  <2> QED  BY <2>1, <2>2
<1> DEFINE grown == [pos EXCEPT ![out] = Append(pos[out], passed[t])]
<1>7. PICK s2 : s2 = IF out = 1 THEN pos ELSE grown
  OBVIOUS
<1>8. /\ DOMAIN s2 = DOMAIN queues
      /\ \A q \in DOMAIN queues : q # out => s2[q] = pos[q]
      /\ out # 1 => s2[out] = Append(pos[out], passed[t])
  BY <1>3, <1>4, <1>7
<1>9. FirstQueue'
  <2> DEFINE queue == queues[1]
  <2>1. CASE out # 1
    <3>1. queues'[1] = queues[1]
      BY <2>1, <1>3, <1>6
    <3> QED  BY <3>1, <1>4, ConstantsStay DEF FirstQueue, IsPoison
  <2>2. CASE out = 1
    <3>1. IsSeq(queue)
      BY <1>1, <1>3 DEF Linked
    <3>2. queues'[1] = Append(queue, b)
      BY <2>2, <1>6
    <3> HIDE DEF queue
    <3>3. /\ DOMAIN Append(queue, b) = 1 .. (Len(queue) + 1)
          /\ \A i \in DOMAIN queue : Append(queue, b)[i] = queue[i]
          /\ Append(queue, b)[Len(queue) + 1] = b
          /\ DOMAIN queue = 1 .. Len(queue) /\ Len(queue) \in Nat
      BY <3>1, AppendIs, SeqFacts
    <3>4. ASSUME NEW i \in DOMAIN queues'[1], ~IsPoison(queues'[1][i])
          PROVE  queues'[1][i].mem \in Blocks /\ queues'[1][i].valid = BlockSize
      <4>1. CASE i \in DOMAIN queue
        BY <4>1, <3>2, <3>3, <3>4, <1>4 DEF FirstQueue, queue
      <4>2. CASE i = Len(queue) + 1
        BY <4>2, <3>2, <3>3, <3>4, <2>2
      <4> QED  BY <4>1, <4>2, <3>2, <3>3
    <3> QED  BY <3>4, ConstantsStay DEF FirstQueue, IsPoison
  <2> QED  BY <2>1, <2>2
<1>10. SourceFlows(p2)'
  <2>1. CASE t # 1
    BY <2>1, <1>1, <1>2, <1>3, <1>4, <1>5, SourceStays
  <2> QED  BY <2>1
<1>11. \A u \in DOMAIN threads : u # 1 => HeldFlows(p2, u)'
  <2> SUFFICES ASSUME NEW u \in DOMAIN threads, u # 1 PROVE HeldFlows(p2, u)'
    OBVIOUS
  <2>1. CASE u # t
    <3>1. HeldFlows(passed, u) /\ threads'[u] = threads[u] /\ p2[u] = passed[u]
      BY <2>1, <1>2, <1>4, <1>5
    <3> QED  BY <2>1, <3>1, <1>1, HeldStays
  <2> QED  BY <2>1
<1>12. \A u \in DOMAIN threads : u # t => HeldBy(u)' = HeldBy(u)
  BY <1>2 DEF HeldBy
<1>13. HeldBy(t)' = 0
  BY DEF HeldBy
<1>14. ASSUME NEW q \in DOMAIN queues, q # 1
       PROVE  QueueFlows(p2, s2, q)'
  <2>1. QueueFlows(passed, pos, q) /\ (q \in DOMAIN threads' <=> q \in DOMAIN threads)
    BY <1>2, <1>4, <1>14
  <2>2. CASE q = out
    <3>1. q = t + 1 /\ q - 1 = t /\ q # t
      BY <2>2, <1>3, <1>14
    <3>2. q \in DOMAIN threads => p2[q] + HeldBy(q)' = passed[q] + HeldBy(q)
      BY <3>1, <1>5, <1>12
    <3>3. /\ queues'[q] = Append(queues[q], b) /\ s2[q] = Append(pos[q], passed[q - 1])
          /\ p2[q - 1] = passed[q - 1] + SizeOf(b) /\ passed[q - 1] \in Nat
      BY <2>2, <3>1, <1>14, <1>4, <1>5, <1>6, <1>8
    <3>4. ~IsPoison(b) => Carries(memory', StreamAfter(q - 1), b, passed[q - 1])
      BY <2>2, <3>1, <1>14
    <3> QED  BY <2>1, <3>2, <3>3, <3>4, <1>1, QueueGrows
  <2>3. CASE q # out
    <3>1. q - 1 \in DOMAIN threads /\ q - 1 # t
      <4>1. q \in Nat /\ q > 1 /\ q <= Len(queues)
        BY <1>3, <1>14
      <4>2. q # t + 1
        <5>1. CASE out = 1
          BY <5>1, <4>1, <1>3
        <5>2. CASE out = t + 1
          BY <5>2, <2>3
        <5> QED  BY <5>1, <5>2, <1>3
      <4>3. q - 1 \in 1 .. Len(threads)
        BY <4>1, <1>3
      <4> QED  BY <4>1, <4>2, <4>3, <1>3
    <3>2. /\ queues'[q] = queues[q] /\ s2[q] = pos[q] /\ p2[q - 1] = passed[q - 1]
      BY <2>3, <3>1, <1>5, <1>6, <1>8
    <3>3. q \in DOMAIN threads => p2[q] + HeldBy(q)' = passed[q] + HeldBy(q)
      <4>1. CASE q = t
        BY <4>1, <1>5, <1>13, <1>14
      <4>2. CASE q # t
        BY <4>2, <1>5, <1>12
      <4> QED  BY <4>1, <4>2
    <3> QED  BY <2>1, <3>2, <3>3, <1>1, QueueStays
  <2> QED  BY <2>2, <2>3
<1>15. Flows(p2, s2)'
  BY <1>2, <1>5, <1>6, <1>8, <1>9, <1>10, <1>11, <1>14 DEF Flows
<1> QED  BY <1>15

\* A thread takes its next block.
LEMMA TakenFlows ==
  ASSUME Busy, NEW passed, NEW pos, Flows(passed, pos),
         NEW t \in DOMAIN threads, Steps(t), UNCHANGED <<memory, file>>,
         threads[t].at \in {"enter", "next", "last"},
         queues[t] # <<>>, queues' = [queues EXCEPT ![t] = Tail(@)],
         threads'[t].at = IF IsPoison(Head(queues[t])) \/ threads[t].at = "last"
                          THEN "poison" ELSE "work",
         threads'[t].block = Head(queues[t]), threads'[t].offset = threads[t].offset,
         threads'[t].carry = threads[t].carry
  PROVE  \E s2 : Flows(passed, s2)'
<1>1. Linked /\ InLine /\ PoisonIsLast /\ queues # <<>> /\ UNCHANGED program
  BY DEF Busy, AllKept, Steps
<1>2. /\ DOMAIN threads' = DOMAIN threads /\ threads' # <<>> /\ threads # <<>>
      /\ \A u \in DOMAIN threads : u # t => threads'[u] = threads[u]
  BY <1>1, LineStays DEF Steps, Becomes
<1>3. /\ DOMAIN threads = 1 .. Len(threads) /\ Len(threads) \in Nat /\ t \in Nat /\ t > 0
      /\ DOMAIN queues = 1 .. Len(queues) /\ Len(queues) \in Nat
      /\ Len(queues) <= Len(threads) + 1
      /\ 1 \in DOMAIN threads /\ 1 \in DOMAIN queues /\ t \in DOMAIN queues
  BY LineIs, QueuesAre
<1>4. /\ passed \in [DOMAIN threads -> Nat] /\ DOMAIN pos = DOMAIN queues
      /\ FirstQueue /\ SourceFlows(passed)
      /\ \A u \in DOMAIN threads : u # 1 => HeldFlows(passed, u)
      /\ \A u \in DOMAIN threads : Noted(passed, u)
      /\ \A q \in DOMAIN queues : q # 1 => QueueFlows(passed, pos, q)
  BY <1>2 DEF Flows
<1>5. /\ queues'[t] = Tail(queues[t]) /\ DOMAIN queues' = DOMAIN queues
      /\ \A q \in DOMAIN queues : q # t => queues'[q] = queues[q]
  BY <1>3
<1>6. Unspoiled(t) /\ Entries' = Entries
  BY <1>1 DEF Unspoiled, Entries, SourceOf, Round
<1>7. PICK s2 : s2 = IF t = 1 THEN pos ELSE [pos EXCEPT ![t] = Tail(pos[t])]
  OBVIOUS
<1>8. /\ DOMAIN s2 = DOMAIN queues
      /\ t # 1 => s2[t] = Tail(pos[t])
      /\ \A q \in DOMAIN queues : q # 1 /\ q # t => s2[q] = pos[q]
  BY <1>3, <1>4, <1>7
<1>9. /\ 1 \in DOMAIN queues[t] /\ Head(queues[t]) = queues[t][1]
      /\ \A i \in DOMAIN Tail(queues[t]) :
           i + 1 \in DOMAIN queues[t] /\ Tail(queues[t])[i] = queues[t][i + 1]
      /\ Len(queues[t]) \in Nat /\ Len(queues[t]) > 0
  <2> DEFINE queue == queues[t]
  <2>1. IsSeq(queue) /\ queue # <<>>
    BY <1>1, <1>3 DEF Linked
  <2> HIDE DEF queue
  <2>2. /\ DOMAIN Tail(queue) = 1 .. (Len(queue) - 1)
        /\ \A i \in DOMAIN Tail(queue) : Tail(queue)[i] = queue[i + 1]
        /\ Head(queue) = queue[1] /\ Len(queue) > 0
        /\ Len(queue) \in Nat /\ DOMAIN queue = 1 .. Len(queue)
    BY <2>1, TailIs, SeqFacts
  <2>3. \A i \in DOMAIN Tail(queue) : i + 1 \in DOMAIN queue
    BY <2>2
  <2>4. 1 \in DOMAIN queue
    BY <2>2
  <2> QED  BY <2>2, <2>3, <2>4 DEF queue
<1>10. FirstQueue'
  <2>1. \A i \in DOMAIN queues'[1] :
          \E j \in DOMAIN queues[1] : queues'[1][i] = queues[1][j]
    <3>1. CASE t = 1
      BY <3>1, <1>5, <1>9
    <3>2. CASE t # 1
      BY <3>2, <1>3, <1>5
    <3> QED  BY <3>1, <3>2
  <2> QED  BY <2>1, <1>4, ConstantsStay DEF FirstQueue, IsPoison
<1>11. /\ t # 1 /\ IsPoison(Head(queues[t])) =>
            Len(queues[t]) = 1 /\ \A s \in 1 .. (t - 1) : HasEnded(s)
       /\ t = 1 => ~IsPoison(Head(queues[t]))
  BY TakesLast
<1>12. threads[t].at = "last" => t = 1
  BY <1>1 DEF PoisonIsLast
<1>13. SourceFlows(passed)'
  <2>1. CASE t # 1
    BY <2>1, <1>1, <1>2, <1>3, <1>4, <1>6, SourceStays
  <2>2. CASE t = 1
    <3>1. threads'[1].block.mem \in Blocks /\ threads'[1].block.valid = BlockSize
      BY <2>2, <1>4, <1>9, <1>11 DEF FirstQueue
    <3>2. threads'[1].at = "poison" <=> threads[1].at = "last"
      BY <2>2, <1>11
    <3>3. threads'[1].job = threads[1].job
      BY <2>2 DEF Steps
    <3> QED  BY <2>2, <3>1, <3>2, <3>3, <1>4, <1>6, ConstantsStay DEF SourceFlows
  <2> QED  BY <2>1, <2>2
<1>14. \A u \in DOMAIN threads : Noted(passed, u)'
  <2>1. \A u : StreamAfter(u)' = StreamAfter(u)
    BY <1>1, <1>6, StreamStays
  <2>2. \A u : JobAt(u)' = JobAt(u)
    BY <1>1, LineStays
  <2>3. \A u \in DOMAIN threads : threads'[u].offset = threads[u].offset
                                  /\ (HasEnded(u)' <=> HasEnded(u))
    BY <1>2 DEF HasEnded
  <2> QED  BY <2>1, <2>2, <2>3, <1>4 DEF Noted, Begins
<1>15. ASSUME t # 1
       PROVE  /\ QueueFlows(passed, s2, t)' /\ HeldFlows(passed, t)'
  <2>1. QueueFlows(passed, pos, t) /\ passed[t] \in Nat /\ passed[t - 1] \in Nat
        /\ t - 1 \in DOMAIN threads
    BY <1>3, <1>4, <1>15
  <2>2. /\ ~IsPoison(queues[t][1]) =>
             Carries(memory, StreamAfter(t - 1), queues[t][1], pos[t][1])
    BY <2>1, <1>9 DEF QueueFlows
  <2>3. HeldBy(t)' = SizeOf(Head(queues[t]))
    BY <1>12, <1>15 DEF HeldBy, SizeOf
  <2>4. SizeOf(Head(queues[t])) \in Nat
    BY <2>2, <1>9 DEF SizeOf, Carries
  <2>5. HeldBy(t) = 0 /\ Linked /\ Unspoiled(t) /\ UNCHANGED program /\ queues[t] # <<>>
    BY <1>1, <1>6 DEF HeldBy
  <2>6. /\ QueueFlows(passed, s2, t)'
        /\ pos[t][1] = passed[t]
        /\ Len(queues[t]) = 1 => passed[t] + SizeOf(queues[t][1]) = passed[t - 1]
    <3>1. queues'[t] = Tail(queues[t]) /\ s2[t] = Tail(pos[t]) /\ t \in DOMAIN threads'
          /\ t \in DOMAIN queues
      BY <1>2, <1>3, <1>5, <1>8, <1>15
    <3> QED  BY <2>1, <2>3, <2>4, <2>5, <3>1, QueueShrinks, SMTT(60)
  <2>7. HeldFlows(passed, t)'
    <3>1. StreamAfter(t - 1)' = StreamAfter(t - 1)
      BY <1>1, <1>6, StreamStays
    <3>2. CASE IsPoison(Head(queues[t]))
      <4>1. Len(queues[t]) = 1 /\ HasEnded(t - 1) /\ SizeOf(queues[t][1]) = 0
        BY <3>2, <1>3, <1>9, <1>11, <1>15 DEF SizeOf
      <4>2. passed[t] = passed[t - 1]
        BY <4>1, <2>1, <2>6
      <4>3. passed[t - 1] = Len(Entries)
        <5>1. threads[t - 1].at = "ended"
          BY <4>1 DEF HasEnded
        <5> QED  BY <5>1, <2>1, <1>4 DEF HeldFlows, SourceFlows
      <4>4. threads'[t].at = "poison"
        BY <3>2
      <4> QED  BY <4>2, <4>3, <4>4, <1>6 DEF HeldFlows
    <3>3. CASE ~IsPoison(Head(queues[t]))
      <4>1. threads'[t].at = "work" /\ ~IsPoison(threads'[t].block)
        BY <3>3, <1>12, <1>15
      <4>2. Carries(memory, StreamAfter(t - 1), threads[t].block, passed[t])'
        BY <3>1, <3>3, <2>2, <2>6, <1>9, ConstantsStay DEF Carries
      <4> QED  BY <4>1, <4>2 DEF HeldFlows, IsPoison
    <3> QED  BY <3>2, <3>3
  <2> QED  BY <2>6, <2>7
<1>16. \A u \in DOMAIN threads : u # 1 => HeldFlows(passed, u)'
  <2> SUFFICES ASSUME NEW u \in DOMAIN threads, u # 1 PROVE HeldFlows(passed, u)'
    OBVIOUS
  <2>1. CASE u # t
    BY <2>1, <1>1, <1>2, <1>4, <1>6, HeldStays
  <2>2. CASE u = t
    BY <2>2, <1>15
  <2> QED  BY <2>1, <2>2
<1>17. ASSUME NEW q \in DOMAIN queues, q # 1
       PROVE  QueueFlows(passed, s2, q)'
  <2>1. CASE q = t
    BY <2>1, <1>15, <1>17
  <2>2. CASE q # t
    <3>1. /\ QueueFlows(passed, pos, q) /\ (q \in DOMAIN threads' <=> q \in DOMAIN threads)
          /\ queues'[q] = queues[q] /\ s2[q] = pos[q]
      BY <2>2, <1>2, <1>4, <1>5, <1>8, <1>17
    <3>2. q \in DOMAIN threads => HeldBy(q)' = HeldBy(q)
      BY <2>2, <1>2 DEF HeldBy
    <3> QED  BY <3>1, <3>2, <1>1, <1>6, QueueStays
  <2> QED  BY <2>1, <2>2
<1>18. Flows(passed, s2)'
  BY <1>2, <1>4, <1>5, <1>8, <1>10, <1>13, <1>14, <1>16, <1>17 DEF Flows
<1> QED  BY <1>18

-----------------------------------------------------------------------------
(* Files *)

LEMMA ProgramStays ==
  ASSUME UNCHANGED program, ProgramIsRight(program)
  PROVE  ProgramIsRight(program)'
BY DEF ProgramIsRight, RoundIsRight, HasFile, IsSeq, Sources, Sinks, Writers, Appenders

LEMMA ConfigStays == BadConfig' <=> BadConfig
BY DEF BadConfig

LEMMA FilesDiffer ==
  ASSUME Busy, NEW t \in DOMAIN threads, HasFile(JobAt(t))
  PROVE  /\ t \in DOMAIN Round /\ JobAt(t).file \in DOMAIN file
         /\ \A u \in DOMAIN threads :
              u # t /\ HasFile(JobAt(u)) => JobAt(u).file # JobAt(t).file
<1>1. RoundIsRight(Round)
  BY RoundIs DEF Busy
<1>2. \A u \in DOMAIN threads : HasFile(JobAt(u)) => u \in DOMAIN Round /\ JobAt(u) = Round[u]
  <2> SUFFICES ASSUME NEW u \in DOMAIN threads, HasFile(JobAt(u))
               PROVE  u \in DOMAIN Round /\ JobAt(u) = Round[u]
    OBVIOUS
  <2>1. u \notin DOMAIN Round => JobAt(u).kind = "Recycler"
    BY LineIs
  <2>2. JobAt(u).kind # "Recycler"
    BY DEF HasFile, Writers, Appenders
  <2> QED  BY <2>1, <2>2, LineIs
<1>3. DOMAIN file = DOMAIN Files
  BY DEF Busy, FilesAre
<1> QED  BY <1>1, <1>2, <1>3 DEF RoundIsRight

\* What is written into the file of one is not in the file of another.
LEMMA FileWritten ==
  ASSUME Busy, NEW t \in DOMAIN threads, JobAt(t).kind \in Writers,
         NEW content \in Seq(Int), file' = [file EXCEPT ![JobAt(t).file] = content],
         UNCHANGED program, Len(threads') = Len(threads)
  PROVE  /\ FilesAre' /\ NotYetWritten' /\ Entries' = Entries
         /\ file'[JobAt(t).file] = content
         /\ \A u \in DOMAIN threads :
              u # t /\ HasFile(JobAt(u)) => file'[JobAt(u).file] = file[JobAt(u).file]
<1>0. HasFile(JobAt(t))
  BY DEF HasFile
<1>1. /\ t \in DOMAIN Round /\ JobAt(t).file \in DOMAIN file /\ JobAt(t) = Round[t]
      /\ \A u \in DOMAIN threads :
           u # t /\ HasFile(JobAt(u)) => JobAt(u).file # JobAt(t).file
  BY <1>0, FilesDiffer, LineIs
<1>2. /\ DOMAIN file' = DOMAIN file /\ file'[JobAt(t).file] = content
      /\ \A f \in DOMAIN file : f # JobAt(t).file => file'[f] = file[f]
  BY <1>1
<1>3. FilesAre'
  BY <1>1, <1>2 DEF Busy, FilesAre
<1>4. ASSUME NEW u \in DOMAIN threads, u # t, HasFile(JobAt(u))
      PROVE  file'[JobAt(u).file] = file[JobAt(u).file]
  BY <1>1, <1>2, <1>4, FilesDiffer
<1>5. Entries' = Entries
  <2>1. Round' = Round /\ 1 \in DOMAIN threads /\ JobAt(1) = Round[1] /\ t # 1
        /\ Round[1].kind \in Sources
    <3>1. 1 \in DOMAIN threads /\ Len(Round) \in Nat /\ Len(Round) > 0
          /\ (JobAt(t).kind \in Sources <=> t = 1)
      BY LineIs
    <3>2. JobAt(1) = Round[1]
      BY <3>1 DEF JobAt
    <3>3. JobAt(t).kind \notin Sources
      BY DEF Sources, Writers, Appenders
    <3>4. Round' = Round
      BY DEF Round
    <3>5. Round[1].kind \in Sources
      BY <3>1, <3>2, LineIs
    <3> QED  BY <3>1, <3>2, <3>3, <3>4, <3>5
  <2>2. CASE Round[1].kind = "Stream"
    BY <2>1, <2>2 DEF Entries, SourceOf
  <2>3. CASE Round[1].kind # "Stream"
    <3>1. HasFile(JobAt(1))
      BY <2>1, <2>3 DEF HasFile, Sources
    <3>2. file'[Round[1].file] = file[Round[1].file]
      BY <3>1, <2>1, <1>4
    <3> QED  BY <2>1, <3>2 DEF Entries, SourceOf
  <2> QED  BY <2>2, <2>3
<1>6. NotYetWritten'
  <2> SUFFICES ASSUME NEW i \in DOMAIN program, NEW n \in DOMAIN program[i],
                      program[i][n].kind \in Appenders, i > 1 \/ n > Len(threads)
               PROVE  file'[program[i][n].file] = <<>>
    BY DEF NotYetWritten
  <2>1. file[program[i][n].file] = <<>>
    BY DEF Busy, NotYetWritten
  <2>2. IsSeq(program) /\ RoundIsRight(program[i]) /\ Round = program[1] /\ 1 \in DOMAIN program
    BY RoundIs DEF Busy, ProgramIsRight
  <2>3. HasFile(program[i][n])
    BY DEF HasFile, Writers
  <2>4. program[i][n].file \in DOMAIN file
    BY <2>2, <2>3 DEF RoundIsRight, Busy, FilesAre
  <2>5. i \in Nat /\ i > 0
    BY <2>2, SeqFacts
  <2>6. program[i][n].file # JobAt(t).file
    <3>1. CASE i = 1
      <4>1. n # t
        BY <3>1, LineIs
      <4> QED  BY <3>1, <4>1, <2>2, <2>3, <1>0, <1>1 DEF RoundIsRight
    <3>2. CASE i # 1
      <4>1. 1 \in 1 .. (i - 1)
        BY <3>2, <2>5
      <4>2. program[1][t].kind \in Writers /\ t \in DOMAIN program[1]
        BY <2>2, <1>1
      <4>3. program[1][t].file # program[i][n].file
        BY <4>1, <4>2 DEF Busy, ProgramIsRight
      <4> QED  BY <4>3, <2>2, <1>1
    <3> QED  BY <3>1, <3>2
  <2> QED  BY <2>1, <2>4, <2>6, <1>2
<1> QED  BY <1>2, <1>3, <1>4, <1>5, <1>6

LEMMA FilesStay ==
  ASSUME Busy, UNCHANGED <<file, program>>, Len(threads') = Len(threads)
  PROVE  FilesAre' /\ NotYetWritten' /\ Entries' = Entries
BY DEF Busy, FilesAre, NotYetWritten, Entries, SourceOf, Round

\* What is in the block of thread t.
LEMMA EntriesOfAre ==
  ASSUME Busy, NEW t, NEW stream, NEW from, Carries(memory, stream, threads[t].block, from)
  PROVE  /\ EntriesOf(t) \in Seq(Int)
         /\ Len(EntriesOf(t)) = threads[t].block.valid /\ threads[t].block.valid \in Nat
         /\ \A e \in 1 .. threads[t].block.valid :
              /\ EntriesOf(t)[e] = stream[from + e]
              /\ EntriesOf(t)[e] = memory[threads[t].block.mem][e]
              /\ EntriesOf(t)[e] \in Int
<1> DEFINE content == memory[threads[t].block.mem]
           valid == threads[t].block.valid
<1>1. content \in Seq(Int) /\ Len(content) = BlockSize /\ valid \in Nat /\ valid <= BlockSize
      /\ \A e \in 1 .. valid : content[e] = stream[from + e]
  BY DEF Busy, MemoryIs, Carries
<1>2. EntriesOf(t) = SubSeq(content, 1, valid)
  BY DEF EntriesOf
<1> HIDE DEF content, valid
<1>3. /\ SubSeq(content, 1, valid) \in Seq(Int) /\ Len(SubSeq(content, 1, valid)) = valid
      /\ \A e \in 1 .. valid : SubSeq(content, 1, valid)[e] = content[e] /\ content[e] \in Int
  <2>0. Len(content) \in Nat
    BY <1>1
  <2>1. \A e \in 1 .. valid : content[e] \in Int
    BY <1>1, <2>0
  <2> QED  BY <1>1, <2>1, SubSeqProperties
<1> QED  BY <1>1, <1>2, <1>3 DEF content, valid

-----------------------------------------------------------------------------
(* Workers that use what is in the blocks *)

LEMMA BusyStays ==
  ASSUME Busy, NEW t \in DOMAIN threads, Steps(t), AllKept', PoisonIsLast',
         FilesAre', MemoryIs', NotYetWritten'
  PROVE  Busy'
<1>1. InLine' /\ queues' # <<>>
  BY LineStays DEF Busy, AllKept
<1>2. ProgramIsRight(program)' /\ program' # <<>> /\ ~BadConfig'
  BY ProgramStays, ConfigStays DEF Busy, Steps
<1> QED  BY <1>1, <1>2 DEF Busy

\* A worker that uses what is in its block passes the entries on, changed or not.
LEMMA UserGives ==
  ASSUME Busy, NEW passed, NEW pos, Flows(passed, pos),
         NEW t \in DOMAIN threads, t # 1, threads[t].at = "work", Steps(t), AllKept',
         MemoryIs', FilesAre', NotYetWritten', Unspoiled(t),
         NEW b, queues' = Produced(t, b), b.mem = threads[t].block.mem,
         threads[t].out = 1 => b.valid = BlockSize,
         threads[t].out # 1 =>
           /\ b.valid = threads[t].block.valid
           /\ \A e \in 1 .. b.valid :
                memory'[b.mem][e] = memory[b.mem][e] + (IF JobAt(t).kind = "Change" THEN 1 ELSE 0),
         threads'[t].at = "next",
         \A u \in DOMAIN threads :
           u # t /\ HasFile(JobAt(u)) => file'[JobAt(u).file] = file[JobAt(u).file],
         \A p2 : p2 = [passed EXCEPT ![t] = passed[t] + threads[t].block.valid]
                   => Noted(p2, t)'
  PROVE  Flowing'
<1> DEFINE n == threads[t].block.valid
<1>1. Linked /\ InLine /\ queues # <<>> /\ UNCHANGED program /\ threads # <<>>
      /\ ProgramIsRight(program) /\ program # <<>> /\ FilesAre
  BY DEF Busy, AllKept, Steps, InLine
<1>2. /\ passed \in [DOMAIN threads -> Nat] /\ HeldFlows(passed, t)
      /\ \A u \in DOMAIN threads : Noted(passed, u)
  BY <1>1 DEF Flows
<1>3. /\ ~IsPoison(threads[t].block)
      /\ Carries(memory, StreamAfter(t - 1), threads[t].block, passed[t])
  BY <1>2 DEF HeldFlows
<1>4. n \in Nat /\ b.mem \in Blocks /\ ~IsPoison(b) /\ HeldBy(t) = n
  BY <1>3 DEF Carries, IsPoison, HeldBy
<1>5. threads[t].out # 1 => SizeOf(b) = n /\ Carries(memory', StreamAfter(t), b, passed[t])
  <2> SUFFICES ASSUME threads[t].out # 1
               PROVE  SizeOf(b) = n /\ Carries(memory', StreamAfter(t), b, passed[t])
    OBVIOUS
  <2>1. t \in DOMAIN Round /\ JobAt(t) = Round[t]
    BY LineIs
  <2>2. /\ Len(StreamAfter(t)) = Len(Entries) /\ Len(Entries) \in Nat
        /\ \A e \in 1 .. Len(Entries) : StreamAfter(t)[e] =
             StreamAfter(t - 1)[e] + (IF Round[t].kind = "Change" THEN 1 ELSE 0)
    BY <1>1, <2>1, StreamIs, EntriesAre
  <2>3. /\ n <= BlockSize /\ passed[t] + n <= Len(StreamAfter(t - 1))
        /\ \A e \in 1 .. n : memory[b.mem][e] = StreamAfter(t - 1)[passed[t] + e]
    BY <1>3 DEF Carries
  <2>4. Len(StreamAfter(t - 1)) = Len(Entries)
    <3>1. t - 1 \in DOMAIN Round
      <4>1. t \in Nat /\ t > 0 /\ DOMAIN Round = 1 .. Len(Round) /\ Len(Round) \in Nat
        BY LineIs
      <4> QED  BY <2>1, <4>1
    <3> QED  BY <1>1, <3>1, StreamIs
  <2>5. passed[t] \in Nat /\ b.valid = n
    BY <1>2
  <2>6. \A e \in 1 .. n : memory'[b.mem][e] = StreamAfter(t)[passed[t] + e]
    <3> SUFFICES ASSUME NEW e \in 1 .. n
                 PROVE  memory'[b.mem][e] = StreamAfter(t)[passed[t] + e]
      OBVIOUS
    <3> HIDE DEF n
    <3>1. passed[t] + e \in 1 .. Len(Entries)
      BY <1>4, <2>2, <2>3, <2>4, <2>5
    <3> QED  BY <2>1, <2>2, <2>3, <2>5, <3>1
  <2> QED  BY <1>4, <2>2, <2>3, <2>4, <2>5, <2>6 DEF Carries, SizeOf
<1> HIDE DEF n
<1>6. PICK p2 : p2 = [passed EXCEPT ![t] = passed[t] + n]
  OBVIOUS
<1>7. \A u \in DOMAIN threads : Noted(p2, u)'
  <2> SUFFICES ASSUME NEW u \in DOMAIN threads PROVE Noted(p2, u)'
    OBVIOUS
  <2>1. CASE u = t
    BY <2>1, <1>6 DEF n
  <2>2. CASE u # t
    <3>1. threads'[u] = threads[u] /\ p2[u] = passed[u]
      BY <2>2, <1>2, <1>6 DEF Steps, Becomes
    <3>2. HasFile(JobAt(u)) => file'[JobAt(u).file] = file[JobAt(u).file]
      BY <2>2
    <3>3. Entries' = Entries
      BY DEF Unspoiled
    <3> QED  BY <3>1, <3>2, <3>3, <1>1, <1>2, NotedStays
  <2> QED  BY <2>1, <2>2
<1>8. HeldFlows(p2, t)'
  BY DEF HeldFlows
<1>9. \E s2 : Flows(p2, s2)'
  BY <1>4, <1>5, <1>6, <1>7, <1>8, GivenFlows
<1>10. PoisonIsLast'
  BY <1>4, GivesNoPoison
<1>11. Busy'
  BY <1>10, BusyStays
<1> QED  BY <1>9, <1>11 DEF Flowing

LEMMA UserIs ==
  ASSUME Busy, NEW passed, NEW pos, Flows(passed, pos), NEW t, NEW kinds,
         Working(t, kinds), kinds \intersect Sources = {}
  PROVE  /\ t \in DOMAIN threads /\ t # 1 /\ threads[t].at = "work"
         /\ threads[t].job = JobAt(t) /\ JobAt(t).kind \in kinds
         /\ threads[t].out = 1 <=> JobAt(t).kind \in Sinks
         /\ passed \in [DOMAIN threads -> Nat] /\ Noted(passed, t)
         /\ ~IsPoison(threads[t].block) /\ threads[t].block.mem \in Blocks
         /\ Carries(memory, StreamAfter(t - 1), threads[t].block, passed[t])
         /\ Linked /\ IsBlock(threads[t].block) /\ IsLink(threads[t])
         /\ JobAt(t).kind # "Change" /\ t \in DOMAIN Round =>
              \A e \in 1 .. Len(Entries) : StreamAfter(t)[e] = StreamAfter(t - 1)[e]
<1>1. t \in DOMAIN threads /\ threads[t].at = "work" /\ threads[t].job.kind \in kinds
  BY DEF Working, Running
<1>2. /\ threads[t].job = JobAt(t) /\ t \in Nat /\ t > 0
      /\ JobAt(t).kind \in Sources <=> t = 1
      /\ threads[t].out = IF JobAt(t).kind \in Sinks THEN 1 ELSE t + 1
      /\ t \in DOMAIN Round => JobAt(t) = Round[t]
  BY <1>1, LineIs
<1>3. t # 1 /\ JobAt(t).kind \in kinds
  BY <1>1, <1>2
<1>4. passed \in [DOMAIN threads -> Nat] /\ Noted(passed, t) /\ HeldFlows(passed, t)
  BY <1>1, <1>3 DEF Flows
<1>5. /\ ~IsPoison(threads[t].block) /\ threads[t].block.mem \in Blocks
      /\ Carries(memory, StreamAfter(t - 1), threads[t].block, passed[t])
  BY <1>1, <1>4 DEF HeldFlows, Carries
<1>6. Linked /\ IsBlock(threads[t].block) /\ IsLink(threads[t])
  BY <1>1 DEF Busy, AllKept, Linked
<1>7. threads[t].out = 1 <=> JobAt(t).kind \in Sinks
  BY <1>2
<1>8. ASSUME JobAt(t).kind # "Change", t \in DOMAIN Round
      PROVE  \A e \in 1 .. Len(Entries) : StreamAfter(t)[e] = StreamAfter(t - 1)[e]
  <2>1. ProgramIsRight(program) /\ program # <<>> /\ FilesAre /\ RoundIsRight(Round)
    BY RoundIs DEF Busy
  <2>2. \A e \in 1 .. Len(Entries) : StreamAfter(t)[e] = StreamAfter(t - 1)[e] + 0
    BY <2>1, <1>2, <1>3, <1>8, StreamIs
  <2>3. t - 1 \in DOMAIN Round
    <3>1. DOMAIN Round = 1 .. Len(Round) /\ Len(Round) \in Nat
      BY <2>1, RoundIs
    <3> QED  BY <3>1, <1>2, <1>3, <1>8
  <2>4. StreamAfter(t - 1) \in Seq(Int) /\ Len(StreamAfter(t - 1)) = Len(Entries)
    BY <2>1, <2>3, StreamIs
  <2>5. \A e \in 1 .. Len(Entries) : StreamAfter(t - 1)[e] \in Int
    BY <2>4
  <2> QED  BY <2>2, <2>5
<1> QED  BY <1>1, <1>2, <1>3, <1>4, <1>5, <1>6, <1>7, <1>8

\* Changing its own block, or none, thread t spoils nothing.
LEMMA NothingSpoiled ==
  ASSUME Busy, NEW passed, NEW pos, Flows(passed, pos), NEW t \in DOMAIN threads,
         threads[t].at = "work", ~IsPoison(threads[t].block), Entries' = Entries,
         \A c \in Blocks : c # threads[t].block.mem => memory'[c] = memory[c]
  PROVE  Unspoiled(t)
<1>1. NoneIsDoubled /\ threads # <<>>
  BY DEF Busy, AllKept, InLine
<1>2. /\ \A q \in DOMAIN queues : \A i \in DOMAIN queues[q] :
           ~IsPoison(queues[q][i]) => queues[q][i].mem # threads[t].block.mem
      /\ \A u \in DOMAIN threads :
           u # t /\ threads[u].at = "work" => threads[u].block.mem # threads[t].block.mem
  BY <1>1, OtherMemory
<1>3. \A q \in DOMAIN queues : \A i \in DOMAIN queues[q] :
        ~IsPoison(queues[q][i]) => queues[q][i].mem \in Blocks
  <2> SUFFICES ASSUME NEW q \in DOMAIN queues, NEW i \in DOMAIN queues[q],
                      ~IsPoison(queues[q][i])
               PROVE  queues[q][i].mem \in Blocks
    OBVIOUS
  <2>1. CASE q = 1
    BY <2>1, <1>1 DEF Flows, FirstQueue
  <2>2. CASE q # 1
    BY <2>2 DEF Flows, QueueFlows, Carries
  <2> QED  BY <2>1, <2>2
<1>4. \A u \in DOMAIN threads : threads[u].at = "work" => threads[u].block.mem \in Blocks
  <2> SUFFICES ASSUME NEW u \in DOMAIN threads, threads[u].at = "work"
               PROVE  threads[u].block.mem \in Blocks
    OBVIOUS
  <2>1. CASE u = 1
    BY <2>1, <1>1 DEF Flows, SourceFlows
  <2>2. CASE u # 1
    BY <2>2 DEF Flows, HeldFlows, Carries
  <2> QED  BY <2>1, <2>2
<1> QED  BY <1>2, <1>3, <1>4 DEF Unspoiled

LEMMA ChangeStreamFlows ==
  ASSUME Busy, NEW passed, NEW pos, Flows(passed, pos), NEW t, ChangeStream(t), AllKept'
  PROVE  Flowing'
<1> DEFINE block == threads[t].block
           b == [block EXCEPT !.valid = block.valid]
           changed == [n \in DOMAIN EntriesOf(t) |-> EntriesOf(t)[n] + 1]
<1>0. {"Change"} \intersect Sources = {} /\ "Change" \notin Sinks
      /\ "Change" \notin Writers /\ "Change" \notin Appenders
  BY DEF Sources, Sinks, Writers, Appenders
<1>1. /\ Working(t, {"Change"}) /\ UNCHANGED <<program, file, complete, main>>
      /\ queues' = Produced(t, b)
      /\ threads' = [threads EXCEPT ![t].at = "next", ![t].block.mem = NoMemory]
      /\ memory' = WithEntries(t, changed)
  BY DEF ChangeStream, PassOn
<1>2. /\ t \in DOMAIN threads /\ t # 1 /\ threads[t].at = "work"
      /\ threads[t].job = JobAt(t) /\ JobAt(t).kind = "Change"
      /\ threads[t].out # 1 /\ Linked /\ IsBlock(block)
      /\ ~IsPoison(block) /\ block.mem \in Blocks
      /\ Carries(memory, StreamAfter(t - 1), block, passed[t])
      /\ Noted(passed, t)
  BY <1>0, <1>1, UserIs
<1>3. /\ Becomes(t, "next") /\ threads'[t].job = threads[t].job /\ threads'[t].at = "next"
  <2>1. threads' = [threads EXCEPT ![t].at = "next", ![t].block.mem = NoMemory]
    BY <1>1
  <2>2. Linked /\ t \in DOMAIN threads /\ IsLink(threads[t])
    BY <1>2 DEF Linked
  <2>3. Becomes(t, "next")
    BY <2>1, <2>2, GivesPlain
  <2>4. threads'[t].job = threads[t].job /\ threads'[t].at = "next"
    BY <2>1, <2>2 DEF IsLink, LinkFields
  <2> QED  BY <2>3, <2>4
<1>4. IsSeq(queues') /\ DOMAIN queues' = DOMAIN queues
  BY <1>1, <1>2, ProducedIs
<1>5. Steps(t)
  BY <1>1, <1>3, <1>4 DEF Steps
<1>6. /\ b.mem = block.mem /\ b.valid = block.valid
  BY <1>2 DEF IsBlock
<1>7. Len(threads') = Len(threads)
  BY <1>5, <1>2, LineStays DEF Busy
<1>8. /\ FilesAre' /\ NotYetWritten' /\ Entries' = Entries
  BY <1>1, <1>7, FilesStay
<1>9. /\ changed \in Seq(Int) /\ Len(changed) = block.valid /\ block.valid <= BlockSize
      /\ block.valid \in Nat
      /\ \A e \in 1 .. block.valid : changed[e] = memory[block.mem][e] + 1
  <2> DEFINE es == EntriesOf(t)
             valid == threads[t].block.valid
  <2>1. es \in Seq(Int) /\ Len(es) = valid /\ valid \in Nat
        /\ \A e \in 1 .. valid : es[e] = memory[block.mem][e] /\ es[e] \in Int
    BY <1>2, EntriesOfAre
  <2>2. changed = [n \in DOMAIN es |-> es[n] + 1] /\ valid <= BlockSize
    BY <1>2 DEF Carries
  <2> HIDE DEF es, valid, changed, block
  <2>3. DOMAIN es = 1 .. valid
    BY <2>1
  <2>4. \A n \in 1 .. valid : es[n] + 1 \in Int
    BY <2>1
  <2>5. changed \in Seq(Int) /\ Len(changed) = valid
    BY <2>1, <2>2, <2>3, <2>4
  <2> QED  BY <2>1, <2>2, <2>3, <2>5 DEF block, valid
<1> HIDE DEF changed
<1>10. /\ MemoryIs' /\ \A e \in 1 .. block.valid : memory'[block.mem][e] = changed[e]
       /\ \A c \in Blocks : c # block.mem => memory'[c] = memory[c]
  <2>1. MemoryIs /\ BlockSize \in Nat
    BY BlockSizeIs DEF Busy
  <2>2. memory' = [memory EXCEPT ![block.mem] =
                     changed \o SubSeq(@, Len(changed) + 1, BlockSize)]
    BY <1>1 DEF WithEntries
  <2>3. block.mem \in Blocks /\ changed \in Seq(Int) /\ Len(changed) <= BlockSize
    BY <1>2, <1>9
  <2> HIDE DEF block
  <2>4. /\ MemoryIs' /\ \A e \in 1 .. Len(changed) : memory'[block.mem][e] = changed[e]
        /\ \A c \in Blocks : c # block.mem => memory'[c] = memory[c]
    BY <2>1, <2>2, <2>3, PutIs
  <2> QED  BY <2>4, <1>9
<1>11. Unspoiled(t)
  BY <1>2, <1>8, <1>10, NothingSpoiled
<1>12. \A e \in 1 .. b.valid :
         memory'[b.mem][e] = memory[b.mem][e] + (IF JobAt(t).kind = "Change" THEN 1 ELSE 0)
  BY <1>2, <1>6, <1>9, <1>10
<1>13. ASSUME NEW p2
       PROVE  Noted(p2, t)'
  <2>1. JobAt(t)' = JobAt(t)
    BY <1>5, <1>2, LineStays DEF Busy
  <2> QED  BY <2>1, <1>0, <1>2 DEF Noted
<1>14. \A u \in DOMAIN threads :
         u # t /\ HasFile(JobAt(u)) => file'[JobAt(u).file] = file[JobAt(u).file]
  BY <1>1
<1> HIDE DEF b
<1> QED  BY <1>1, <1>2, <1>3, <1>5, <1>6, <1>8, <1>10, <1>11, <1>12, <1>13, <1>14, UserGives

\* A worker that leaves the entries as they are writes them, or counts them.
LEMMA PlainUser ==
  ASSUME Busy, NEW passed, NEW pos, Flows(passed, pos), NEW t, NEW kinds,
         Working(t, kinds), kinds \intersect Sources = {}, "Change" \notin kinds, AllKept',
         UNCHANGED <<program, memory, complete, main>>,
         NEW b, queues' = Produced(t, b), b.mem = threads[t].block.mem,
         b.valid = IF JobAt(t).kind \in Sinks THEN BlockSize ELSE threads[t].block.valid,
         NEW offset,
         \/ threads' = [threads EXCEPT ![t].at = "next", ![t].block.mem = NoMemory,
                                       ![t].offset = offset]
         \/ /\ threads' = [threads EXCEPT ![t].at = "next", ![t].block.mem = NoMemory]
            /\ offset = threads[t].offset,
         \/ UNCHANGED file
         \/ /\ JobAt(t).kind \in Writers
            /\ \E content \in Seq(Int) : file' = [file EXCEPT ![JobAt(t).file] = content],
         NEW n, n = passed[t] + threads[t].block.valid,
         JobAt(t).kind \in Writers => Begins(file'[JobAt(t).file], StreamAfter(t), n),
         JobAt(t).kind \in Appenders => Len(file'[JobAt(t).file]) = n,
         JobAt(t).kind \in {"PWriteAndRecycle", "CountRecords"} => offset = n
  PROVE  Flowing'
<1>1. /\ t \in DOMAIN threads /\ t # 1 /\ threads[t].at = "work"
      /\ threads[t].job = JobAt(t) /\ JobAt(t).kind \in kinds
      /\ threads[t].out = 1 <=> JobAt(t).kind \in Sinks
      /\ Linked /\ ~IsPoison(threads[t].block) /\ threads[t].block.mem \in Blocks
      /\ Carries(memory, StreamAfter(t - 1), threads[t].block, passed[t])
      /\ passed \in [DOMAIN threads -> Nat]
  BY UserIs
<1>2. /\ Becomes(t, "next") /\ threads'[t].job = threads[t].job /\ threads'[t].at = "next"
      /\ threads'[t].offset = offset
  <2>1. IsLink(threads[t]) /\ Linked /\ t \in DOMAIN threads
    BY UserIs
  <2>2. CASE threads' = [threads EXCEPT ![t].at = "next", ![t].block.mem = NoMemory,
                                        ![t].offset = offset]
    BY <2>1, <2>2, GivesOn DEF IsLink, LinkFields
  <2>3. CASE /\ threads' = [threads EXCEPT ![t].at = "next", ![t].block.mem = NoMemory]
             /\ offset = threads[t].offset
    BY <2>1, <2>3, GivesPlain DEF IsLink, LinkFields
  <2> QED  BY <2>2, <2>3
<1>3. IsSeq(queues') /\ DOMAIN queues' = DOMAIN queues
  BY <1>1, ProducedIs
<1>4. Steps(t)
  BY <1>2, <1>3 DEF Steps
<1>5. Len(threads') = Len(threads) /\ \A u : JobAt(u)' = JobAt(u)
  BY <1>1, <1>4, LineStays DEF Busy
<1>6. /\ FilesAre' /\ NotYetWritten' /\ Entries' = Entries
      /\ \A u \in DOMAIN threads :
           u # t /\ HasFile(JobAt(u)) => file'[JobAt(u).file] = file[JobAt(u).file]
  <2>1. CASE UNCHANGED file
    BY <2>1, <1>5, FilesStay
  <2>2. CASE /\ JobAt(t).kind \in Writers
             /\ \E content \in Seq(Int) : file' = [file EXCEPT ![JobAt(t).file] = content]
    <3>1. PICK content \in Seq(Int) : file' = [file EXCEPT ![JobAt(t).file] = content]
      BY <2>2
    <3> QED  BY <2>2, <3>1, <1>1, <1>5, FileWritten
  <2> QED  BY <2>1, <2>2
<1>7. Unspoiled(t)
  BY <1>1, <1>6, NothingSpoiled
<1>8. MemoryIs'
  BY ConstantsStay DEF Busy, MemoryIs
<1>9. ASSUME NEW p2, p2 = [passed EXCEPT ![t] = passed[t] + threads[t].block.valid]
      PROVE  Noted(p2, t)'
  <2>1. p2[t] = n
    BY <1>1, <1>9
  <2>2. StreamAfter(t)' = StreamAfter(t)
    BY <1>6, StreamStays
  <2>3. ~HasEnded(t)'
    BY <1>2 DEF HasEnded
  <2> QED  BY <2>1, <2>2, <2>3, <1>2, <1>5 DEF Noted, Begins
<1>10. threads[t].out # 1 =>
         /\ b.valid = threads[t].block.valid
         /\ \A e \in 1 .. b.valid :
              memory'[b.mem][e] = memory[b.mem][e] + (IF JobAt(t).kind = "Change" THEN 1 ELSE 0)
  <2> SUFFICES ASSUME threads[t].out # 1
               PROVE  \A e \in 1 .. b.valid :
                        memory'[b.mem][e] =
                          memory[b.mem][e] + (IF JobAt(t).kind = "Change" THEN 1 ELSE 0)
    BY <1>1
  <2>1. JobAt(t).kind # "Change" /\ b.valid = threads[t].block.valid
    BY <1>1
  <2>2. \A e \in 1 .. b.valid : memory[b.mem][e] \in Int
    BY <2>1, <1>1, EntriesOfAre
  <2> QED  BY <2>1, <2>2
<1> QED  BY <1>1, <1>2, <1>4, <1>6, <1>7, <1>8, <1>9, <1>10, UserGives

LEMMA CountRecordsFlows ==
  ASSUME Busy, NEW passed, NEW pos, Flows(passed, pos), NEW t, CountRecords(t), AllKept'
  PROVE  Flowing'
<1> DEFINE kinds == {"CountRecords"}
           offset == threads[t].offset + threads[t].block.valid
<1>0. /\ kinds \intersect Sources = {} /\ "Change" \notin kinds
      /\ \A kind \in kinds : kind \notin Sinks /\ kind \notin Writers /\ kind \notin Appenders
  BY DEF Sources, Sinks, Writers, Appenders
<1>1. /\ Working(t, kinds) /\ UNCHANGED <<program, file, memory, complete, main>>
      /\ queues' = Produced(t, threads[t].block)
      /\ threads' = [threads EXCEPT ![t].at = "next", ![t].block.mem = NoMemory,
                                    ![t].offset = offset]
  BY DEF CountRecords
<1>2. JobAt(t).kind \in kinds /\ Noted(passed, t)
  BY <1>0, <1>1, UserIs
<1>3. threads[t].offset = passed[t]
  BY <1>2 DEF Noted
<1>4. offset = passed[t] + threads[t].block.valid
  BY <1>3
<1>5. JobAt(t).kind \notin Sinks /\ JobAt(t).kind \notin Writers /\ JobAt(t).kind \notin Appenders
  BY <1>0, <1>2
<1> HIDE DEF kinds, offset
<1> QED  BY <1>0, <1>1, <1>4, <1>5, PlainUser

LEMMA RecycleFlows ==
  ASSUME Busy, NEW passed, NEW pos, Flows(passed, pos), NEW t, Recycle(t), AllKept'
  PROVE  Flowing'
<1> DEFINE kinds == {"Recycler"}
           b == [threads[t].block EXCEPT !.valid = BlockSize]
<1>0. /\ kinds \intersect Sources = {} /\ "Change" \notin kinds
      /\ \A kind \in kinds : /\ kind \in Sinks /\ kind \notin Writers /\ kind \notin Appenders
                             /\ kind \notin {"PWriteAndRecycle", "CountRecords"}
  BY DEF Sources, Sinks, Writers, Appenders
<1>1. /\ Working(t, kinds) /\ UNCHANGED <<program, file, memory, complete, main>>
      /\ queues' = Produced(t, b)
      /\ threads' = [threads EXCEPT ![t].at = "next", ![t].block.mem = NoMemory]
  BY DEF Recycle, PassOn
<1>2. JobAt(t).kind \in kinds /\ IsBlock(threads[t].block)
  BY <1>0, <1>1, UserIs
<1>3. b.mem = threads[t].block.mem /\ b.valid = BlockSize
  BY <1>2 DEF IsBlock
<1>4. /\ JobAt(t).kind \in Sinks /\ JobAt(t).kind \notin Writers /\ JobAt(t).kind \notin Appenders
      /\ JobAt(t).kind \notin {"PWriteAndRecycle", "CountRecords"}
  BY <1>0, <1>2
<1> HIDE DEF kinds, b
<1> QED  BY <1>0, <1>1, <1>3, <1>4, PlainUser

\* What a writer has in its block follows what its file begins with.
LEMMA WrittenOn ==
  ASSUME Busy, NEW passed, NEW pos, Flows(passed, pos), NEW t, NEW kinds,
         Working(t, kinds), kinds \subseteq Writers
  PROVE  /\ file[JobAt(t).file] \in Seq(Int) /\ EntriesOf(t) \in Seq(Int)
         /\ passed[t] \in Nat /\ passed[t] <= Len(file[JobAt(t).file])
         /\ Len(EntriesOf(t)) = threads[t].block.valid /\ threads[t].block.valid \in Nat
         /\ \A e \in 1 .. passed[t] : file[JobAt(t).file][e] = StreamAfter(t)[e]
         /\ \A e \in 1 .. threads[t].block.valid :
              EntriesOf(t)[e] = StreamAfter(t)[passed[t] + e]
<1>0. kinds \intersect Sources = {} /\ "Change" \notin kinds
  BY DEF Sources, Writers, Appenders
<1>1. /\ t \in DOMAIN threads /\ JobAt(t).kind \in kinds /\ JobAt(t).kind # "Change"
      /\ passed \in [DOMAIN threads -> Nat] /\ Noted(passed, t) /\ t # 1
      /\ Carries(memory, StreamAfter(t - 1), threads[t].block, passed[t])
      /\ JobAt(t).kind # "Change" /\ t \in DOMAIN Round =>
           \A e \in 1 .. Len(Entries) : StreamAfter(t)[e] = StreamAfter(t - 1)[e]
  BY <1>0, UserIs
<1>2. HasFile(JobAt(t)) /\ JobAt(t).kind \in Writers
  BY <1>1 DEF HasFile
<1>3. t \in DOMAIN Round /\ JobAt(t).file \in DOMAIN file
  BY <1>1, <1>2, FilesDiffer
<1>4. file[JobAt(t).file] \in Seq(Int)
  BY <1>3 DEF Busy, FilesAre
<1>5. Begins(file[JobAt(t).file], StreamAfter(t), passed[t])
  BY <1>1, <1>2 DEF Noted
<1>6. /\ EntriesOf(t) \in Seq(Int) /\ Len(EntriesOf(t)) = threads[t].block.valid
      /\ threads[t].block.valid \in Nat
      /\ \A e \in 1 .. threads[t].block.valid :
           EntriesOf(t)[e] = StreamAfter(t - 1)[passed[t] + e]
  <2>1. Carries(memory, StreamAfter(t - 1), threads[t].block, passed[t])
    BY <1>1
  <2>2. EntriesOf(t) \in Seq(Int) /\ threads[t].block.valid \in Nat
    BY <2>1, EntriesOfAre
  <2>3. Len(EntriesOf(t)) = threads[t].block.valid
    BY <2>1, EntriesOfAre
  <2>4. \A e \in 1 .. threads[t].block.valid :
          EntriesOf(t)[e] = StreamAfter(t - 1)[passed[t] + e]
    <3>1. PICK stream, from : stream = StreamAfter(t - 1) /\ from = passed[t]
      OBVIOUS
    <3>2. Carries(memory, stream, threads[t].block, from)
      BY <2>1, <3>1
    <3>3. \A e \in 1 .. threads[t].block.valid : EntriesOf(t)[e] = stream[from + e]
      BY <3>2, EntriesOfAre
    <3> QED  BY <3>1, <3>3
  <2> QED  BY <2>2, <2>3, <2>4
<1>7. Len(StreamAfter(t - 1)) = Len(Entries) /\ Len(Entries) \in Nat
  <2>1. ProgramIsRight(program) /\ program # <<>> /\ FilesAre
    BY DEF Busy
  <2>2. t - 1 \in DOMAIN Round
    <3>1. DOMAIN Round = 1 .. Len(Round) /\ Len(Round) \in Nat /\ t \in Nat /\ t > 0
      BY <1>1, LineIs
    <3> QED  BY <3>1, <1>1, <1>3
  <2> QED  BY <2>1, <2>2, StreamIs, EntriesAre
<1>8. passed[t] + threads[t].block.valid <= Len(Entries) /\ passed[t] \in Nat
  BY <1>1, <1>7 DEF Carries
<1>9. \A e \in 1 .. threads[t].block.valid :
        EntriesOf(t)[e] = StreamAfter(t)[passed[t] + e]
  <2> SUFFICES ASSUME NEW e \in 1 .. threads[t].block.valid
               PROVE  EntriesOf(t)[e] = StreamAfter(t)[passed[t] + e]
    OBVIOUS
  <2>1. passed[t] + e \in 1 .. Len(Entries)
    BY <1>6, <1>7, <1>8
  <2> QED  BY <2>1, <1>1, <1>3, <1>6
<1> QED  BY <1>4, <1>5, <1>6, <1>8, <1>9 DEF Begins

\* What is written after the first entries of a stream.
LEMMA WrittenAfter ==
  ASSUME NEW stream, NEW head \in Seq(Int), NEW es \in Seq(Int),
         \A e \in 1 .. Len(head) : head[e] = stream[e],
         \A e \in 1 .. Len(es) : es[e] = stream[Len(head) + e]
  PROVE  /\ head \o es \in Seq(Int) /\ Len(head \o es) = Len(head) + Len(es)
         /\ Begins(head \o es, stream, Len(head) + Len(es))
<1> DEFINE both == head \o es
<1>1. /\ both \in Seq(Int) /\ Len(both) = Len(head) + Len(es)
      /\ \A e \in 1 .. Len(head) : both[e] = head[e]
      /\ \A e \in 1 .. Len(es) : both[Len(head) + e] = es[e]
  BY ConcatenationIs
<1> HIDE DEF both
<1>2. \A e \in 1 .. Len(both) : both[e] = stream[e]
  <2> SUFFICES ASSUME NEW e \in 1 .. Len(both) PROVE both[e] = stream[e]
    OBVIOUS
  <2>0. Len(head) \in Nat /\ Len(es) \in Nat
    OBVIOUS
  <2>1. CASE e <= Len(head)
    BY <2>0, <2>1, <1>1
  <2>2. CASE e > Len(head)
    <3>1. e - Len(head) \in 1 .. Len(es) /\ Len(head) + (e - Len(head)) = e
      BY <2>0, <2>2, <1>1
    <3> QED  BY <3>1, <1>1
  <2> QED  BY <2>0, <2>1, <2>2, <1>1
<1>3. Begins(both, stream, Len(both))
  BY <1>1, <1>2 DEF Begins
<1> QED  BY <1>1, <1>3 DEF both

LEMMA BeginsStill ==
  ASSUME NEW stream, NEW n, NEW begin \in Seq(Int), NEW rest \in Seq(Int),
         Begins(begin, stream, n), n \in Nat
  PROVE  begin \o rest \in Seq(Int) /\ Begins(begin \o rest, stream, n)
<1> DEFINE both == begin \o rest
<1>1. /\ both \in Seq(Int) /\ Len(both) = Len(begin) + Len(rest)
      /\ \A e \in 1 .. Len(begin) : both[e] = begin[e]
  BY ConcatenationIs
<1>2. Len(begin) \in Nat /\ Len(rest) \in Nat
  OBVIOUS
<1> HIDE DEF both
<1>3. n <= Len(both) /\ \A e \in 1 .. n : both[e] = stream[e]
  BY <1>1, <1>2 DEF Begins
<1> QED  BY <1>1, <1>3 DEF Begins, both

LEMMA WriteFlows ==
  ASSUME Busy, NEW passed, NEW pos, Flows(passed, pos), NEW t, AllKept',
         NEW kinds, NEW size, Working(t, kinds),
         \/ kinds = {"Write"} /\ size = threads[t].block.valid
         \/ kinds = {"WriteAndRecycle"} /\ size = BlockSize,
         PassOn(t, size, "next"),
         file' = [file EXCEPT ![threads[t].job.file] = @ \o EntriesOf(t)],
         UNCHANGED <<program, memory, complete, main>>
  PROVE  Flowing'
<1> DEFINE b == [threads[t].block EXCEPT !.valid = size]
           n == passed[t] + threads[t].block.valid
           content == file[JobAt(t).file] \o EntriesOf(t)
<1>0. /\ kinds \intersect Sources = {} /\ "Change" \notin kinds /\ kinds \subseteq Writers
      /\ \A kind \in kinds : /\ kind \in Appenders /\ kind \in Writers
                             /\ kind \notin {"PWriteAndRecycle", "CountRecords"}
      /\ \A kind \in kinds : size = IF kind \in Sinks THEN BlockSize ELSE threads[t].block.valid
  BY DEF Sources, Sinks, Writers, Appenders
<1>1. /\ JobAt(t).kind \in kinds /\ IsBlock(threads[t].block) /\ threads[t].job = JobAt(t)
      /\ Noted(passed, t)
  BY <1>0, UserIs
<1>2. /\ file[JobAt(t).file] \in Seq(Int) /\ EntriesOf(t) \in Seq(Int)
      /\ passed[t] \in Nat
      /\ Len(EntriesOf(t)) = threads[t].block.valid /\ threads[t].block.valid \in Nat
      /\ \A e \in 1 .. passed[t] : file[JobAt(t).file][e] = StreamAfter(t)[e]
      /\ \A e \in 1 .. threads[t].block.valid :
           EntriesOf(t)[e] = StreamAfter(t)[passed[t] + e]
  BY <1>0, WrittenOn
<1>3. Len(file[JobAt(t).file]) = passed[t]
  BY <1>0, <1>1 DEF Noted
<1>4. content \in Seq(Int) /\ Len(content) = n /\ Begins(content, StreamAfter(t), n)
  <2> DEFINE head == file[JobAt(t).file]
             es == EntriesOf(t)
             stream == StreamAfter(t)
  <2>1. /\ head \in Seq(Int) /\ es \in Seq(Int)
        /\ \A e \in 1 .. Len(head) : head[e] = stream[e]
        /\ \A e \in 1 .. Len(es) : es[e] = stream[Len(head) + e]
        /\ Len(head) + Len(es) = n
    BY <1>2, <1>3
  <2> HIDE DEF head, es, stream, n
  <2>2. /\ head \o es \in Seq(Int) /\ Len(head \o es) = Len(head) + Len(es)
        /\ Begins(head \o es, stream, Len(head) + Len(es))
    BY <2>1, WrittenAfter
  <2> QED  BY <2>1, <2>2 DEF head, es, stream
<1>5. file' = [file EXCEPT ![JobAt(t).file] = content]
  BY <1>1
<1>6. file'[JobAt(t).file] = content
  <2>1. HasFile(JobAt(t)) /\ t \in DOMAIN threads
    BY <1>0, <1>1 DEF HasFile, Working, Running
  <2>2. JobAt(t).file \in DOMAIN file
    BY <2>1, FilesDiffer
  <2> QED  BY <2>2, <1>5
<1>7. /\ queues' = Produced(t, b) /\ b.mem = threads[t].block.mem /\ b.valid = size
      /\ threads' = [threads EXCEPT ![t].at = "next", ![t].block.mem = NoMemory]
  BY <1>1 DEF PassOn, IsBlock
<1>8. JobAt(t).kind \in Writers /\ JobAt(t).kind \notin {"PWriteAndRecycle", "CountRecords"}
      /\ size = IF JobAt(t).kind \in Sinks THEN BlockSize ELSE threads[t].block.valid
  BY <1>0, <1>1
<1> HIDE DEF b, content, n
<1>9. PICK offset : offset = threads[t].offset
  OBVIOUS
<1>10. \E c \in Seq(Int) : file' = [file EXCEPT ![JobAt(t).file] = c]
  BY <1>4, <1>5
<1>11. n = passed[t] + threads[t].block.valid
  BY DEF n
<1>12. b.valid = IF JobAt(t).kind \in Sinks THEN BlockSize ELSE threads[t].block.valid
  BY <1>7, <1>8
<1> QED  BY <1>0, <1>4, <1>6, <1>7, <1>8, <1>9, <1>10, <1>11, <1>12, PlainUser

LEMMA PWriteFlows ==
  ASSUME Busy, NEW passed, NEW pos, Flows(passed, pos), NEW t, PWriteAndRecycle(t), AllKept'
  PROVE  Flowing'
<1> DEFINE kinds == {"PWriteAndRecycle"}
           b == Block(threads[t].block.mem, BlockSize)
           n == passed[t] + threads[t].block.valid
           offset == threads[t].offset + threads[t].block.valid
           old == file[JobAt(t).file]
           rest == SubSeq(old, Offset(t) + Len(EntriesOf(t)) + 1, Len(old))
           content == SubSeq(old, 1, Offset(t)) \o EntriesOf(t) \o rest
<1>0. /\ kinds \intersect Sources = {} /\ "Change" \notin kinds /\ kinds \subseteq Writers
      /\ \A kind \in kinds : kind \notin Appenders /\ kind \in Writers /\ kind \in Sinks
  BY DEF Sources, Sinks, Writers, Appenders
<1>1. /\ Working(t, kinds) /\ UNCHANGED <<program, memory, complete, main>>
      /\ queues' = Produced(t, b)
      /\ threads' = [threads EXCEPT ![t].at = "next", ![t].block.mem = NoMemory,
                                    ![t].offset = offset]
      /\ file' = [file EXCEPT ![threads[t].job.file] =
                    SubSeq(@, 1, Offset(t)) \o EntriesOf(t)
                      \o SubSeq(@, Offset(t) + Len(EntriesOf(t)) + 1, Len(@))]
  BY DEF PWriteAndRecycle
<1>2. /\ JobAt(t).kind \in kinds /\ threads[t].job = JobAt(t) /\ Noted(passed, t)
  BY <1>0, <1>1, UserIs
<1>3. /\ old \in Seq(Int) /\ EntriesOf(t) \in Seq(Int)
      /\ passed[t] \in Nat /\ passed[t] <= Len(old)
      /\ Len(EntriesOf(t)) = threads[t].block.valid /\ threads[t].block.valid \in Nat
      /\ \A e \in 1 .. passed[t] : old[e] = StreamAfter(t)[e]
      /\ \A e \in 1 .. threads[t].block.valid :
           EntriesOf(t)[e] = StreamAfter(t)[passed[t] + e]
  BY <1>0, <1>1, WrittenOn
<1>4. Offset(t) = passed[t] /\ offset = n
  BY <1>2 DEF Noted, Offset
<1>5. content \in Seq(Int) /\ Begins(content, StreamAfter(t), n)
  <2> DEFINE es == EntriesOf(t)
             head == SubSeq(old, 1, Offset(t))
             stream == StreamAfter(t)
             off == Offset(t)
  <2>0. /\ old \in Seq(Int) /\ es \in Seq(Int) /\ off \in Nat /\ off <= Len(old)
        /\ Len(old) \in Nat /\ Len(es) \in Nat /\ n = off + Len(es)
        /\ \A e \in 1 .. off : old[e] = stream[e]
        /\ \A e \in 1 .. Len(es) : es[e] = stream[off + e]
    BY <1>3, <1>4
  <2>1. head = SubSeq(old, 1, off) /\ rest = SubSeq(old, off + Len(es) + 1, Len(old))
    OBVIOUS
  <2> HIDE DEF es, head, stream, off, old, rest, n
  <2>2. /\ head \in Seq(Int) /\ Len(head) = off /\ \A e \in 1 .. off : head[e] = old[e]
    <3>1. \A e \in 1 .. off : old[e] \in Int
      BY <2>0
    <3> QED  BY <2>0, <2>1, <3>1, SubSeqProperties
  <2>3. rest \in Seq(Int)
    <3>1. \A e \in (off + Len(es) + 1) .. Len(old) : old[e] \in Int
      BY <2>0
    <3>2. off + Len(es) + 1 \in Int /\ Len(old) \in Int
      BY <2>0
    <3> QED  BY <2>1, <3>1, <3>2, SubSeqProperties
  <2>4. /\ \A e \in 1 .. Len(head) : head[e] = stream[e]
        /\ \A e \in 1 .. Len(es) : es[e] = stream[Len(head) + e]
    BY <2>0, <2>2
  <2>5. /\ head \o es \o rest \in Seq(Int)
        /\ Begins(head \o es \o rest, stream, Len(head) + Len(es))
    <3>1. head \o es \in Seq(Int) /\ Begins(head \o es, stream, Len(head) + Len(es))
      BY <2>0, <2>2, <2>4, WrittenAfter
    <3>2. Len(head) + Len(es) \in Nat
      BY <2>0, <2>2
    <3> DEFINE both == head \o es
               many == Len(head) + Len(es)
    <3> HIDE DEF both, many
    <3>3. both \in Seq(Int) /\ Begins(both, stream, many) /\ many \in Nat
      BY <3>1, <3>2 DEF both, many
    <3>4. both \o rest \in Seq(Int) /\ Begins(both \o rest, stream, many)
      BY <2>3, <3>3, BeginsStill
    <3> QED  BY <3>4 DEF both, many
  <2> QED  BY <2>0, <2>2, <2>5 DEF es, head, stream
<1>6. file' = [file EXCEPT ![JobAt(t).file] = content]
  BY <1>1, <1>2
<1>7. file'[JobAt(t).file] = content
  <2>1. HasFile(JobAt(t)) /\ t \in DOMAIN threads
    BY <1>0, <1>1, <1>2 DEF HasFile, Working, Running
  <2>2. JobAt(t).file \in DOMAIN file
    BY <2>1, FilesDiffer
  <2> QED  BY <2>2, <1>6
<1>8. JobAt(t).kind \in Writers /\ JobAt(t).kind \notin Appenders /\ JobAt(t).kind \in Sinks
  BY <1>0, <1>2
<1>9. /\ b.mem = threads[t].block.mem /\ b.valid = BlockSize
  BY DEF Block
<1> HIDE DEF b, content, n, kinds, offset
<1>10. \E c \in Seq(Int) : file' = [file EXCEPT ![JobAt(t).file] = c]
  BY <1>5, <1>6
<1>11. n = passed[t] + threads[t].block.valid
  BY DEF n
<1>12. b.valid = IF JobAt(t).kind \in Sinks THEN BlockSize ELSE threads[t].block.valid
  BY <1>8, <1>9
<1>13. Begins(file'[JobAt(t).file], StreamAfter(t), n)
  BY <1>5, <1>7
<1> QED  BY <1>0, <1>1, <1>4, <1>8, <1>9, <1>10, <1>11, <1>12, <1>13, PlainUser

-----------------------------------------------------------------------------
(* Taking a block, and passing the poison on *)

LEMMA ConsumeFlows ==
  ASSUME Busy, NEW passed, NEW pos, Flows(passed, pos), NEW t, Consume(t), AllKept'
  PROVE  Flowing'
<1> DEFINE where == IF IsPoison(Head(queues[t])) \/ threads[t].at = "last"
                    THEN "poison" ELSE "work"
           new == [threads[t] EXCEPT !.block = Head(queues[t]), !.at = where]
<1>1. /\ t \in DOMAIN threads /\ threads[t].at \in {"enter", "next", "last"}
      /\ UNCHANGED <<program, file, memory, complete, main>>
  BY DEF Consume, Running
<1>2. threads[t].in = t /\ t \in DOMAIN queues /\ Linked /\ IsLink(threads[t])
      /\ IsSeq(queues) /\ IsSeq(queues[t]) /\ queues # <<>> /\ InLine
      /\ \A i \in DOMAIN queues[t] : IsBlock(queues[t][i])
  BY <1>1, LineIs DEF Busy, AllKept, Linked
<1>3. /\ queues[t] # <<>> /\ queues' = [queues EXCEPT ![t] = Tail(@)]
      /\ threads' = [threads EXCEPT ![t] = new]
  BY <1>2 DEF Consume, IsLink, LinkFields
<1>4. IsBlock(Head(queues[t]))
  <2> DEFINE queue == queues[t]
  <2>1. IsSeq(queue) /\ queue # <<>>
    BY <1>2, <1>3
  <2> HIDE DEF queue
  <2>2. Head(queue) = queue[1] /\ 1 \in DOMAIN queue
    BY <2>1, TailIs, SeqFacts
  <2> QED  BY <2>2, <1>2 DEF queue
<1>5. /\ IsLink(new) /\ new.block = Head(queues[t]) /\ new.in = threads[t].in
      /\ new.out = threads[t].out /\ new.at = where /\ new.job = threads[t].job
      /\ new.offset = threads[t].offset /\ new.carry = threads[t].carry
  BY <1>2 DEF IsLink, LinkFields
<1> HIDE DEF new, where
<1>6. Becomes(t, where) /\ threads'[t] = new
  BY <1>1, <1>2, <1>3, <1>4, <1>5, ChangesOne
<1>7. IsSeq(queues') /\ DOMAIN queues' = DOMAIN queues
  BY <1>2, <1>3, ExceptIs
<1>8. Steps(t)
  BY <1>1, <1>5, <1>6, <1>7 DEF Steps
<1>9. Len(threads') = Len(threads)
  BY <1>1, <1>2, <1>8, LineStays
<1>10. FilesAre' /\ NotYetWritten' /\ MemoryIs'
  BY <1>1, <1>9, FilesStay, ConstantsStay DEF Busy, MemoryIs
<1>11. threads'[t].at = IF IsPoison(Head(queues[t])) \/ threads[t].at = "last"
                        THEN "poison" ELSE "work"
  BY <1>5, <1>6 DEF where
<1>12. PoisonIsLast'
  BY <1>1, <1>3, <1>8, <1>11, TakesLast
<1>13. Busy'
  BY <1>1, <1>8, <1>10, <1>12, BusyStays
<1>14. \E s2 : Flows(passed, s2)'
  BY <1>1, <1>3, <1>5, <1>6, <1>8, <1>11, TakenFlows
<1> QED  BY <1>13, <1>14 DEF Flowing

LEMMA PassPoisonFlows ==
  ASSUME Busy, NEW passed, NEW pos, Flows(passed, pos), NEW t, PassPoison(t), AllKept'
  PROVE  Flowing'
<1> DEFINE b == [threads[t].block EXCEPT !.mem = NoMemory]
           old == file[JobAt(t).file]
<1>1. /\ t \in DOMAIN threads /\ threads[t].at = "poison"
      /\ UNCHANGED <<program, memory, complete, main>>
      /\ queues' = Produced(t, b)
      /\ threads' = [threads EXCEPT ![t].at = "ended", ![t].block.mem = NoMemory]
  BY DEF PassPoison, Running
<1>2. /\ Linked /\ IsLink(threads[t]) /\ IsBlock(threads[t].block) /\ queues # <<>> /\ InLine
      /\ threads # <<>> /\ threads[t].job = JobAt(t)
      /\ JobAt(t).kind \in Sources <=> t = 1
  BY <1>1, LineIs DEF Busy, AllKept, Linked, InLine
<1>3. /\ Becomes(t, "ended") /\ threads'[t].job = threads[t].job /\ threads'[t].at = "ended"
      /\ threads'[t].offset = threads[t].offset
  BY <1>1, <1>2, GivesPlain DEF IsLink, LinkFields
<1>4. IsSeq(queues') /\ DOMAIN queues' = DOMAIN queues
  BY <1>1, <1>2, ProducedIs
<1>5. Steps(t)
  BY <1>1, <1>3, <1>4 DEF Steps
<1>6. Len(threads') = Len(threads) /\ \A u : JobAt(u)' = JobAt(u)
  BY <1>1, <1>2, <1>5, LineStays
<1>7. IsPoison(b)
  BY <1>2 DEF IsBlock, IsPoison
<1>8. /\ passed \in [DOMAIN threads -> Nat] /\ Noted(passed, t)
      /\ \A u \in DOMAIN threads : Noted(passed, u)
      /\ t = 1 => SourceFlows(passed)
      /\ t # 1 => HeldFlows(passed, t)
  BY <1>1, <1>2 DEF Flows
<1>9. passed[t] = Len(Entries) /\ passed[t] \in Nat
  <2>1. CASE t = 1
    BY <2>1, <1>1, <1>8 DEF SourceFlows
  <2>2. CASE t # 1
    BY <2>2, <1>1, <1>8 DEF HeldFlows
  <2> QED  BY <2>1, <2>2, <1>1, <1>8
<1>10. /\ FilesAre' /\ NotYetWritten' /\ Entries' = Entries
       /\ \A u \in DOMAIN threads :
            u # t /\ HasFile(JobAt(u)) => file'[JobAt(u).file] = file[JobAt(u).file]
       /\ JobAt(t).kind \in Writers => Begins(file'[JobAt(t).file], StreamAfter(t), passed[t])
       /\ JobAt(t).kind \in Appenders => Len(file'[JobAt(t).file]) = passed[t]
       /\ JobAt(t).kind = "PWriteAndRecycle" => Len(file'[JobAt(t).file]) = passed[t]
  <2>1. CASE JobAt(t).kind # "PWriteAndRecycle"
    <3>1. UNCHANGED file
      BY <2>1, <1>2 DEF PassPoison
    <3> QED  BY <2>1, <3>1, <1>1, <1>6, <1>8, FilesStay DEF Noted
  <2>2. CASE JobAt(t).kind = "PWriteAndRecycle"
    <3>0. JobAt(t).kind \in Writers /\ JobAt(t).kind \notin Appenders /\ HasFile(JobAt(t))
      BY <2>2 DEF Writers, Appenders, HasFile
    <3>1. JobAt(t).file \in DOMAIN file
      BY <3>0, <1>1, FilesDiffer
    <3>2. old \in Seq(Int)
      BY <3>1 DEF Busy, FilesAre
    <3>3. Begins(old, StreamAfter(t), passed[t]) /\ threads[t].offset = passed[t]
      BY <2>2, <3>0, <1>8 DEF Noted
    <3> DEFINE content == SubSeq(old, 1, passed[t])
    <3>4. file' = [file EXCEPT ![JobAt(t).file] = content]
      BY <2>2, <3>3, <1>2 DEF PassPoison
    <3>5. /\ content \in Seq(Int) /\ Len(content) = passed[t]
          /\ \A e \in 1 .. passed[t] : content[e] = old[e]
      <4> DEFINE n == passed[t]
      <4>1. n \in Nat /\ n <= Len(old) /\ old \in Seq(Int) /\ Len(old) \in Nat
        BY <3>2, <3>3, <1>9 DEF Begins
      <4>2. content = SubSeq(old, 1, n)
        OBVIOUS
      <4> HIDE DEF n, old, content
      <4>3. \A e \in 1 .. n : old[e] \in Int
        BY <4>1
      <4>4. content \in Seq(Int) /\ Len(content) = n /\ \A e \in 1 .. n : content[e] = old[e]
        BY <4>1, <4>2, <4>3, SubSeqProperties
      <4> QED  BY <4>4 DEF n
    <3> HIDE DEF content
    <3>6. Begins(content, StreamAfter(t), passed[t])
      BY <3>3, <3>5, <1>9 DEF Begins
    <3>7. /\ FilesAre' /\ NotYetWritten' /\ Entries' = Entries
          /\ file'[JobAt(t).file] = content
          /\ \A u \in DOMAIN threads :
               u # t /\ HasFile(JobAt(u)) => file'[JobAt(u).file] = file[JobAt(u).file]
      BY <3>0, <3>4, <3>5, <1>1, <1>6, FileWritten
    <3> QED  BY <3>0, <3>5, <3>6, <3>7
  <2> QED  BY <2>1, <2>2
<1>11. MemoryIs'
  BY <1>1, ConstantsStay DEF Busy, MemoryIs
<1>12. Unspoiled(t)
  BY <1>1, <1>10 DEF Unspoiled
<1>13. PICK p2 : p2 = [passed EXCEPT ![t] = passed[t] + 0]
  OBVIOUS
<1>14. /\ \A u \in DOMAIN threads : p2[u] = passed[u]
  BY <1>8, <1>9, <1>13
<1>15. \A u \in DOMAIN threads : Noted(p2, u)'
  <2> SUFFICES ASSUME NEW u \in DOMAIN threads PROVE Noted(p2, u)'
    OBVIOUS
  <2>1. CASE u = t
    <3>1. StreamAfter(t)' = StreamAfter(t)
      BY <1>1, <1>10, StreamStays
    <3>2. p2[t] = passed[t]
      BY <1>1, <1>14
    <3> QED  BY <2>1, <3>1, <3>2, <1>3, <1>6, <1>8, <1>10 DEF Noted, Begins
  <2>2. CASE u # t
    <3>1. threads'[u] = threads[u] /\ p2[u] = passed[u] /\ Noted(passed, u)
      BY <2>2, <1>3, <1>8, <1>14 DEF Becomes
    <3>2. HasFile(JobAt(u)) => file'[JobAt(u).file] = file[JobAt(u).file]
      BY <2>2, <1>10
    <3> QED  BY <3>1, <3>2, <1>1, <1>10, NotedStays
  <2> QED  BY <2>1, <2>2
<1>16. t = 1 => SourceFlows(p2)'
  BY <1>1, <1>3, <1>9, <1>10, <1>14 DEF SourceFlows
<1>17. t # 1 => HeldFlows(p2, t)'
  BY <1>1, <1>3, <1>9, <1>10, <1>14 DEF HeldFlows
<1>18. HeldBy(t) = 0 /\ SizeOf(b) = 0
  BY <1>1, <1>7 DEF HeldBy, SizeOf
<1> HIDE DEF b
<1>19. \E s2 : Flows(p2, s2)'
  <2>1. threads'[t].at # "work" /\ 0 \in Nat
    BY <1>3
  <2> QED  BY <2>1, <1>1, <1>5, <1>7, <1>12, <1>13, <1>15, <1>16, <1>17, <1>18, GivenFlows
<1>20. PoisonIsLast'
  BY <1>1, <1>3, <1>5, <1>7, PassesPoison
<1>21. Busy'
  BY <1>1, <1>5, <1>10, <1>11, <1>20, BusyStays
<1> QED  BY <1>19, <1>21 DEF Flowing

-----------------------------------------------------------------------------
(* Workers that fill blocks *)

LEMMA SourceIs ==
  ASSUME Busy, NEW passed, NEW pos, Flows(passed, pos), NEW t, NEW kinds,
         Working(t, kinds), kinds \subseteq Sources
  PROVE  /\ t = 1 /\ 1 \in DOMAIN threads /\ threads[1].at = "work"
         /\ threads[1].job = Round[1] /\ Round[1].kind \in kinds
         /\ threads[1].out = 2 /\ Linked /\ IsLink(threads[1]) /\ IsBlock(threads[1].block)
         /\ threads[1].block.mem \in Blocks /\ threads[1].block.valid = BlockSize
         /\ BlockSize \in Nat /\ BlockSize > 0
         /\ passed \in [DOMAIN threads -> Nat]
         /\ Entries \in Seq(Int) /\ Len(Entries) \in Nat
         /\ Entries = IF Round[1].kind = "Stream" THEN threads[1].job.entries
                      ELSE FileOf(1)
         /\ threads[1].carry \in Seq(Int) /\ threads[1].offset \in Nat
         /\ passed[1] + Len(threads[1].carry) = threads[1].offset
         /\ threads[1].offset <= Len(Entries)
         /\ Len(threads[1].carry) < BlockSize
         /\ \A e \in 1 .. Len(threads[1].carry) :
              threads[1].carry[e] = Entries[passed[1] + e]
         /\ Round[1].kind # "LineInput" => threads[1].carry = <<>>
<1>1. t \in DOMAIN threads /\ threads[t].at = "work" /\ threads[t].job.kind \in kinds
  BY DEF Working, Running
<1>2. /\ threads[t].job = JobAt(t) /\ (JobAt(t).kind \in Sources <=> t = 1)
      /\ threads[t].out = IF JobAt(t).kind \in Sinks THEN 1 ELSE t + 1
      /\ JobAt(t).kind \in Sinks => t # 1
      /\ Len(Round) \in Nat /\ Len(Round) > 0
  BY <1>1, LineIs
<1>3. t = 1
  BY <1>1, <1>2
<1>4. JobAt(1) = Round[1]
  BY <1>2 DEF JobAt
<1>5. Linked /\ IsLink(threads[1]) /\ IsBlock(threads[1].block) /\ threads # <<>>
  BY <1>1, <1>3 DEF Busy, AllKept, Linked, InLine
<1>6. BlockSize \in Nat /\ BlockSize > 0
  BY BlockSizeIs DEF Busy
<1>7. Entries \in Seq(Int) /\ Len(Entries) \in Nat
  BY EntriesAre DEF Busy
<1>8. Entries = IF Round[1].kind = "Stream" THEN threads[1].job.entries ELSE FileOf(1)
  BY <1>2, <1>3, <1>4 DEF Entries, SourceOf, FileOf
<1>9. passed \in [DOMAIN threads -> Nat] /\ SourceFlows(passed)
  BY <1>5 DEF Flows
<1>10. threads[1].out = 2
  BY <1>2, <1>3
<1> QED  BY <1>1, <1>2, <1>3, <1>4, <1>5, <1>6, <1>7, <1>8, <1>9, <1>10 DEF SourceFlows

\* The first n entries of es are the next ones of the stream.
Fills(passed, es, n) ==
  /\ es \in Seq(Int) /\ Len(es) <= BlockSize
  /\ n \in Nat /\ n <= Len(es) /\ passed[1] + n <= Len(Entries)
  /\ \A e \in 1 .. n : es[e] = Entries[passed[1] + e]

\* What the first worker has read, and not passed on with n entries more.
KeepsRest(passed, n, carry, offset) ==
  /\ carry \in Seq(Int) /\ offset \in Nat
  /\ passed[1] + n + Len(carry) = offset
  /\ offset <= Len(Entries) /\ Len(carry) < BlockSize
  /\ \A e \in 1 .. Len(carry) : carry[e] = Entries[passed[1] + n + e]
  /\ Round[1].kind # "LineInput" => carry = <<>>

\* The first worker passes n entries on, and keeps what it has read of the next.
LEMMA SourceGives ==
  ASSUME Busy, NEW passed, NEW pos, Flows(passed, pos), NEW kinds,
         Working(1, kinds), kinds \subseteq Sources, AllKept',
         UNCHANGED <<program, file, complete, main>>,
         NEW es, NEW n, Fills(passed, es, n), memory' = WithEntries(1, es),
         NEW b, queues' = Produced(1, b), b.mem = threads[1].block.mem, b.valid = n,
         NEW where, where \in {"next", "last"}, Becomes(1, where),
         threads'[1].job = threads[1].job,
         where = "last" => passed[1] + n = Len(Entries),
         where = "next" => KeepsRest(passed, n, threads'[1].carry, threads'[1].offset)
  PROVE  Flowing'
<1> USE DEF Fills, KeepsRest
<1>1. /\ 1 \in DOMAIN threads /\ threads[1].at = "work" /\ Linked
      /\ threads[1].job = Round[1] /\ Round[1].kind \in kinds /\ threads[1].out = 2
      /\ threads[1].block.mem \in Blocks /\ BlockSize \in Nat
      /\ passed \in [DOMAIN threads -> Nat]
      /\ Entries \in Seq(Int) /\ Len(Entries) \in Nat
  BY SourceIs
<1>2. ProgramIsRight(program) /\ program # <<>> /\ FilesAre /\ MemoryIs /\ InLine
      /\ queues # <<>> /\ threads # <<>> /\ \A u \in DOMAIN threads : Noted(passed, u)
  BY DEF Busy, InLine, Flows
<1>3. IsSeq(queues') /\ DOMAIN queues' = DOMAIN queues
  BY <1>1, ProducedIs
<1>4. threads'[1].at = where
  BY DEF Becomes
<1>5. Steps(1)
  BY <1>3, <1>4 DEF Steps
<1>6. Len(threads') = Len(threads) /\ (\A u : JobAt(u)' = JobAt(u)) /\ Round' = Round
  BY <1>1, <1>2, <1>5, LineStays
<1>7. FilesAre' /\ NotYetWritten' /\ Entries' = Entries
  BY <1>6, FilesStay
<1>8. /\ MemoryIs' /\ \A e \in 1 .. Len(es) : memory'[threads[1].block.mem][e] = es[e]
      /\ \A c \in Blocks : c # threads[1].block.mem => memory'[c] = memory[c]
  <2> DEFINE mem == threads[1].block.mem
  <2>1. memory' = [memory EXCEPT ![mem] = es \o SubSeq(@, Len(es) + 1, BlockSize)]
    BY DEF WithEntries
  <2> HIDE DEF mem
  <2>2. mem \in Blocks
    BY <1>1 DEF mem
  <2>3. /\ MemoryIs' /\ \A e \in 1 .. Len(es) : memory'[mem][e] = es[e]
        /\ \A c \in Blocks : c # mem => memory'[c] = memory[c]
    BY <2>1, <2>2, <1>1, <1>2, PutIs
  <2> QED  BY <2>3 DEF mem
<1>9. ~IsPoison(threads[1].block) /\ ~IsPoison(b)
  BY <1>1 DEF IsPoison, Blocks, NoMemory
<1>10. Unspoiled(1)
  BY <1>1, <1>7, <1>8, <1>9, NothingSpoiled
<1>11. Carries(memory', StreamAfter(1), b, passed[1])
  <2>1. 1 \in DOMAIN Round
    BY <1>2, RoundIs
  <2>2. /\ Len(StreamAfter(1)) = Len(Entries)
        /\ \A e \in 1 .. Len(Entries) : StreamAfter(1)[e] = Entries[e]
    BY <1>2, <2>1, StreamIs
  <2>3. \A e \in 1 .. n : memory'[b.mem][e] = StreamAfter(1)[passed[1] + e]
    <3> SUFFICES ASSUME NEW e \in 1 .. n
                 PROVE  memory'[b.mem][e] = StreamAfter(1)[passed[1] + e]
      OBVIOUS
    <3>1. passed[1] \in Nat
      BY <1>1
    <3>2. e \in 1 .. Len(es) /\ passed[1] + e \in 1 .. Len(Entries)
      <4> DEFINE p == passed[1]
                 mine == Len(es)
                 all == Len(Entries)
      <4>1. p \in Nat /\ mine \in Nat /\ all \in Nat /\ n <= mine /\ p + n <= all
        BY <3>1, <1>1
      <4> HIDE DEF p, mine, all
      <4>2. e \in 1 .. mine /\ p + e \in 1 .. all
        BY <4>1
      <4> QED  BY <4>2 DEF p, mine, all
    <3>3. memory'[b.mem][e] = es[e] /\ es[e] = Entries[passed[1] + e]
      BY <3>2, <1>8
    <3> QED  BY <2>2, <3>2, <3>3
  <2>4. n <= BlockSize
    BY <1>1
  <2> QED  BY <2>2, <2>3, <2>4, <1>1 DEF Carries
<1>12. PICK p2 : p2 = [passed EXCEPT ![1] = passed[1] + n]
  OBVIOUS
<1>13. p2[1] = passed[1] + n /\ \A u \in DOMAIN threads : u # 1 => p2[u] = passed[u]
  BY <1>1, <1>12
<1>14. SourceFlows(p2)'
  <2>1. threads'[1].at # "work"
    BY <1>4
  <2>2. CASE where = "last"
    BY <2>1, <2>2, <1>4, <1>7, <1>13 DEF SourceFlows
  <2>3. CASE where = "next"
    <3>1. threads'[1].job.kind # "LineInput" => Round[1].kind # "LineInput"
      BY <1>1
    <3> QED  BY <2>1, <2>3, <3>1, <1>4, <1>7, <1>13, ConstantsStay DEF SourceFlows
  <2> QED  BY <2>2, <2>3
<1>15. \A u \in DOMAIN threads : Noted(p2, u)'
  <2> SUFFICES ASSUME NEW u \in DOMAIN threads PROVE Noted(p2, u)'
    OBVIOUS
  <2>1. CASE u = 1
    <3>1. JobAt(1)'.kind \in Sources
      <4>1. JobAt(1)' = JobAt(1) /\ (JobAt(1).kind \in Sources <=> 1 = 1)
        BY <1>1, <1>6, LineIs
      <4> QED  BY <4>1
    <3> QED  BY <2>1, <3>1 DEF Noted, Sources, Writers, Appenders
  <2>2. CASE u # 1
    <3>1. threads'[u] = threads[u] /\ p2[u] = passed[u] /\ Noted(passed, u)
      BY <2>2, <1>2, <1>13 DEF Becomes
    <3> QED  BY <3>1, <1>7, NotedStays
  <2> QED  BY <2>1, <2>2
<1>16. SizeOf(b) = n /\ threads[1].out # 1 /\ threads'[1].at # "work"
  BY <1>1, <1>4, <1>9 DEF SizeOf
<1>17. \E s2 : Flows(p2, s2)'
  BY <1>1, <1>5, <1>10, <1>11, <1>12, <1>14, <1>15, <1>16, GivenFlows
<1>18. PoisonIsLast'
  BY <1>1, <1>4, <1>5, <1>9, GivesNoPoison
<1>19. Busy'
  BY <1>1, <1>5, <1>7, <1>8, <1>18, BusyStays
<1> QED  BY <1>17, <1>19 DEF Flowing

\* The first worker has passed everything on, and makes poison of its block.
LEMMA SourceEnds ==
  ASSUME Busy, NEW passed, NEW pos, Flows(passed, pos), NEW kinds,
         Working(1, kinds), kinds \subseteq Sources, AllKept',
         UNCHANGED <<program, file, memory, queues, complete, main>>,
         threads' = [threads EXCEPT ![1].at = "poison"], passed[1] = Len(Entries)
  PROVE  Flowing'
<1> DEFINE new == [threads[1] EXCEPT !.at = "poison"]
<1>1. /\ 1 \in DOMAIN threads /\ threads[1].at = "work" /\ Linked /\ IsLink(threads[1])
      /\ IsBlock(threads[1].block) /\ passed \in [DOMAIN threads -> Nat]
      /\ threads[1].job = Round[1] /\ Round[1].kind \in kinds
  BY SourceIs
<1>2. InLine /\ queues # <<>> /\ threads # <<>> /\ PoisonIsLast /\ MemoryIs
      /\ (\A u \in DOMAIN threads : Noted(passed, u))
      /\ \A u \in DOMAIN threads : u # 1 => HeldFlows(passed, u)
  BY DEF Busy, InLine, Flows
<1>3. /\ FirstQueue /\ DOMAIN pos = DOMAIN queues
      /\ \A q \in DOMAIN queues : q # 1 => QueueFlows(passed, pos, q)
  BY <1>2 DEF Flows
<1>4. threads' = [threads EXCEPT ![1] = new]
  OBVIOUS
<1>5. IsLink(new) /\ new.block = threads[1].block /\ new.in = threads[1].in
      /\ new.out = threads[1].out /\ new.at = "poison" /\ new.job = threads[1].job
  BY <1>1 DEF IsLink, LinkFields
<1> HIDE DEF new
<1>6. Becomes(1, "poison") /\ threads'[1] = new
  BY <1>1, <1>4, <1>5, ChangesOne
<1>7. IsSeq(queues') /\ DOMAIN queues' = DOMAIN queues
  BY <1>1 DEF Linked
<1>8. Steps(1) /\ threads'[1].at = "poison"
  BY <1>5, <1>6, <1>7 DEF Steps
<1>9. Len(threads') = Len(threads) /\ (\A u : JobAt(u)' = JobAt(u))
      /\ DOMAIN threads' = DOMAIN threads /\ threads' # <<>>
  BY <1>1, <1>2, <1>8, LineStays
<1>10. FilesAre' /\ NotYetWritten' /\ Entries' = Entries /\ MemoryIs'
  BY <1>2, <1>9, FilesStay, ConstantsStay DEF MemoryIs
<1>11. Unspoiled(1)
  BY <1>10 DEF Unspoiled
<1>12. PoisonIsLast'
  <2>1. \A u \in DOMAIN threads : u # 1 => threads'[u] = threads[u]
    BY <1>6 DEF Becomes
  <2>2. ~HasEnded(1) /\ ~HasEnded(1)'
    BY <1>1, <1>8 DEF HasEnded
  <2>3. \A s \in DOMAIN threads : HasEnded(s)' <=> HasEnded(s)
    BY <2>1, <2>2 DEF HasEnded
  <2>4. /\ DOMAIN queues = 1 .. Len(queues) /\ Len(queues) \in Nat
        /\ DOMAIN threads = 1 .. Len(threads) /\ Len(threads) \in Nat
        /\ Len(queues) <= Len(threads) + 1
    <3>1. DOMAIN queues = 1 .. Len(queues) /\ Len(queues) \in Nat
      BY QueuesAre
    <3>2. DOMAIN threads = 1 .. Len(threads) /\ Len(threads) \in Nat
      BY QueuesAre
    <3>3. Len(queues) <= Len(threads) + 1
      BY QueuesAre
    <3> QED  BY <3>1, <3>2, <3>3
  <2>5. /\ \A u \in DOMAIN threads : 1 .. (u - 1) \subseteq DOMAIN threads
        /\ \A q \in DOMAIN queues : 1 .. (q - 1) \subseteq DOMAIN threads
    BY <2>4
  <2>6. ASSUME NEW u \in DOMAIN threads
        PROVE  /\ threads'[u].at \in {"enter", "next", "last", "work", "poison", "ended"}
               /\ threads'[u].at = "last" => u = 1
               /\ u # 1 /\ threads'[u].at \in {"poison", "ended"} =>
                    queues'[u] = <<>> /\ \A s \in 1 .. (u - 1) : HasEnded(s)'
    <3>1. CASE u = 1
      BY <3>1, <1>8
    <3>2. CASE u # 1
      <4>1. threads'[u] = threads[u]
        BY <2>1, <3>2
      <4>2. u # 1 /\ threads[u].at \in {"poison", "ended"} =>
               queues[u] = <<>> /\ \A s \in 1 .. (u - 1) : HasEnded(s)
        BY <1>2 DEF PoisonIsLast
      <4>3. threads[u].at \in {"enter", "next", "last", "work", "poison", "ended"}
            /\ (threads[u].at = "last" => u = 1)
        BY <1>2 DEF PoisonIsLast
      <4>4. u # 1 /\ threads'[u].at \in {"poison", "ended"} =>
               queues'[u] = <<>> /\ \A s \in 1 .. (u - 1) : HasEnded(s)'
        BY <4>1, <4>2, <2>3, <2>5
      <4> QED  BY <4>1, <4>3, <4>4
    <3> QED  BY <3>1, <3>2
  <2>7. ASSUME NEW q \in DOMAIN queues, NEW i \in DOMAIN queues[q], IsPoison(queues[q][i])
        PROVE  IF q = 1 THEN complete' /\ \A s \in DOMAIN threads' : HasEnded(s)'
                        ELSE i = Len(queues[q]) /\ \A s \in 1 .. (q - 1) : HasEnded(s)'
    <3>1. IF q = 1 THEN complete /\ \A s \in DOMAIN threads : HasEnded(s)
                   ELSE i = Len(queues[q]) /\ \A s \in 1 .. (q - 1) : HasEnded(s)
      BY <2>7, <1>2 DEF PoisonIsLast
    <3> QED  BY <3>1, <2>3, <2>5, <1>9
  <2> QED  BY <2>6, <2>7, <1>9 DEF PoisonIsLast, IsPoison
<1>13. Busy'
  BY <1>1, <1>8, <1>10, <1>12, BusyStays
<1>14. HeldBy(1) = HeldBy(1) /\ \A u \in DOMAIN threads : u # 1 => HeldBy(u)' = HeldBy(u)
  BY <1>6 DEF HeldBy, Becomes
<1>15. ASSUME NEW q \in DOMAIN queues, q # 1
       PROVE  QueueFlows(passed, pos, q)'
  <2>1. QueueFlows(passed, pos, q)
    BY <1>3, <1>15
  <2>2. q \in DOMAIN threads => passed[q] + HeldBy(q)' = passed[q] + HeldBy(q)
    BY <1>14, <1>15
  <2> QED  BY <2>1, <2>2, <1>1, <1>9, <1>11, QueueStays
<1>16. ASSUME NEW u \in DOMAIN threads, u # 1
       PROVE  HeldFlows(passed, u)'
  <2>1. threads'[u] = threads[u] /\ HeldFlows(passed, u)
    BY <1>16, <1>2, <1>6 DEF Becomes
  <2> QED  BY <2>1, <1>11, <1>16, HeldStays
<1>17. ASSUME NEW u \in DOMAIN threads PROVE Noted(passed, u)'
  <2>1. CASE u = 1
    <3>1. JobAt(1)' = JobAt(1) /\ JobAt(1).kind \in Sources
      BY <1>1, <1>9, LineIs
    <3> QED  BY <2>1, <3>1 DEF Noted, Sources, Writers, Appenders
  <2>2. CASE u # 1
    <3>1. threads'[u] = threads[u] /\ Noted(passed, u)
      BY <2>2, <1>2, <1>6 DEF Becomes
    <3> QED  BY <3>1, <1>10, NotedStays
  <2> QED  BY <2>1, <2>2
<1>18. SourceFlows(passed)'
  BY <1>8, <1>10 DEF SourceFlows
<1>19. FirstQueue'
  BY <1>3, ConstantsStay DEF FirstQueue, IsPoison
<1>20. Flows(passed, pos)'
  BY <1>1, <1>3, <1>9, <1>15, <1>16, <1>17, <1>18, <1>19 DEF Flows
<1> QED  BY <1>13, <1>20 DEF Flowing

\* The next entries, as they come from a file or a client.
LEMMA SourceReads ==
  ASSUME Busy, NEW passed, NEW pos, Flows(passed, pos), NEW kinds,
         Working(1, kinds), kinds \subseteq Sources, "LineInput" \notin kinds,
         NEW es, es = NextOf(Entries, threads[1].offset, BlockSize)
  PROVE  /\ Fills(passed, es, Len(es)) /\ Len(es) \in Nat
         /\ KeepsRest(passed, Len(es), threads[1].carry, threads[1].offset + Len(es))
         /\ Len(es) < BlockSize => passed[1] + Len(es) = Len(Entries)
<1>1. /\ 1 \in DOMAIN threads /\ BlockSize \in Nat /\ BlockSize > 0
      /\ Round[1].kind \in kinds
      /\ Entries \in Seq(Int) /\ Len(Entries) \in Nat
      /\ threads[1].offset \in Nat
      /\ passed[1] + Len(threads[1].carry) = threads[1].offset
      /\ threads[1].offset <= Len(Entries)
      /\ (Round[1].kind # "LineInput" => threads[1].carry = <<>>)
      /\ passed \in [DOMAIN threads -> Nat]
  BY SourceIs
<1>2. threads[1].carry = <<>> /\ Round[1].kind # "LineInput"
  BY <1>1
<1>3. passed[1] = threads[1].offset /\ passed[1] \in Nat
  BY <1>1, <1>2
<1>4. PICK all, from : all = Entries /\ from = passed[1]
  OBVIOUS
<1>5. all \in Seq(Int) /\ from \in Nat /\ from <= Len(all) /\ BlockSize \in Nat
      /\ es = NextOf(all, from, BlockSize)
  BY <1>1, <1>3, <1>4
<1>6. /\ es \in Seq(Int) /\ Len(es) \in Nat /\ Len(es) <= BlockSize
      /\ from + Len(es) <= Len(all)
      /\ Len(es) < BlockSize => from + Len(es) = Len(all)
      /\ \A e \in 1 .. Len(es) : es[e] = all[from + e]
  BY <1>5, NextAre
<1>7. Fills(passed, es, Len(es))
  BY <1>4, <1>6 DEF Fills
<1>8. KeepsRest(passed, Len(es), threads[1].carry, threads[1].offset + Len(es))
  <2>1. PICK carry, offset : carry = threads[1].carry /\ offset = threads[1].offset + Len(es)
    OBVIOUS
  <2>2. carry = <<>> /\ Len(carry) = 0 /\ carry \in Seq(Int) /\ offset \in Nat
        /\ offset <= Len(Entries) /\ passed[1] + Len(es) + 0 = offset
    BY <2>1, <1>1, <1>2, <1>3, <1>4, <1>6
  <2>3. KeepsRest(passed, Len(es), carry, offset)
    BY <2>2, <1>1 DEF KeepsRest
  <2> QED  BY <2>1, <2>3
<1> QED  BY <1>4, <1>6, <1>7, <1>8

LEMMA ReadBlockFlows ==
  ASSUME Busy, NEW passed, NEW pos, Flows(passed, pos), NEW t, ReadBlock(t), AllKept'
  PROVE  Flowing'
<1>1. PICK kinds : kinds = {"Read", "PRead"}
  OBVIOUS
<1>2. kinds \subseteq Sources /\ Working(t, kinds) /\ UNCHANGED <<program, file, complete, main>>
      /\ "LineInput" \notin kinds
  BY <1>1 DEF ReadBlock, Sources
<1>3. t = 1 /\ Working(1, kinds)
  BY <1>2, SourceIs
<1>4. /\ 1 \in DOMAIN threads /\ Linked /\ Round[1].kind \in kinds
      /\ Entries = IF Round[1].kind = "Stream" THEN threads[1].job.entries ELSE FileOf(1)
      /\ passed \in [DOMAIN threads -> Nat]
  BY <1>2, SourceIs
<1>5. PICK es : es = NextOf(FileOf(1), Offset(1), BlockSize)
  OBVIOUS
<1>6. es = NextOf(Entries, threads[1].offset, BlockSize)
  BY <1>1, <1>4, <1>5 DEF Offset
<1>7. /\ Fills(passed, es, Len(es)) /\ Len(es) \in Nat
      /\ KeepsRest(passed, Len(es), threads[1].carry, threads[1].offset + Len(es))
      /\ Len(es) < BlockSize => passed[1] + Len(es) = Len(Entries)
  BY <1>2, <1>3, <1>6, SourceReads
<1>8. CASE es = <<>>
  <2>1. threads' = [threads EXCEPT ![1].at = "poison"] /\ UNCHANGED <<queues, memory>>
    BY <1>3, <1>5, <1>8 DEF ReadBlock
  <2>2. passed[1] = Len(Entries)
    <3>1. Len(es) = 0 /\ BlockSize \in Nat /\ BlockSize > 0 /\ passed[1] \in Nat
      BY <1>4, <1>8, BlockSizeIs DEF Busy
    <3> QED  BY <3>1, <1>7
  <2> QED  BY <2>1, <2>2, <1>2, <1>3, SourceEnds
<1>9. CASE es # <<>>
  <2>1. PICK b, offset : /\ b = Block(threads[1].block.mem, Len(es))
                         /\ offset = threads[1].offset + Len(es)
    OBVIOUS
  <2>2. /\ queues' = Produced(1, b) /\ memory' = WithEntries(1, es)
        /\ threads' = [threads EXCEPT ![1].at = "next", ![1].block.mem = NoMemory,
                                      ![1].offset = offset]
    BY <2>1, <1>3, <1>5, <1>9 DEF ReadBlock
  <2>3. /\ Becomes(1, "next") /\ threads'[1].job = threads[1].job
        /\ threads'[1].offset = offset /\ threads'[1].carry = threads[1].carry
    <3>1. IsLink(threads[1])
      BY <1>4 DEF Linked
    <3> QED  BY <2>2, <3>1, <1>4, GivesOn DEF IsLink, LinkFields
  <2>4. b.mem = threads[1].block.mem /\ b.valid = Len(es)
    BY <2>1 DEF Block
  <2>5. KeepsRest(passed, Len(es), threads'[1].carry, threads'[1].offset)
    BY <2>1, <2>3, <1>7
  <2> QED  BY <2>2, <2>3, <2>4, <2>5, <1>2, <1>3, <1>7, SourceGives
<1> QED  BY <1>8, <1>9

LEMMA WriteStreamFlows ==
  ASSUME Busy, NEW passed, NEW pos, Flows(passed, pos), NEW t, WriteStream(t), AllKept'
  PROVE  Flowing'
<1>1. PICK kinds : kinds = {"Stream"}
  OBVIOUS
<1>2. kinds \subseteq Sources /\ Working(t, kinds) /\ UNCHANGED <<program, file, complete, main>>
      /\ "LineInput" \notin kinds
  BY <1>1 DEF WriteStream, Sources
<1>3. t = 1 /\ Working(1, kinds)
  BY <1>2, SourceIs
<1>4. /\ 1 \in DOMAIN threads /\ Linked /\ Round[1].kind \in kinds
      /\ threads[1].block.valid = BlockSize
      /\ Entries = IF Round[1].kind = "Stream" THEN threads[1].job.entries ELSE FileOf(1)
  BY <1>2, SourceIs
<1>5. PICK es : es = NextOf(threads[1].job.entries, Offset(1), threads[1].block.valid)
  OBVIOUS
<1>6. es = NextOf(Entries, threads[1].offset, BlockSize)
  BY <1>1, <1>4, <1>5 DEF Offset
<1>7. /\ Fills(passed, es, Len(es)) /\ Len(es) \in Nat
      /\ KeepsRest(passed, Len(es), threads[1].carry, threads[1].offset + Len(es))
      /\ Len(es) < BlockSize => passed[1] + Len(es) = Len(Entries)
  BY <1>2, <1>3, <1>6, SourceReads
<1>8. PICK b, offset, where : /\ b = Block(threads[1].block.mem, Len(es))
                              /\ offset = threads[1].offset + Len(es)
                              /\ where = IF Len(es) = BlockSize THEN "next" ELSE "last"
  OBVIOUS
<1>9. /\ queues' = Produced(1, b) /\ memory' = WithEntries(1, es)
      /\ threads' = [threads EXCEPT ![1].at = where, ![1].block.mem = NoMemory,
                                    ![1].offset = offset]
  BY <1>3, <1>4, <1>5, <1>8 DEF WriteStream
<1>10. /\ Becomes(1, where) /\ threads'[1].job = threads[1].job
       /\ threads'[1].offset = offset /\ threads'[1].carry = threads[1].carry
  <2>1. IsLink(threads[1])
    BY <1>4 DEF Linked
  <2> QED  BY <2>1, <1>4, <1>9, GivesOn DEF IsLink, LinkFields
<1>11. b.mem = threads[1].block.mem /\ b.valid = Len(es)
  BY <1>8 DEF Block
<1>12. KeepsRest(passed, Len(es), threads'[1].carry, threads'[1].offset)
  BY <1>7, <1>8, <1>10
<1>13. where \in {"next", "last"} /\ (where = "last" => passed[1] + Len(es) = Len(Entries))
  <2>1. Len(es) <= BlockSize /\ BlockSize \in Nat
    BY <1>7, BlockSizeIs DEF Fills, Busy
  <2> QED  BY <2>1, <1>7, <1>8
<1> QED  BY <1>2, <1>3, <1>7, <1>9, <1>10, <1>11, <1>12, <1>13, SourceGives

\* What was kept, with the entries that follow it.
Glued(text, carry, new) == text = carry \o new

LEMMA GluedIs ==
  ASSUME NEW carry \in Seq(Int), NEW new \in Seq(Int), NEW text, Glued(text, carry, new)
  PROVE  Len(text) = Len(carry) + Len(new)
BY DEF Glued

\* Entries that are those of a stream after place from.
PartOf(es, stream, from) == \A e \in 1 .. Len(es) : es[e] = stream[from + e]

LEMMA TextIs ==
  ASSUME NEW all, NEW from \in Nat, NEW carry \in Seq(Int), NEW new \in Seq(Int),
         PartOf(carry, all, from),
         NEW off, off = from + Len(carry), PartOf(new, all, off),
         NEW text, Glued(text, carry, new)
  PROVE  /\ text \in Seq(Int) /\ Len(text) = Len(carry) + Len(new)
         /\ PartOf(text, all, from)
<1>2. /\ Len(text) = Len(carry) + Len(new)
      /\ \A e \in 1 .. Len(carry) : text[e] = carry[e]
      /\ \A e \in 1 .. Len(new) : text[Len(carry) + e] = new[e]
  BY ConcatenationIs DEF Glued
<1>3. text \in Seq(Int)
  BY DEF Glued
<1>1. Len(carry) \in Nat /\ Len(new) \in Nat
  OBVIOUS
<1>4. \A e \in 1 .. Len(text) : text[e] = all[from + e]
  <2> SUFFICES ASSUME NEW e \in 1 .. Len(text) PROVE text[e] = all[from + e]
    OBVIOUS
  <2>0. PICK size, more : size = Len(carry) /\ more = Len(new)
    OBVIOUS
  <2>1. CASE e \in 1 .. Len(carry)
    BY <2>1, <1>2 DEF PartOf
  <2>2. CASE e \notin 1 .. Len(carry)
    <3>1. size \in Nat /\ more \in Nat /\ e \in 1 .. (size + more) /\ e \notin 1 .. size
      BY <2>0, <2>2, <1>1, <1>2
    <3>2. PICK d : d = e - size
      OBVIOUS
    <3>3. d \in 1 .. more /\ size + d = e /\ from + size + d = from + e
      <4>1. e \in Nat /\ e >= 1 /\ e <= size + more /\ e > size
        BY <3>1
      <4>2. d \in Nat /\ d >= 1 /\ d <= more /\ size + d = e
        BY <4>1, <3>1, <3>2
      <4>3. from + size + d = from + e
        BY <4>2, <3>1
      <4> QED  BY <4>2, <4>3, <3>1
    <3>4. text[size + d] = new[d] /\ new[d] = all[from + size + d]
      BY <2>0, <3>3, <1>2 DEF PartOf
    <3> QED  BY <3>3, <3>4
  <2> QED  BY <2>1, <2>2
<1> QED  BY <1>2, <1>3, <1>4 DEF PartOf

\* The text is the stream from where the first worker is up to offset: at most
\* a block, and less only at the end.
TextUpTo(passed, text, offset) ==
  /\ text \in Seq(Int) /\ Len(text) \in Nat /\ Len(text) <= BlockSize
  /\ DOMAIN text = 1 .. Len(text)
  /\ passed[1] \in Nat /\ Len(Entries) \in Nat /\ BlockSize \in Nat
  /\ offset \in Nat
  /\ passed[1] + Len(text) = offset
  /\ passed[1] + Len(text) <= Len(Entries)
  /\ \A e \in 1 .. Len(text) : text[e] = Entries[passed[1] + e]
  /\ Len(text) < BlockSize => passed[1] + Len(text) = Len(Entries)

\* The text that LineInput has before it, what it kept and what follows it.
LEMMA LinesRead ==
  ASSUME Busy, NEW passed, NEW pos, Flows(passed, pos), Working(1, {"LineInput"}),
         NEW new, new = NextOf(FileOf(1), Offset(1), BlockSize - Len(threads[1].carry)),
         NEW text, Glued(text, threads[1].carry, new)
  PROVE  TextUpTo(passed, text, threads[1].offset + Len(new))
<1>1. {"LineInput"} \subseteq Sources
  BY DEF Sources
<1>2. /\ 1 \in DOMAIN threads /\ BlockSize \in Nat
      /\ Round[1].kind \in {"LineInput"}
      /\ Entries \in Seq(Int) /\ Len(Entries) \in Nat
      /\ Entries = IF Round[1].kind = "Stream" THEN threads[1].job.entries ELSE FileOf(1)
      /\ threads[1].carry \in Seq(Int) /\ threads[1].offset \in Nat
      /\ passed[1] + Len(threads[1].carry) = threads[1].offset
      /\ threads[1].offset <= Len(Entries)
      /\ Len(threads[1].carry) < BlockSize
      /\ (\A e \in 1 .. Len(threads[1].carry) :
            threads[1].carry[e] = Entries[passed[1] + e])
      /\ passed \in [DOMAIN threads -> Nat]
  BY <1>1, SourceIs
<1>3. Entries = FileOf(1) /\ passed[1] \in Nat
  BY <1>2
<1>4. PICK all, from, off, carry, room :
        /\ all = Entries /\ from = passed[1] /\ off = threads[1].offset
        /\ carry = threads[1].carry /\ room = BlockSize - Len(carry)
  OBVIOUS
<1>5. new = NextOf(all, off, room) /\ Glued(text, carry, new)
  <2>1. FileOf(1) = all
    BY <1>3, <1>4
  <2>2. Offset(1) = off
    BY <1>4 DEF Offset
  <2> QED  BY <2>1, <2>2, <1>4
<1>6. /\ all \in Seq(Int) /\ from \in Nat /\ off \in Nat /\ carry \in Seq(Int)
      /\ off = from + Len(carry) /\ off <= Len(all) /\ Len(carry) < BlockSize
      /\ \A e \in 1 .. Len(carry) : carry[e] = all[from + e]
  BY <1>2, <1>3, <1>4
<1>7. room \in Nat /\ Len(carry) \in Nat /\ Len(all) \in Nat
  BY <1>2, <1>4, <1>6
<1>8. /\ text \in Seq(Int) /\ Len(text) = Len(carry) + Len(new)
      /\ Len(new) \in Nat /\ Len(new) <= room
      /\ off + Len(new) <= Len(all)
      /\ Len(new) < room => off + Len(new) = Len(all)
      /\ \A e \in 1 .. Len(text) : text[e] = all[from + e]
  <2>1. /\ new \in Seq(Int) /\ Len(new) \in Nat /\ Len(new) <= room
        /\ off + Len(new) <= Len(all)
        /\ Len(new) < room => off + Len(new) = Len(all)
        /\ \A e \in 1 .. Len(new) : new[e] = all[off + e]
    BY <1>5, <1>6, <1>7, NextAre
  <2>2. /\ text \in Seq(Int) /\ Len(text) = Len(carry) + Len(new)
        /\ \A e \in 1 .. Len(text) : text[e] = all[from + e]
    <3>1. off = from + Len(carry) /\ PartOf(new, all, off) /\ PartOf(carry, all, from)
      BY <2>1, <1>6 DEF PartOf
    <3>2. Glued(text, carry, new) /\ new \in Seq(Int) /\ carry \in Seq(Int) /\ from \in Nat
      BY <2>1, <1>5, <1>6
    <3>4. PartOf(text, all, from)
      BY <3>1, <3>2, TextIs
    <3>5. text \in Seq(Int)
      BY <3>1, <3>2, TextIs
    <3>6. Len(text) = Len(carry) + Len(new)
      BY <3>2, GluedIs
    <3>3. /\ text \in Seq(Int) /\ Len(text) = Len(carry) + Len(new)
          /\ PartOf(text, all, from)
      BY <3>4, <3>5, <3>6
    <3> QED  BY <3>3 DEF PartOf
  <2> QED  BY <2>1, <2>2
<1>9. /\ Len(text) \in Nat /\ Len(text) <= BlockSize
      /\ from + Len(text) = off + Len(new) /\ from + Len(text) <= Len(all)
      /\ off + Len(new) \in Nat
      /\ Len(text) < BlockSize => from + Len(text) = Len(all)
  <2>1. PICK size, more, whole, len : /\ size = Len(carry) /\ more = Len(new)
                                      /\ whole = Len(all) /\ len = Len(text)
    OBVIOUS
  <2>2. /\ size \in Nat /\ more \in Nat /\ whole \in Nat /\ BlockSize \in Nat /\ from \in Nat
        /\ off = from + size /\ len = size + more /\ room = BlockSize - size /\ more <= room
        /\ off + more <= whole /\ (more < room => off + more = whole)
    BY <2>1, <1>2, <1>4, <1>6, <1>7, <1>8
  <2>3. /\ len \in Nat /\ len <= BlockSize /\ from + len = off + more /\ from + len <= whole
        /\ off + more \in Nat /\ (len < BlockSize => from + len = whole)
    BY <2>2
  <2> QED  BY <2>1, <2>3
<1>10. DOMAIN text = 1 .. Len(text)
  BY <1>8
<1> QED  BY <1>2, <1>3, <1>4, <1>8, <1>9, <1>10 DEF TextUpTo

LEMMA ReadLinesFlows ==
  ASSUME Busy, NEW passed, NEW pos, Flows(passed, pos), NEW t, ReadLines(t), AllKept'
  PROVE  Flowing'
<1>1. PICK kinds : kinds = {"LineInput"}
  OBVIOUS
<1>2. kinds \subseteq Sources /\ Working(t, kinds) /\ UNCHANGED <<program, file, complete, main>>
  BY <1>1 DEF ReadLines, PassOn, Sources
<1>3. t = 1 /\ Working(1, kinds)
  BY <1>2, SourceIs
<1>4. /\ 1 \in DOMAIN threads /\ Linked /\ Round[1].kind \in kinds
      /\ IsLink(threads[1]) /\ IsBlock(threads[1].block)
  BY <1>2, SourceIs
<1>5. PICK new, text, ends :
        /\ new = NextOf(FileOf(1), Offset(1), BlockSize - Len(threads[1].carry))
        /\ text = threads[1].carry \o new
        /\ ends = {n \in DOMAIN text : text[n] = Newline}
  OBVIOUS
<1>6. /\ text \in Seq(Int) /\ Len(text) \in Nat /\ Len(text) <= BlockSize
      /\ DOMAIN text = 1 .. Len(text)
      /\ passed[1] \in Nat /\ Len(Entries) \in Nat /\ BlockSize \in Nat
      /\ threads[1].offset + Len(new) \in Nat
      /\ passed[1] + Len(text) = threads[1].offset + Len(new)
      /\ passed[1] + Len(text) <= Len(Entries)
      /\ \A e \in 1 .. Len(text) : text[e] = Entries[passed[1] + e]
      /\ Len(text) < BlockSize => passed[1] + Len(text) = Len(Entries)
  <2>1. Working(1, {"LineInput"})
    BY <1>1, <1>3
  <2>2. /\ new = NextOf(FileOf(1), Offset(1), BlockSize - Len(threads[1].carry))
        /\ Glued(text, threads[1].carry, new)
    BY <1>5 DEF Glued
  <2>3. TextUpTo(passed, text, threads[1].offset + Len(new))
    BY <2>1, <2>2, LinesRead
  <2> QED  BY <2>3 DEF TextUpTo
<1>7. /\ memory' = WithEntries(1, text)
      /\ \/ Len(text) < BlockSize /\ PassOn(1, Len(text), "last")
         \/ /\ Len(text) = BlockSize /\ ends # {}
            /\ queues' = Produced(1, Block(threads[1].block.mem, Max(ends)))
            /\ threads' = [threads EXCEPT ![1].at = "next", ![1].block.mem = NoMemory,
                                          ![1].offset = threads[1].offset + Len(new),
                                          ![1].carry = Carry(text, ends)]
  BY <1>3, <1>5 DEF ReadLines
<1>8. CASE Len(text) < BlockSize /\ PassOn(1, Len(text), "last")
  <2>1. PICK b : b = [threads[1].block EXCEPT !.valid = Len(text)]
    OBVIOUS
  <2>2. /\ queues' = Produced(1, b)
        /\ threads' = [threads EXCEPT ![1].at = "last", ![1].block.mem = NoMemory]
    BY <2>1, <1>8 DEF PassOn
  <2>3. b.mem = threads[1].block.mem /\ b.valid = Len(text)
    BY <2>1, <1>4 DEF IsBlock
  <2>4. Becomes(1, "last") /\ threads'[1].job = threads[1].job
    BY <2>2, <1>4, GivesPlain DEF IsLink, LinkFields
  <2>5. Fills(passed, text, Len(text))
    BY <1>6 DEF Fills
  <2>6. passed[1] + Len(text) = Len(Entries)
    BY <1>6, <1>8
  <2>7. "last" \in {"next", "last"} /\ "last" # "next"
    OBVIOUS
  <2> QED  BY <2>2, <2>3, <2>4, <2>5, <2>6, <2>7, <1>2, <1>3, <1>7, SourceGives
<1>9. CASE /\ Len(text) = BlockSize /\ ends # {}
           /\ queues' = Produced(1, Block(threads[1].block.mem, Max(ends)))
           /\ threads' = [threads EXCEPT ![1].at = "next", ![1].block.mem = NoMemory,
                                         ![1].offset = threads[1].offset + Len(new),
                                         ![1].carry = Carry(text, ends)]
  <2>1. PICK b, n, offset, carry : /\ n = Max(ends) /\ b = Block(threads[1].block.mem, n)
                                   /\ offset = threads[1].offset + Len(new)
                                   /\ carry = Carry(text, ends)
    OBVIOUS
  <2>2. n \in Nat /\ n > 0 /\ n <= Len(text)
    <3>1. ends \in SUBSET (1 .. Len(text)) /\ ends # {}
      BY <1>5, <1>6, <1>9
    <3>2. Max(ends) \in ends
      BY <3>1, <1>6, MaxIs
    <3>3. n \in 1 .. Len(text)
      BY <2>1, <3>1, <3>2
    <3> QED  BY <3>3, <1>6
  <2>3. /\ queues' = Produced(1, b) /\ b.mem = threads[1].block.mem /\ b.valid = n
        /\ threads' = [threads EXCEPT ![1].at = "next", ![1].block.mem = NoMemory,
                                      ![1].offset = offset, ![1].carry = carry]
    BY <2>1, <1>9 DEF Block
  <2>4. /\ Becomes(1, "next") /\ threads'[1].job = threads[1].job
        /\ threads'[1].offset = offset /\ threads'[1].carry = carry
    BY <2>3, <1>4, Gives DEF IsLink, LinkFields
  <2>5. Fills(passed, text, n)
    <3>1. PICK len, from, whole : len = Len(text) /\ from = passed[1] /\ whole = Len(Entries)
      OBVIOUS
    <3>2. n \in Nat /\ len \in Nat /\ from \in Nat /\ whole \in Nat /\ n <= len
          /\ from + len <= whole
      BY <3>1, <2>2, <1>6
    <3>3. from + n <= whole /\ 1 .. n \subseteq 1 .. len
      BY <3>2
    <3>4. \A e \in 1 .. n : text[e] = Entries[passed[1] + e]
      BY <3>1, <3>3, <1>6
    <3> QED  BY <3>1, <3>2, <3>3, <3>4, <1>6 DEF Fills
  <2>6. /\ carry \in Seq(Int) /\ Len(carry) = Len(text) - n
        /\ \A e \in 1 .. Len(carry) : carry[e] = text[n + e]
    <3>1. carry = SubSeq(text, n + 1, Len(text))
      BY <2>1 DEF Carry
    <3>2. PICK len : len = Len(text)
      OBVIOUS
    <3>3. \A i \in n + 1 .. len : text[i] \in Int
      BY <3>2, <2>2, <1>6
    <3>4. len \in Nat /\ n <= len /\ n + 1 \in Int /\ carry = SubSeq(text, n + 1, len)
      BY <3>1, <3>2, <2>2, <1>6
    <3>5. /\ carry \in Seq(Int) /\ Len(carry) = IF n + 1 <= len THEN len - (n + 1) + 1 ELSE 0
          /\ \A i \in 1 .. len - (n + 1) + 1 : carry[i] = text[n + 1 + i - 1]
      BY <3>3, <3>4, SubSeqProperties
    <3>6. Len(carry) = len - n
      BY <3>4, <3>5, <2>2
    <3>7. \A e \in 1 .. Len(carry) : carry[e] = text[n + e]
      BY <3>4, <3>5, <3>6, <2>2
    <3> QED  BY <3>2, <3>5, <3>6, <3>7
  <2>7. KeepsRest(passed, n, carry, offset)
    <3>1. passed[1] + n + Len(carry) = offset /\ offset \in Nat /\ offset <= Len(Entries)
          /\ Len(carry) < BlockSize
      BY <2>1, <2>2, <2>6, <1>6, <1>9
    <3>2. \A e \in 1 .. Len(carry) : carry[e] = Entries[passed[1] + n + e]
      <4> SUFFICES ASSUME NEW e \in 1 .. Len(carry)
                   PROVE  carry[e] = Entries[passed[1] + n + e]
        OBVIOUS
      <4>1. PICK len, from, more : len = Len(text) /\ from = passed[1] /\ more = Len(carry)
        OBVIOUS
      <4>2. /\ n \in Nat /\ len \in Nat /\ from \in Nat /\ more = len - n /\ n <= len
            /\ e \in 1 .. more
        BY <4>1, <2>2, <2>6, <1>6
      <4>3. n + e \in 1 .. len /\ from + (n + e) = from + n + e
        BY <4>2
      <4>4. carry[e] = text[n + e] /\ text[n + e] = Entries[from + (n + e)]
        BY <4>1, <4>3, <2>6, <1>6
      <4> QED  BY <4>1, <4>3, <4>4
    <3>3. Round[1].kind = "LineInput"
      BY <1>1, <1>4
    <3> QED  BY <3>1, <3>2, <3>3, <2>6 DEF KeepsRest
  <2>8. KeepsRest(passed, n, threads'[1].carry, threads'[1].offset)
    BY <2>4, <2>7
  <2>9. "next" \in {"next", "last"} /\ "next" # "last"
    OBVIOUS
  <2> QED  BY <2>3, <2>4, <2>5, <2>8, <2>9, <1>2, <1>3, <1>7, SourceGives
<1> QED  BY <1>7, <1>8, <1>9

-----------------------------------------------------------------------------
(* What the threads do *)

LEMMA ThreadFlows ==
  ASSUME Flowing, NEW t, ThreadStep(t), ~Throw(t), AllKept'
  PROVE  Flowing'
<1>0. PICK passed, pos : Busy /\ Flows(passed, pos)
  BY DEF Flowing
<1>1. CASE Consume(t)
  BY <1>0, <1>1, ConsumeFlows
<1>2. CASE PassPoison(t)
  BY <1>0, <1>2, PassPoisonFlows
<1>3. CASE ReadBlock(t)
  BY <1>0, <1>3, ReadBlockFlows
<1>4. CASE WriteStream(t)
  BY <1>0, <1>4, WriteStreamFlows
<1>5. CASE ReadLines(t)
  BY <1>0, <1>5, ReadLinesFlows
<1>6. CASE ChangeStream(t)
  BY <1>0, <1>6, ChangeStreamFlows
<1>7. CASE CountRecords(t)
  BY <1>0, <1>7, CountRecordsFlows
<1>8. CASE Write(t)
  <2>1. PICK kinds, size : kinds = {"Write"} /\ size = threads[t].block.valid
    OBVIOUS
  <2>2. /\ Working(t, kinds) /\ PassOn(t, size, "next")
        /\ file' = [file EXCEPT ![threads[t].job.file] = @ \o EntriesOf(t)]
        /\ UNCHANGED <<program, memory, complete, main>>
    BY <2>1, <1>8 DEF Write
  <2> QED  BY <2>1, <2>2, <1>0, WriteFlows
<1>9. CASE WriteAndRecycle(t)
  <2>1. PICK kinds, size : kinds = {"WriteAndRecycle"} /\ size = BlockSize
    OBVIOUS
  <2>2. /\ Working(t, kinds) /\ PassOn(t, size, "next")
        /\ file' = [file EXCEPT ![threads[t].job.file] = @ \o EntriesOf(t)]
        /\ UNCHANGED <<program, memory, complete, main>>
    BY <2>1, <1>9 DEF WriteAndRecycle
  <2> QED  BY <2>1, <2>2, <1>0, WriteFlows
<1>10. CASE PWriteAndRecycle(t)
  BY <1>0, <1>10, PWriteFlows
<1>11. CASE Recycle(t)
  BY <1>0, <1>11, RecycleFlows
<1> QED  BY <1>1, <1>2, <1>3, <1>4, <1>5, <1>6, <1>7, <1>8, <1>9, <1>10, <1>11 DEF ThreadStep

LEMMA ThreadsDeliver ==
  ASSUME DeliversInv, NEW t \in 1 .. MaxThreads, ThreadStep(t)
  PROVE  DeliversInv'
<1>1. ChainInv' /\ ChainInv
  BY ChainNextKeeps DEF DeliversInv, ChainNext
<1>2. t \in DOMAIN threads /\ threads[t].at # "ended" /\ main' \in {main, "terminated"}
      /\ main \notin {"abort", "terminated"}
  BY DEF ThreadStep, Consume, PassPoison, Throw, ReadBlock, WriteStream, ReadLines,
         ChangeStream, CountRecords, Write, WriteAndRecycle, PWriteAndRecycle, Recycle,
         Working, Running, SizeIsWrong
<1>3. main \notin {"drain", "clear"}
  BY <1>2 DEF DeliversInv, HasEnded
<1>4. CASE main' = "terminated"
  BY <1>1, <1>4 DEF DeliversInv
<1>5. CASE main \in {"build", "join"} /\ main' # "terminated"
  <2>1. threads # <<>>
    BY <1>2
  <2>2. AllKept /\ queues # <<>> /\ Flowing
    BY <2>1, <1>1, <1>5 DEF DeliversInv, ChainInv, AllKept
  <2>3. main' = main /\ AllKept' /\ queues' # <<>>
    BY <2>2, <1>5, WorkersKeep
  <2>4. ~Throw(t)
    BY <1>5 DEF Throw
  <2>5. Flowing'
    BY <2>2, <2>3, <2>4, ThreadFlows
  <2>6. Ready'
    BY <2>5 DEF Flowing, Busy, Ready
  <2> QED  BY <1>1, <1>3, <1>5, <2>3, <2>5, <2>6 DEF DeliversInv
<1>6. CASE main \notin {"build", "join"} /\ main' # "terminated"
  <2>1. main' \notin {"build", "join", "drain", "clear"}
    BY <1>2, <1>3, <1>6
  <2> QED  BY <1>1, <2>1 DEF DeliversInv
<1> QED  BY <1>4, <1>5, <1>6

-----------------------------------------------------------------------------
(* What the owner does, and what a chain delivers *)

LEMMA ChainStarts == ChainInit => DeliversInv
<1> SUFFICES ASSUME ChainInit, main = "build" PROVE Ready
  BY ChainInitIsRight DEF DeliversInv, ChainInit
<1>1. /\ program \in Programs /\ file = Files /\ ~BadConfig
      /\ memory = [b \in Blocks |-> [e \in 1 .. BlockSize |-> 0]]
  BY DEF ChainInit
<1>2. /\ IsSeq(program) /\ program # <<>>
      /\ \A i \in DOMAIN program :
           /\ IsSeq(program[i]) /\ program[i] # <<>>
           /\ \A n \in DOMAIN program[i] :
                /\ program[i][n].kind \in Sources <=> n = 1
                /\ program[i][n].kind \in Sinks => n = Len(program[i])
  <2>1. \A i \in DOMAIN program : program[i] \in ToSet(program)
    BY DEF ToSet
  <2> QED  BY <1>1, <2>1, ProgramsAssumption DEF IsSeq
<1>3. ASSUME NEW i \in DOMAIN program, NEW n \in DOMAIN program[i]
      PROVE  /\ program[i][n].kind = "Stream" => program[i][n].entries \in Seq(Int)
             /\ HasFile(program[i][n]) =>
                  /\ program[i][n].file \in DOMAIN Files
                  /\ \A m \in DOMAIN program[i] :
                       m # n /\ HasFile(program[i][m]) => program[i][m].file # program[i][n].file
             /\ program[i][n].kind \in Appenders =>
                  /\ Files[program[i][n].file] = <<>>
                  /\ \A j \in 1 .. (i - 1) : \A m \in DOMAIN program[j] :
                       program[j][m].kind \in Writers => program[j][m].file # program[i][n].file
  BY <1>1, FilesAssumption
<1>4. \A i \in DOMAIN program : RoundIsRight(program[i])
  BY <1>2, <1>3 DEF RoundIsRight
<1>5. ProgramIsRight(program)
  BY <1>2, <1>3, <1>4 DEF ProgramIsRight
<1>6. FilesAre
  BY <1>1, FilesAssumption DEF FilesAre
<1>7. MemoryIs
  <2>1. BlockSize \in Nat
    BY <1>1, BlockSizeIs
  <2>2. PICK size : size = BlockSize
    OBVIOUS
  <2>3. [e \in 1 .. size |-> 0] \in Seq(Int) /\ Len([e \in 1 .. size |-> 0]) = size
    BY <2>1, <2>2
  <2> QED  BY <1>1, <2>2, <2>3 DEF MemoryIs
<1>8. NotYetWritten
  BY <1>1, <1>3 DEF NotYetWritten
<1> QED  BY <1>1, <1>2, <1>5, <1>6, <1>7, <1>8 DEF Ready

\* Thread t begins: it has taken and passed nothing.
LEMMA BeginsEmpty ==
  ASSUME NEW task, NEW in, NEW out, NEW th, th = Thread(task, in, out)
  PROVE  /\ th.job = task /\ th.in = in /\ th.out = out /\ th.at = "enter"
         /\ th.offset = 0 /\ th.carry = <<>>
BY DEF Thread

LEMMA NothingIs ==
  ASSUME NEW none, none = <<>>
  PROVE  /\ none \in Seq(Int) /\ none \in Seq(Nat) /\ none \in Seq({})
         /\ Len(none) = 0 /\ DOMAIN none = {}
OBVIOUS

\* The first worker, with all the blocks before it.
LEMMA FirstFlows ==
  ASSUME Ready, main = "build", ~complete, queues = <<>>, threads = <<>>, AllKept',
         NEW th, th = Thread(Round[1], 1, 2), threads' = <<th>>,
         queues' = Append(<<AllBlocks>>, <<>>),
         UNCHANGED <<program, file, memory, complete, main>>
  PROVE  Flowing'
<1>1. /\ 1 \in DOMAIN Round /\ Len(Round) \in Nat /\ Len(Round) > 0 /\ RoundIsRight(Round)
      /\ Round[1].kind \in Sources /\ Round[1].kind \notin Sinks
  <2>1. /\ RoundIsRight(Round) /\ Len(Round) \in Nat /\ Len(Round) > 0
        /\ DOMAIN Round = 1 .. Len(Round) /\ Round[1].kind \in Sources
    BY RoundIs DEF Ready
  <2> QED  BY <2>1 DEF Sources, Sinks
<1>2. /\ th.job = Round[1] /\ th.in = 1 /\ th.out = 2 /\ th.at = "enter"
      /\ th.offset = 0 /\ th.carry = <<>>
  BY BeginsEmpty
<1>3. /\ Len(threads') = 1 /\ DOMAIN threads' = {1} /\ threads'[1] = th /\ threads' # <<>>
  OBVIOUS
<1>4. /\ Len(queues') = 2 /\ DOMAIN queues' = {1, 2} /\ queues' # <<>>
      /\ queues'[1] = AllBlocks /\ queues'[2] = <<>>
  <2>1. <<AllBlocks>> \in Seq({AllBlocks}) /\ Len(<<AllBlocks>>) = 1
        /\ <<AllBlocks>>[1] = AllBlocks
    OBVIOUS
  <2>2. IsSeq(<<AllBlocks>>)
    BY <2>1, SeqIsSeq
  <2>3. /\ IsSeq(queues') /\ DOMAIN queues' = {1, 2}
        /\ queues'[1] = AllBlocks /\ queues'[2] = <<>>
    BY <2>1, <2>2, AppendIs, SeqFacts
  <2>4. Len(queues') = 2
    BY <2>1, <2>2, AppendIs
  <2> QED  BY <2>3, <2>4
<1>5. /\ DOMAIN AllBlocks = Blocks
      /\ \A i \in Blocks : /\ AllBlocks[i].mem = i /\ AllBlocks[i].valid = BlockSize
                           /\ ~IsPoison(AllBlocks[i])
  <2>1. \A i \in Blocks : i # NoMemory
    BY ConfigAssumption DEF Blocks, NoMemory
  <2> QED  BY <2>1 DEF AllBlocks, Block, IsPoison
<1>6. JobAt(1) = Round[1]
  BY <1>1 DEF JobAt
<1>7. Round' = Round /\ (\A u : JobAt(u)' = JobAt(u)) /\ BlockSize' = BlockSize /\ Blocks' = Blocks
      /\ Entries' = Entries /\ Entries \in Seq(Int) /\ Len(Entries) \in Nat
      /\ BlockSize \in Nat /\ BlockSize > 0
  BY ConstantsStay, BlockSizeIs, EntriesAre DEF Round, JobAt, Entries, SourceOf, Ready
<1>8. InLine'
  BY <1>1, <1>2, <1>3, <1>4, <1>6, <1>7 DEF InLine
<1>9. PoisonIsLast'
  <2>1. \A i \in DOMAIN queues'[1] : ~IsPoison(queues'[1][i])
    BY <1>4, <1>5
  <2> QED  BY <2>1, <1>2, <1>3, <1>4 DEF PoisonIsLast, IsPoison
<1>10. Busy'
  <2>1. ProgramIsRight(program)' /\ program' # <<>> /\ ~BadConfig'
    BY ProgramStays, ConfigStays DEF Ready
  <2>2. FilesAre' /\ MemoryIs'
    BY <1>7 DEF FilesAre, MemoryIs, Ready
  <2>3. NotYetWritten'
    <3>1. Len(threads) = 0
      <4>1. threads = <<>>
        OBVIOUS
      <4> QED  BY <4>1, NothingIs
    <3>2. NotYetWritten
      BY DEF Ready
    <3>3. \A i \in DOMAIN program : \A n \in DOMAIN program[i] : n > 1 => n > 0
      <4>1. \A i \in DOMAIN program : IsSeq(program[i])
        BY DEF Ready, ProgramIsRight, RoundIsRight
      <4> QED  BY <4>1, SeqFacts
    <3> QED  BY <1>3, <3>1, <3>2, <3>3 DEF NotYetWritten
  <2> QED  BY <1>4, <1>8, <1>9, <2>1, <2>2, <2>3 DEF Busy
<1>11. PICK passed : passed = [u \in {1} |-> 0]
  OBVIOUS
<1>12. PICK pos : pos = [q \in {1, 2} |-> <<>>]
  OBVIOUS
<1>13. FirstQueue'
  BY <1>4, <1>5, <1>7 DEF FirstQueue, IsPoison
<1>14. SourceFlows(passed)'
  <2>0. PICK none : none = <<>>
    OBVIOUS
  <2>1. none = <<>> /\ none \in Seq(Int) /\ Len(none) = 0
    BY <2>0, NothingIs
  <2>2. passed[1] = 0 /\ threads'[1] = th /\ th.carry = none
    BY <2>1, <1>2, <1>3, <1>11
  <2>3. th.at \notin {"work", "last", "poison", "ended"}
    BY <1>2
  <2>4. \A e \in 1 .. Len(none) : none[e] = Entries[passed[1] + e]
    BY <2>1
  <2>5. threads'[1].at \notin {"work", "last", "poison", "ended"}
    BY <2>2, <2>3
  <2>6. threads'[1].carry = none /\ threads'[1].offset = 0
    BY <2>2, <1>2
  <2>7. passed[1] + Len(none) = 0 /\ 0 <= Len(Entries) /\ Len(none) < BlockSize
    BY <2>1, <2>2, <1>7
  <2>8. /\ threads'[1].carry \in Seq(Int) /\ threads'[1].offset \in Nat
        /\ passed[1] + Len(threads'[1].carry) = threads'[1].offset
        /\ threads'[1].offset <= Len(Entries')
        /\ Len(threads'[1].carry) < BlockSize'
        /\ \A e \in 1 .. Len(threads'[1].carry) :
             threads'[1].carry[e] = Entries'[passed[1] + e]
        /\ threads'[1].carry = <<>>
    <3>1. PICK carry, offset : carry = threads'[1].carry /\ offset = threads'[1].offset
      OBVIOUS
    <3>2. /\ carry \in Seq(Int) /\ offset \in Nat
          /\ passed[1] + Len(carry) = offset
          /\ offset <= Len(Entries') /\ Len(carry) < BlockSize'
      <4>1. carry = none /\ offset = 0
        BY <3>1, <2>6
      <4>2. PICK size, all : size = BlockSize' /\ all = Len(Entries')
        OBVIOUS
      <4>3. 0 <= all /\ Len(none) < size
        BY <4>2, <2>7, <1>7
      <4> QED  BY <4>1, <4>2, <4>3, <2>1, <2>7
    <3>3. \A e \in 1 .. Len(carry) : carry[e] = Entries'[passed[1] + e]
      BY <3>1, <2>1, <2>4, <2>6, <1>7
    <3>4. carry = <<>>
      BY <3>1, <2>1, <2>6
    <3> HIDE <2>4
    <3> QED  BY <3>1, <3>2, <3>3, <3>4
  <2> QED  BY <2>5, <2>8 DEF SourceFlows
<1>15. Noted(passed, 1)'
  BY <1>1, <1>6, <1>7 DEF Noted, Sources, Writers, Appenders
<1>16. QueueFlows(passed, pos, 2)'
  <2>1. pos[2] = <<>> /\ passed[1] = 0 /\ 2 - 1 = 1 /\ <<>> \in Seq(Nat) /\ DOMAIN <<>> = {}
    BY <1>11, <1>12
  <2>2. NextIn(passed, pos, 2)' = 0
    BY <2>1, <1>4 DEF NextIn
  <2> QED  BY <2>1, <2>2, <1>3, <1>4 DEF QueueFlows
<1>17. passed \in [{1} -> Nat] /\ DOMAIN pos = {1, 2}
  BY <1>11, <1>12
<1>18. Flows(passed, pos)'
  BY <1>3, <1>4, <1>13, <1>14, <1>15, <1>16, <1>17 DEF Flows
<1> QED  BY <1>10, <1>18 DEF Flowing

\* One more worker joins a chain: its last worker, if it closes the loop.
Enters(n, th) ==
  /\ main = "build" /\ ~complete
  /\ n = Len(threads) + 1 /\ n <= Len(Round) + 1
  /\ th.job = JobAt(n) /\ th.in = n /\ th.at = "enter" /\ th.offset = 0
  /\ th.out = IF complete' THEN 1 ELSE n + 1
  /\ threads' = Append(threads, th)
  /\ queues' = IF complete' THEN queues ELSE Append(queues, <<>>)
  /\ complete' <=> JobAt(n).kind \in Sinks
  /\ main' \in {"build", "join"}
  /\ main' = "build" => n <= Len(Round)
  /\ main' = "join" => complete'
  /\ UNCHANGED <<program, file, memory>>

LEMMA EntersAt ==
  ASSUME Busy, NEW n, NEW th, Enters(n, th)
  PROVE  /\ n \in Nat /\ n > 1 /\ Len(threads) = n - 1 /\ DOMAIN threads = 1 .. (n - 1)
         /\ Len(threads') = n /\ DOMAIN threads' = 1 .. n /\ threads'[n] = th
         /\ \A t \in DOMAIN threads : threads'[t] = threads[t]
         /\ Len(queues) = n /\ DOMAIN queues = 1 .. n
         /\ Len(queues') = (IF complete' THEN n ELSE n + 1)
         /\ DOMAIN queues' = 1 .. (IF complete' THEN n ELSE n + 1)
         /\ \A q \in DOMAIN queues : queues'[q] = queues[q]
         /\ ~complete' => queues'[n + 1] = <<>>
         /\ queues' # <<>> /\ threads' # <<>> /\ threads # <<>>
         /\ Round' = Round /\ (\A u : JobAt(u)' = JobAt(u))
<1>1. /\ DOMAIN queues = 1 .. Len(queues) /\ Len(queues) \in Nat
      /\ DOMAIN threads = 1 .. Len(threads) /\ Len(threads) \in Nat /\ Len(threads) > 0
      /\ Len(queues) = IF complete THEN Len(threads) ELSE Len(threads) + 1
  BY QueuesAre
<1>2. n = Len(threads) + 1 /\ ~complete
  BY DEF Enters
<1>3. /\ n \in Nat /\ n > 1 /\ Len(threads) = n - 1 /\ DOMAIN threads = 1 .. (n - 1)
      /\ Len(queues) = n /\ DOMAIN queues = 1 .. n
  BY <1>1, <1>2
<1>4. IsSeq(queues) /\ IsSeq(threads)
  BY DEF Busy, AllKept, Linked
<1>5. /\ Len(threads') = n /\ DOMAIN threads' = 1 .. n /\ threads'[n] = th
      /\ \A t \in DOMAIN threads : threads'[t] = threads[t]
  <2>1. threads' = Append(threads, th) /\ Len(threads) + 1 = n
    BY <1>2 DEF Enters
  <2> QED  BY <2>1, <1>4, AppendIs
<1>6. CASE complete'
  <2>1. queues' = queues
    BY <1>6 DEF Enters
  <2>2. threads # <<>> /\ queues # <<>> /\ threads' # <<>>
    BY <1>1, <1>3, <1>4, <1>5, SeqFacts DEF Enters
  <2>3. Round' = Round /\ (\A u : JobAt(u)' = JobAt(u))
    BY DEF Enters, Round, JobAt
  <2> QED  BY <1>3, <1>5, <1>6, <2>1, <2>2, <2>3
<1>7. CASE ~complete'
  <2>1. queues' = Append(queues, <<>>)
    BY <1>7 DEF Enters
  <2>2. /\ Len(queues') = n + 1 /\ DOMAIN queues' = 1 .. (n + 1)
        /\ (\A q \in DOMAIN queues : queues'[q] = queues[q]) /\ queues'[n + 1] = <<>>
    BY <2>1, <1>3, <1>4, AppendIs
  <2>3. threads # <<>> /\ queues' # <<>> /\ threads' # <<>>
    BY <1>1, <1>3, <1>4, <1>5, <2>1, <2>2, AppendIs, SeqFacts DEF Enters
  <2>4. Round' = Round /\ (\A u : JobAt(u)' = JobAt(u))
    BY DEF Enters, Round, JobAt
  <2> QED  BY <1>3, <1>5, <1>7, <2>2, <2>3, <2>4
<1> QED  BY <1>6, <1>7

LEMMA EntersBusy ==
  ASSUME Busy, NEW n, NEW th, Enters(n, th), AllKept'
  PROVE  Busy'
<1>1. /\ n \in Nat /\ n > 1 /\ Len(threads) = n - 1 /\ DOMAIN threads = 1 .. (n - 1)
      /\ Len(threads') = n /\ DOMAIN threads' = 1 .. n /\ threads'[n] = th
      /\ \A t \in DOMAIN threads : threads'[t] = threads[t]
      /\ Len(queues) = n /\ DOMAIN queues = 1 .. n
      /\ Len(queues') = (IF complete' THEN n ELSE n + 1)
      /\ DOMAIN queues' = 1 .. (IF complete' THEN n ELSE n + 1)
  BY EntersAt
<1>2. /\ \A q \in DOMAIN queues : queues'[q] = queues[q]
      /\ ~complete' => queues'[n + 1] = <<>>
      /\ queues' # <<>> /\ threads' # <<>> /\ threads # <<>>
      /\ Round' = Round /\ (\A u : JobAt(u)' = JobAt(u))
  BY EntersAt
<1>3. /\ Busy /\ InLine /\ PoisonIsLast /\ queues # <<>>
      /\ ~complete /\ n <= Len(Round) + 1
      /\ th.job = JobAt(n) /\ th.in = n /\ th.at = "enter"
      /\ th.out = (IF complete' THEN 1 ELSE n + 1)
      /\ (complete' <=> JobAt(n).kind \in Sinks)
      /\ (main' = "build" => n <= Len(Round)) /\ (main' = "join" => complete')
      /\ UNCHANGED <<program, file, memory>>
  BY DEF Enters, Busy
<1>4. InLine'
  <2>1. JobAt(n - 1).kind \notin Sinks
    BY <1>1, <1>2, <1>3 DEF InLine
  <2>2. n = Len(Round) + 1 => JobAt(Len(Round)).kind \notin Sinks
    <3>1. Len(Round) \in Nat
      BY RoundIs DEF Busy
    <3> QED  BY <2>1, <3>1, <1>1
  <2>3. ASSUME NEW t \in DOMAIN threads'
        PROVE  /\ threads'[t].job = JobAt(t) /\ threads'[t].in = t
               /\ threads'[t].out = IF JobAt(t).kind \in Sinks THEN 1 ELSE t + 1
    <3>1. CASE t \in DOMAIN threads
      BY <3>1, <1>2, <1>1, <1>3 DEF InLine
    <3>2. CASE t = n
      BY <3>2, <1>1, <1>3
    <3> QED  BY <3>1, <3>2, <1>1
  <2>4. Sinks' = Sinks
    BY DEF Sinks
  <2>5. JobAt(Len(threads))' = JobAt(n) /\ JobAt(Len(Round))' = JobAt(Len(Round))
    BY <1>1, <1>2 DEF JobAt
  <2>6. /\ (Len(threads) <= Len(Round) + 1)'
        /\ (main = "build" => Len(threads) <= Len(Round))'
        /\ (main = "join" => complete)'
    BY <1>1, <1>2, <1>3
  <2>7. (complete <=> threads # <<>> /\ JobAt(Len(threads)).kind \in Sinks)'
    BY <1>2, <1>3, <2>4, <2>5
  <2>8. (Len(threads) = Len(Round) + 1 => JobAt(Len(Round)).kind \notin Sinks)'
    BY <2>2, <1>1, <1>2, <2>4, <2>5
  <2>9. (queues # <<>> => threads # <<>>
                          /\ Len(queues) = IF complete THEN Len(threads) ELSE Len(threads) + 1)'
    BY <1>1, <1>2
  <2>10. (\A t \in DOMAIN threads :
            /\ threads[t].job = JobAt(t) /\ threads[t].in = t
            /\ threads[t].out = IF JobAt(t).kind \in Sinks THEN 1 ELSE t + 1)'
    BY <2>3, <1>2, <2>4
  <2> QED  BY <2>6, <2>7, <2>8, <2>9, <2>10 DEF InLine
<1>5. PoisonIsLast'
  <2>1. ASSUME NEW t \in DOMAIN threads'
        PROVE  /\ threads'[t].at \in {"enter", "next", "last", "work", "poison", "ended"}
               /\ threads'[t].at = "last" => t = 1
               /\ t # 1 /\ threads'[t].at \in {"poison", "ended"} =>
                    queues'[t] = <<>> /\ \A s \in 1 .. (t - 1) : threads'[s].at = "ended"
    <3>1. CASE t \in DOMAIN threads
      <4>1. /\ threads'[t] = threads[t] /\ queues'[t] = queues[t]
            /\ \A s \in 1 .. (t - 1) : s \in DOMAIN threads /\ threads'[s] = threads[s]
        BY <3>1, <1>1, <1>2
      <4> QED  BY <3>1, <4>1, <1>3 DEF PoisonIsLast, HasEnded
    <3>2. CASE t = n
      BY <3>2, <1>1, <1>3
    <3> QED  BY <3>1, <3>2, <1>1
  <2>2. ASSUME NEW q \in DOMAIN queues', NEW i \in DOMAIN queues'[q], IsPoison(queues'[q][i])
        PROVE  /\ q # 1 /\ i = Len(queues'[q])
               /\ \A s \in 1 .. (q - 1) : threads'[s].at = "ended"
    <3>1. CASE q \in DOMAIN queues
      <4>1. queues'[q] = queues[q]
        BY <3>1, <1>2
      <4>2. /\ q # 1 /\ i = Len(queues[q])
            /\ \A s \in 1 .. (q - 1) : HasEnded(s)
        BY <2>2, <3>1, <4>1, <1>3 DEF PoisonIsLast
      <4>3. \A s \in 1 .. (q - 1) : threads'[s] = threads[s]
        BY <3>1, <1>1, <1>2
      <4> QED  BY <4>1, <4>2, <4>3 DEF HasEnded
    <3>2. CASE q \notin DOMAIN queues
      <4>1. queues'[q] = <<>>
        BY <3>2, <1>1, <1>2
      <4>2. DOMAIN queues'[q] = {}
        BY <4>1, NothingIs
      <4> QED  BY <2>2, <4>2
    <3> QED  BY <3>1, <3>2
  <2> QED  BY <2>1, <2>2 DEF PoisonIsLast, HasEnded, IsPoison
<1>6. ProgramIsRight(program)' /\ program' # <<>> /\ ~BadConfig'
  BY <1>3, ProgramStays, ConfigStays DEF Busy
<1>7. FilesAre' /\ MemoryIs'
  BY <1>3, ConstantsStay DEF FilesAre, MemoryIs, Busy
<1>8. NotYetWritten'
  <2>1. NotYetWritten
    BY DEF Busy
  <2>2. \A i \in DOMAIN program : \A m \in DOMAIN program[i] : m > n => m > n - 1
    <3>1. \A i \in DOMAIN program : IsSeq(program[i])
      BY DEF Busy, ProgramIsRight, RoundIsRight
    <3>2. \A i \in DOMAIN program : \A m \in DOMAIN program[i] : m \in Int
      BY <3>1, SeqFacts
    <3>3. \A m \in Int : m > n => m > n - 1
      BY <1>1
    <3> QED  BY <3>2, <3>3
  <2> QED  BY <2>1, <2>2, <1>1, <1>3 DEF NotYetWritten
<1> QED  BY <1>2, <1>4, <1>5, <1>6, <1>7, <1>8 DEF Busy

\* The queue that nobody took from has a worker now, which has taken nothing yet.
LEMMA LastQueueStays ==
  ASSUME Linked, NEW t, UNCHANGED program, Unspoiled(t),
         NEW passed, NEW pos, NEW p2, NEW s2, NEW q \in DOMAIN queues,
         QueueFlows(passed, pos, q),
         queues'[q] = queues[q], s2[q] = pos[q], p2[q - 1] = passed[q - 1],
         q \in DOMAIN threads', q \notin DOMAIN threads, p2[q] = 0, HeldBy(q)' = 0
  PROVE  QueueFlows(p2, s2, q)'
<1>1. StreamAfter(q - 1)' = StreamAfter(q - 1) /\ Blocks' = Blocks /\ BlockSize' = BlockSize
  BY StreamStays, ConstantsStay DEF Unspoiled
<1>2. \A i \in DOMAIN queues[q] :
        ~IsPoison(queues[q][i]) => memory'[queues[q][i].mem] = memory[queues[q][i].mem]
  BY DEF Unspoiled
<1>3. \A i \in DOMAIN queues[q] :
        ~IsPoison(queues[q][i])
          => Carries(memory', StreamAfter(q - 1), queues[q][i], pos[q][i])
  BY <1>2 DEF QueueFlows, Carries
<1>4. \A i \in DOMAIN queues'[q] :
        ~IsPoison(queues'[q][i])
          => Carries(memory, StreamAfter(q - 1), queues[q][i], s2[q][i])'
  BY <1>1, <1>3 DEF Carries
<1>5. \A i \in DOMAIN queues'[q] :
         s2[q][i] + SizeOf(queues[q][i])'
            = IF i = Len(queues'[q]) THEN p2[q - 1] ELSE s2[q][i + 1]
  BY DEF QueueFlows, SizeOf, IsPoison
<1>6. NextIn(p2, s2, q)' = NextIn(passed, pos, q)
  BY DEF NextIn
<1>7. s2[q] \in Seq(Nat) /\ Len(s2[q]) = Len(queues'[q])
  BY DEF QueueFlows
<1>8. NextIn(p2, s2, q)' = p2[q] + HeldBy(q)'
  BY <1>6 DEF QueueFlows
<1> QED  BY <1>4, <1>5, <1>7, <1>8 DEF QueueFlows, IsPoison

LEMMA EntersFlows ==
  ASSUME Flowing, NEW n, NEW th, Enters(n, th), AllKept'
  PROVE  Flowing'
<1>0. PICK passed, pos : Busy /\ Flows(passed, pos)
  BY DEF Flowing
<1>1. /\ n \in Nat /\ n > 1 /\ Len(threads) = n - 1 /\ DOMAIN threads = 1 .. (n - 1)
      /\ Len(threads') = n /\ DOMAIN threads' = 1 .. n /\ threads'[n] = th
      /\ \A t \in DOMAIN threads : threads'[t] = threads[t]
      /\ Len(queues) = n /\ DOMAIN queues = 1 .. n
      /\ DOMAIN queues' = 1 .. (IF complete' THEN n ELSE n + 1)
  BY <1>0, EntersAt
<1>2. /\ \A q \in DOMAIN queues : queues'[q] = queues[q]
      /\ ~complete' => queues'[n + 1] = <<>>
      /\ queues' # <<>> /\ threads' # <<>> /\ threads # <<>>
      /\ Round' = Round /\ (\A u : JobAt(u)' = JobAt(u))
  BY <1>0, EntersAt
<1>3. /\ Busy' /\ UNCHANGED <<program, file, memory>>
      /\ th.job = JobAt(n) /\ th.at = "enter" /\ th.offset = 0
  BY <1>0, EntersBusy DEF Enters
<1>4. /\ passed \in [DOMAIN threads -> Nat] /\ DOMAIN pos = DOMAIN queues
      /\ FirstQueue /\ SourceFlows(passed)
      /\ \A t \in DOMAIN threads : t # 1 => HeldFlows(passed, t)
      /\ \A t \in DOMAIN threads : Noted(passed, t)
      /\ \A q \in DOMAIN queues : q # 1 => QueueFlows(passed, pos, q)
  BY <1>0, <1>2 DEF Flows
<1>5. PICK p2 : p2 = [t \in DOMAIN threads' |-> IF t = n THEN 0 ELSE passed[t]]
  OBVIOUS
<1>6. PICK s2 : s2 = [q \in DOMAIN queues' |-> IF q \in DOMAIN queues THEN pos[q] ELSE <<>>]
  OBVIOUS
<1>7. /\ p2 \in [DOMAIN threads' -> Nat] /\ p2[n] = 0
      /\ \A t \in DOMAIN threads : p2[t] = passed[t]
  BY <1>1, <1>4, <1>5
<1>8. /\ DOMAIN s2 = DOMAIN queues' /\ \A q \in DOMAIN queues : s2[q] = pos[q]
      /\ ~complete' => s2[n + 1] = <<>>
  BY <1>1, <1>6
<1>9. Entries' = Entries
  BY <1>3 DEF Entries, SourceOf, Round
<1>10. Unspoiled(n) /\ Linked
  BY <1>0, <1>3, <1>9 DEF Unspoiled, Busy, AllKept
<1>11. FirstQueue'
  <2>1. queues'[1] = queues[1]
    BY <1>1, <1>2
  <2> QED  BY <2>1, <1>4, ConstantsStay DEF FirstQueue, IsPoison
<1>12. SourceFlows(p2)'
  <2>1. 1 \in DOMAIN threads
    BY <1>1
  <2>2. threads'[1] = threads[1] /\ p2[1] = passed[1]
    BY <2>1, <1>1, <1>7
  <2> QED  BY <2>2, <1>3, <1>4, <1>10, SourceStays
<1>13. ASSUME NEW t \in DOMAIN threads', t # 1
       PROVE  HeldFlows(p2, t)'
  <2>1. CASE t = n
    <3>1. threads'[t].at = "enter"
      BY <2>1, <1>1, <1>3
    <3> QED  BY <3>1 DEF HeldFlows
  <2>2. CASE t # n
    <3>1. t \in DOMAIN threads
      BY <2>2, <1>1
    <3>2. threads'[t] = threads[t] /\ p2[t] = passed[t] /\ HeldFlows(passed, t)
      BY <3>1, <1>1, <1>4, <1>7, <1>13
    <3> QED  BY <2>2, <3>1, <3>2, <1>3, <1>10, HeldStays
  <2> QED  BY <2>1, <2>2
<1>14. Noted(p2, n)'
  <2>1. RoundIsRight(Round) /\ Len(Round) \in Nat /\ DOMAIN Round = 1 .. Len(Round)
        /\ Round = program[1] /\ 1 \in DOMAIN program
    BY <1>0, RoundIs DEF Busy
  <2>2. ASSUME JobAt(n).kind \in Writers
        PROVE  /\ n \in DOMAIN Round /\ JobAt(n) = Round[n]
               /\ file[JobAt(n).file] \in Seq(Int)
    <3>1. n <= Len(Round)
      BY <2>2 DEF JobAt, Writers, Appenders
    <3>2. n \in DOMAIN Round /\ JobAt(n) = Round[n]
      BY <3>1, <2>1, <1>1 DEF JobAt
    <3>3. HasFile(Round[n])
      BY <2>2, <3>2 DEF HasFile
    <3>4. Round[n].file \in DOMAIN Files
      BY <3>2, <3>3, <2>1 DEF RoundIsRight
    <3> QED  BY <3>2, <3>4, <1>0 DEF Busy, FilesAre
  <2>3. ASSUME JobAt(n).kind \in Appenders
        PROVE  Len(file[JobAt(n).file]) = 0
    <3>1. n \in DOMAIN Round /\ JobAt(n) = Round[n]
      BY <2>2, <2>3 DEF Writers
    <3>2. n > Len(threads)
      BY <1>1
    <3>3. NotYetWritten
      BY <1>0 DEF Busy
    <3>4. file[JobAt(n).file] = <<>>
      BY <2>1, <2>3, <3>1, <3>2, <3>3 DEF NotYetWritten
    <3> QED  BY <3>4, NothingIs
  <2>4. ASSUME JobAt(n).kind \in Writers
        PROVE  Begins(file[JobAt(n).file], StreamAfter(n)', 0)
    <3>1. Len(file[JobAt(n).file]) \in Nat
      BY <2>2, <2>4
    <3> QED  BY <3>1 DEF Begins
  <2>5. threads'[n].offset = 0 /\ threads'[n].at = "enter" /\ p2[n] = 0
    BY <1>1, <1>3, <1>7
  <2>6. JobAt(n)' = JobAt(n) /\ file' = file
    BY <1>2, <1>3
  <2> QED  BY <2>3, <2>4, <2>5, <2>6 DEF Noted, HasEnded, Begins, Writers, Appenders
<1>15. ASSUME NEW t \in DOMAIN threads'
       PROVE  Noted(p2, t)'
  <2>1. CASE t = n
    BY <2>1, <1>14
  <2>2. CASE t # n
    <3>1. t \in DOMAIN threads
      BY <2>2, <1>1
    <3>2. threads'[t] = threads[t] /\ p2[t] = passed[t] /\ Noted(passed, t)
      BY <3>1, <1>1, <1>4, <1>7
    <3> QED  BY <3>2, <1>3, <1>9, NotedStays
  <2> QED  BY <2>1, <2>2
<1>16. ASSUME NEW q \in DOMAIN queues', q # 1
       PROVE  QueueFlows(p2, s2, q)'
  <2>1. CASE q < n
    <3>1. q \in DOMAIN threads /\ q \in DOMAIN threads' /\ q \in DOMAIN queues
          /\ q - 1 \in DOMAIN threads
      BY <2>1, <1>1, <1>16
    <3>2. /\ queues'[q] = queues[q] /\ s2[q] = pos[q] /\ p2[q - 1] = passed[q - 1]
          /\ p2[q] = passed[q] /\ threads'[q] = threads[q] /\ QueueFlows(passed, pos, q)
      BY <3>1, <1>1, <1>2, <1>4, <1>7, <1>8, <1>16
    <3>3. p2[q] + HeldBy(q)' = passed[q] + HeldBy(q)
      BY <3>2 DEF HeldBy
    <3> QED  BY <3>1, <3>2, <3>3, <1>3, <1>10, QueueStays
  <2>2. CASE q = n
    <3>1. q \notin DOMAIN threads /\ q \in DOMAIN threads' /\ q \in DOMAIN queues
          /\ q - 1 \in DOMAIN threads
      BY <2>2, <1>1
    <3>2. /\ queues'[q] = queues[q] /\ s2[q] = pos[q] /\ p2[q - 1] = passed[q - 1]
          /\ QueueFlows(passed, pos, q)
      BY <3>1, <1>1, <1>2, <1>4, <1>7, <1>8, <1>16
    <3>3. p2[q] = 0 /\ HeldBy(q)' = 0
      BY <2>2, <1>1, <1>3, <1>7 DEF HeldBy
    <3> QED  BY <3>1, <3>2, <3>3, <1>3, <1>10, LastQueueStays
  <2>3. CASE q = n + 1
    <3>1. ~complete' /\ q \notin DOMAIN threads'
      BY <2>3, <1>1, <1>16
    <3>2. queues'[q] = <<>> /\ s2[q] = <<>> /\ p2[q - 1] = 0
      BY <2>3, <3>1, <1>1, <1>2, <1>7, <1>8
    <3>3. s2[q] \in Seq(Nat) /\ Len(s2[q]) = Len(queues'[q]) /\ DOMAIN queues'[q] = {}
      BY <3>2, NothingIs
    <3>4. NextIn(p2, s2, q)' = 0
      BY <3>2 DEF NextIn
    <3> QED  BY <3>1, <3>3, <3>4 DEF QueueFlows
  <2> QED  BY <2>1, <2>2, <2>3, <1>1, <1>16
<1>17. Flows(p2, s2)'
  BY <1>7, <1>8, <1>11, <1>12, <1>13, <1>15, <1>16 DEF Flows
<1> QED  BY <1>3, <1>17 DEF Flowing

LEMMA ReadyStays ==
  ASSUME Ready, UNCHANGED <<program, file, memory>>, Len(threads') = Len(threads)
  PROVE  Ready'
<1>1. ProgramIsRight(program)' /\ program' # <<>> /\ ~BadConfig'
  BY ProgramStays, ConfigStays DEF Ready
<1>2. FilesAre' /\ MemoryIs'
  BY ConstantsStay DEF Ready, FilesAre, MemoryIs
<1>3. NotYetWritten'
  BY DEF Ready, NotYetWritten, Appenders
<1> QED  BY <1>1, <1>2, <1>3 DEF Ready

LEMMA DeliveredStays ==
  ASSUME Delivered, UNCHANGED <<program, file, threads>>
  PROVE  Delivered'
<1>1. Round' = Round /\ Writers' = Writers
  BY DEF Round, Writers, Appenders
<1>2. \A jobs, n : Expected(jobs, n)' = Expected(jobs, n)
  BY DEF Expected, SourceOf, Changes
<1> QED  BY <1>1, <1>2 DEF Delivered

\* Nothing moves but the owner, who waits once the loop is closed.
LEMMA FlowingStays ==
  ASSUME Flowing, UNCHANGED <<program, file, memory, queues, threads, complete>>,
         main' = main \/ (main' = "join" /\ complete)
  PROVE  Flowing'
<1>0. PICK passed, pos : Busy /\ Flows(passed, pos)
  BY DEF Flowing
<1>1. AllKept'
  BY <1>0 DEF Busy, AllKept, Linked, NoneIsLost, NoneIsDoubled, InQueues, HeldBlocks, BlockAt
<1>2. Ready'
  <2>1. Ready
    BY <1>0 DEF Busy, Ready
  <2> QED  BY <2>1, ReadyStays
<1>3. /\ Round' = Round /\ (\A u : JobAt(u)' = JobAt(u)) /\ Entries' = Entries
      /\ Blocks' = Blocks /\ BlockSize' = BlockSize
  BY ConstantsStay DEF Round, JobAt, Entries, SourceOf
<1>4. InLine'
  <2>1. JobAt(Len(threads))' = JobAt(Len(threads)) /\ JobAt(Len(Round))' = JobAt(Len(Round))
        /\ Sinks' = Sinks
    BY <1>3 DEF JobAt, Sinks
  <2>2. InLine
    BY <1>0 DEF Busy
  <2>3. /\ (Len(threads) <= Len(Round) + 1)'
        /\ (main = "build" => Len(threads) <= Len(Round))'
        /\ (main = "join" => complete)'
        /\ (complete <=> threads # <<>> /\ JobAt(Len(threads)).kind \in Sinks)'
        /\ (Len(threads) = Len(Round) + 1 => JobAt(Len(Round)).kind \notin Sinks)'
        /\ (queues # <<>> => threads # <<>>
              /\ Len(queues) = IF complete THEN Len(threads) ELSE Len(threads) + 1)'
    BY <1>3, <2>1, <2>2 DEF InLine
  <2>4. (\A t \in DOMAIN threads :
           /\ threads[t].job = JobAt(t) /\ threads[t].in = t
           /\ threads[t].out = IF JobAt(t).kind \in Sinks THEN 1 ELSE t + 1)'
    BY <1>3, <2>1, <2>2 DEF InLine
  <2> QED  BY <2>3, <2>4 DEF InLine
<1>5. PoisonIsLast'
  BY <1>0 DEF Busy, PoisonIsLast, HasEnded, IsPoison
<1>6. Busy'
  BY <1>0, <1>1, <1>2, <1>4, <1>5 DEF Busy, Ready
<1>7. PICK u : u = Len(threads) + 1 /\ u \notin DOMAIN threads
  <2>1. DOMAIN threads = 1 .. Len(threads) /\ Len(threads) \in Nat
    BY <1>0, QueuesAre
  <2> QED  BY <2>1
<1>8. Unspoiled(u) /\ Linked
  BY <1>0, <1>3 DEF Unspoiled, Busy, AllKept
<1>9. /\ passed \in [DOMAIN threads -> Nat] /\ DOMAIN pos = DOMAIN queues
      /\ threads # <<>> => FirstQueue /\ SourceFlows(passed)
      /\ \A t \in DOMAIN threads : t # 1 => HeldFlows(passed, t)
      /\ \A t \in DOMAIN threads : Noted(passed, t)
      /\ \A q \in DOMAIN queues : q # 1 => QueueFlows(passed, pos, q)
  BY <1>0 DEF Flows
<1>10. FirstQueue => FirstQueue'
  BY <1>3 DEF FirstQueue, IsPoison
<1>11. SourceFlows(passed) => SourceFlows(passed)'
  BY <1>8, SourceStays
<1>12. ASSUME NEW t \in DOMAIN threads, t # 1
       PROVE  HeldFlows(passed, t)'
  <2>1. t # u /\ HeldFlows(passed, t) /\ threads'[t] = threads[t]
    BY <1>7, <1>9, <1>12
  <2> QED  BY <2>1, <1>8, HeldStays
<1>13. ASSUME NEW t \in DOMAIN threads
       PROVE  Noted(passed, t)'
  <2>1. Noted(passed, t) /\ threads'[t] = threads[t]
    BY <1>9
  <2> QED  BY <2>1, <1>3, NotedStays
<1>14. ASSUME NEW q \in DOMAIN queues, q # 1
       PROVE  QueueFlows(passed, pos, q)'
  <2>1. QueueFlows(passed, pos, q) /\ queues'[q] = queues[q] /\ DOMAIN threads' = DOMAIN threads
    BY <1>9, <1>14
  <2>2. HeldBy(q)' = HeldBy(q)
    BY DEF HeldBy
  <2> QED  BY <2>1, <2>2, <1>8, QueueStays
<1>15. Flows(passed, pos)'
  BY <1>9, <1>10, <1>11, <1>12, <1>13, <1>14 DEF Flows
<1> QED  BY <1>6, <1>15 DEF Flowing

\* When all have ended, everything has been passed on.
LEMMA EndDelivers ==
  ASSUME Flowing, main = "join", \A t \in DOMAIN threads : HasEnded(t)
  PROVE  Delivered /\ Len(threads) >= Len(Round)
<1>0. PICK passed, pos : Busy /\ Flows(passed, pos)
  BY DEF Flowing
<1>1. /\ RoundIsRight(Round) /\ Len(Round) \in Nat /\ DOMAIN Round = 1 .. Len(Round)
      /\ Len(Round) > 0
  BY <1>0, RoundIs DEF Busy
<1>2. /\ DOMAIN threads = 1 .. Len(threads) /\ Len(threads) \in Nat /\ Len(threads) > 0
  BY <1>0, QueuesAre
<1>3. Len(threads) >= Len(Round)
  <2>1. JobAt(Len(threads)).kind \in Sinks
    BY <1>0 DEF Busy, InLine
  <2>2. CASE Len(threads) <= Len(Round)
    <3>1. Len(threads) \in DOMAIN Round /\ JobAt(Len(threads)) = Round[Len(threads)]
      BY <2>2, <1>1, <1>2 DEF JobAt
    <3>2. Len(threads) = Len(Round)
      BY <2>1, <3>1, <1>1 DEF RoundIsRight
    <3> QED  BY <3>2, <1>1
  <2> QED  BY <2>2, <1>1, <1>2
<1>4. Entries \in Seq(Int) /\ Len(Entries) \in Nat /\ DOMAIN Entries = 1 .. Len(Entries)
  <2>1. Entries \in Seq(Int) /\ Len(Entries) \in Nat
    BY <1>0, EntriesAre DEF Busy
  <2> QED  BY <2>1
<1>5. ASSUME NEW n \in DOMAIN Round
      PROVE  /\ Round[n].kind \in Writers => file[Round[n].file] = Expected(Round, n)
             /\ Round[n].kind = "CountRecords" => threads[n].offset = Len(Expected(Round, n))
  <2>1. n \in DOMAIN threads /\ JobAt(n) = Round[n] /\ threads[n].at = "ended"
    BY <1>1, <1>2, <1>3 DEF JobAt, HasEnded
  <2>2. passed[n] = Len(Entries)
    <3>1. CASE n = 1
      <4>1. SourceFlows(passed)
        BY <1>0, <1>2, <2>1 DEF Flows
      <4> QED  BY <3>1, <4>1, <2>1 DEF SourceFlows
    <3>2. CASE n # 1
      <4>1. HeldFlows(passed, n)
        BY <3>2, <1>0, <2>1 DEF Flows
      <4> QED  BY <4>1, <2>1 DEF HeldFlows
    <3> QED  BY <3>1, <3>2
  <2>3. Noted(passed, n)
    BY <1>0, <2>1 DEF Flows
  <2>4. Expected(Round, n) = StreamAfter(n)
    <3>1. Changes(SubSeq(Round, 1, n)) = Added(n)
      BY <1>1, ChangesAre
    <3> QED  BY <3>1, <1>4 DEF Expected, StreamAfter, Entries
  <2>5. Len(StreamAfter(n)) = Len(Entries) /\ StreamAfter(n) \in Seq(Int)
    BY <1>0, StreamIs DEF Busy
  <2>6. ASSUME Round[n].kind \in Writers
        PROVE  file[Round[n].file] = Expected(Round, n)
    <3>1. HasFile(Round[n])
      BY <2>6 DEF HasFile
    <3>2. Round[n].file \in DOMAIN Files
      BY <3>1, <1>1 DEF RoundIsRight
    <3>3. file[Round[n].file] \in Seq(Int)
      BY <3>2, <1>0 DEF Busy, FilesAre
    <3>4. Len(file[Round[n].file]) = Len(Entries)
      BY <2>1, <2>2, <2>3, <2>6 DEF Noted, HasEnded, Writers
    <3>5. \A e \in 1 .. Len(Entries) : file[Round[n].file][e] = StreamAfter(n)[e]
      BY <2>1, <2>2, <2>3, <2>6 DEF Noted, Begins
    <3>6. PICK content, stream : content = file[Round[n].file] /\ stream = StreamAfter(n)
      OBVIOUS
    <3>7. /\ content \in Seq(Int) /\ stream \in Seq(Int) /\ Len(content) = Len(stream)
          /\ \A e \in 1 .. Len(stream) : content[e] = stream[e]
      BY <3>3, <3>4, <3>5, <3>6, <2>5
    <3>8. content = stream
      BY <3>7
    <3> QED  BY <3>6, <3>8, <2>4
  <2>7. Round[n].kind = "CountRecords" => threads[n].offset = Len(Expected(Round, n))
    BY <2>1, <2>2, <2>3, <2>4, <2>5 DEF Noted
  <2> QED  BY <2>6, <2>7
<1> QED  BY <1>3, <1>5 DEF Delivered

\* The owner clears one chain away, and there are rounds left.
LEMMA ClearLeavesReady ==
  ASSUME Ready, program' = Tail(program), program' # <<>>, threads' = <<>>,
         UNCHANGED <<file, memory>>
  PROVE  Ready'
<1>1. /\ IsSeq(program) /\ program # <<>> /\ ProgramIsRight(program)
  BY DEF Ready, ProgramIsRight
<1>2. /\ IsSeq(program') /\ DOMAIN program' = 1 .. (Len(program) - 1)
      /\ \A i \in DOMAIN program' : program'[i] = program[i + 1]
      /\ DOMAIN program = 1 .. Len(program) /\ Len(program) \in Nat
  BY <1>1, TailIs, SeqFacts
<1>3. \A i \in DOMAIN program' : i + 1 \in DOMAIN program /\ i + 1 > 1 /\ i \in Nat
  BY <1>2
<1>4. \A i \in DOMAIN program' : RoundIsRight(program'[i])
  BY <1>1, <1>2, <1>3 DEF ProgramIsRight
<1>5. ASSUME NEW i \in DOMAIN program', NEW j \in 1 .. (i - 1),
             NEW n \in DOMAIN program'[i], NEW m \in DOMAIN program'[j],
             program'[i][n].kind \in Appenders, program'[j][m].kind \in Writers
      PROVE  program'[j][m].file # program'[i][n].file
  <2>1. j \in DOMAIN program' /\ j + 1 \in 1 .. ((i + 1) - 1)
    BY <1>2, <1>3
  <2>2. program'[i] = program[i + 1] /\ program'[j] = program[j + 1] /\ i + 1 \in DOMAIN program
    BY <2>1, <1>2, <1>3
  <2> QED  BY <2>1, <2>2, <1>1, <1>5 DEF ProgramIsRight
<1>6. ProgramIsRight(program')
  <2>1. PICK rest : rest = program'
    OBVIOUS
  <2>2. \A i \in DOMAIN rest : \A j \in 1 .. (i - 1) :
          \A n \in DOMAIN rest[i] : \A m \in DOMAIN rest[j] :
            rest[i][n].kind \in Appenders /\ rest[j][m].kind \in Writers
              => rest[j][m].file # rest[i][n].file
    <3> SUFFICES ASSUME NEW i \in DOMAIN rest, NEW j \in 1 .. (i - 1),
                        NEW n \in DOMAIN rest[i], NEW m \in DOMAIN rest[j],
                        rest[i][n].kind \in Appenders, rest[j][m].kind \in Writers
                 PROVE  rest[j][m].file # rest[i][n].file
      OBVIOUS
    <3>1. /\ i \in DOMAIN program' /\ n \in DOMAIN program'[i] /\ m \in DOMAIN program'[j]
          /\ program'[i][n].kind \in Appenders /\ program'[j][m].kind \in Writers
      BY <2>1
    <3>2. program'[j][m].file # program'[i][n].file
      BY <3>1, <1>5
    <3> QED  BY <2>1, <3>2
  <2>3. IsSeq(rest) /\ \A i \in DOMAIN rest : RoundIsRight(rest[i])
    BY <2>1, <1>2, <1>4
  <2>4. ProgramIsRight(rest)
    BY <2>2, <2>3 DEF ProgramIsRight
  <2> QED  BY <2>1, <2>4
<1>7. ProgramIsRight(program)'
  BY <1>6 DEF ProgramIsRight, RoundIsRight, HasFile, IsSeq, Sources, Sinks, Writers, Appenders
<1>8. NotYetWritten'
  <2>1. ASSUME NEW i \in DOMAIN program', NEW n \in DOMAIN program'[i],
               program'[i][n].kind \in Appenders
        PROVE  file[program'[i][n].file] = <<>>
    <3>1. program'[i] = program[i + 1] /\ i + 1 \in DOMAIN program /\ i + 1 > 1
      BY <1>2, <1>3
    <3> QED  BY <2>1, <3>1 DEF Ready, NotYetWritten
  <2> QED  BY <2>1 DEF NotYetWritten, Appenders
<1>9. FilesAre' /\ MemoryIs' /\ ~BadConfig'
  BY ConstantsStay, ConfigStays DEF Ready, FilesAre, MemoryIs
<1> QED  BY <1>7, <1>8, <1>9 DEF Ready

LEMMA TwoQueues == Append(<<AllBlocks>>, <<>>) # <<>>
<1>1. <<AllBlocks>> \in Seq({AllBlocks})
  OBVIOUS
<1>2. IsSeq(<<AllBlocks>>)
  BY <1>1, SeqIsSeq
<1> QED  BY <1>2, AppendIs, SeqFacts

LEMMA OwnerDelivers ==
  ASSUME DeliversInv, OwnerStep
  PROVE  DeliversInv'
<1>1. ChainInv' /\ ChainInv
  BY ChainNextKeeps DEF DeliversInv, ChainNext
<1>2. main \in {"build", "join", "drain", "clear"} /\ Ready
  BY DEF DeliversInv, OwnerStep, AddWorker, AddSink, CompleteLoop, StartWait, Join, Drain, Clear
<1>3. ASSUME main = "build"
      PROVE  /\ Len(threads) \in Nat /\ (queues = <<>> => threads = <<>> /\ Len(threads) = 0)
             /\ Len(Round) \in Nat /\ Len(Round) > 0 /\ DOMAIN Round = 1 .. Len(Round)
             /\ RoundIsRight(Round) /\ Round[1].kind \notin Sinks
  <2>1. Linked /\ (queues = <<>> => threads = <<>>)
    BY <1>1, <1>3 DEF ChainInv
  <2>2. Len(threads) \in Nat
    BY <2>1, SeqFacts DEF Linked
  <2>3. queues = <<>> => Len(threads) = 0
    BY <2>1, NothingIs
  <2>4. /\ RoundIsRight(Round) /\ Len(Round) \in Nat /\ Len(Round) > 0
        /\ DOMAIN Round = 1 .. Len(Round) /\ Round[1].kind \in Sources
    BY <1>2, RoundIs DEF Ready
  <2>5. Round[1].kind \notin Sinks
    BY <2>4 DEF Sources, Sinks
  <2> QED  BY <2>1, <2>2, <2>3, <2>4, <2>5
<1>4. ASSUME main = "build", queues # <<>>
      PROVE  Flowing /\ Busy /\ Len(queues) = (IF complete THEN Len(threads) ELSE Len(threads) + 1)
  <2>1. Flowing /\ Busy
    BY <1>4 DEF DeliversInv, Flowing
  <2> QED  BY <2>1, QueuesAre
<1>5. ASSUME main = "build", queues # <<>>, Len(threads) < Len(Round)
      PROVE  ~complete
  <2>1. /\ DOMAIN threads = 1 .. Len(threads) /\ Len(threads) \in Nat /\ Len(threads) > 0
    BY <1>4, <1>5, QueuesAre
  <2>2. Len(threads) \in DOMAIN Round /\ JobAt(Len(threads)) = Round[Len(threads)]
    BY <2>1, <1>3, <1>5 DEF JobAt
  <2>3. JobAt(Len(threads)).kind \notin Sinks
    BY <2>2, <1>3, <1>5 DEF RoundIsRight
  <2> QED  BY <2>3, <1>4, <1>5 DEF Busy, InLine
<1>6. ASSUME Flowing', main' \in {"build", "join"}, queues' # <<>>
      PROVE  DeliversInv'
  <2>1. Ready'
    BY <1>6 DEF Flowing, Busy, Ready
  <2> QED  BY <2>1, <1>1, <1>6 DEF DeliversInv
<1>7. CASE AddWorker
  <2>1. PICK task :
          /\ main = "build" /\ main' = "build" /\ Len(threads) < Len(Round)
          /\ task = Round[Len(threads) + 1] /\ task.kind \notin Sinks
          /\ queues' = Append(Started, <<>>)
          /\ threads' = Append(threads, Thread(task, Len(Started), Len(Started) + 1))
          /\ UNCHANGED <<program, file, memory, complete>>
    BY <1>7 DEF AddWorker
  <2>2. CASE queues = <<>>
    <3>1. /\ ~complete /\ threads = <<>> /\ Len(threads) = 0
      BY <2>1, <2>2, <1>3 DEF DeliversInv
    <3>2. PICK th : th = Thread(Round[1], 1, 2)
      OBVIOUS
    <3>3. Started = <<AllBlocks>> /\ Len(<<AllBlocks>>) = 1
      BY <2>2 DEF Started
    <3>4. queues' = Append(<<AllBlocks>>, <<>>) /\ threads' = Append(<<>>, th)
      BY <2>1, <3>1, <3>2, <3>3
    <3>5. threads' = <<th>>
      BY <3>4
    <3>6. AllKept' /\ queues' # <<>>
      BY <2>1, <1>1, <3>4, TwoQueues DEF ChainInv, AllKept
    <3>7. Flowing'
      BY <2>1, <2>2, <3>1, <3>2, <3>4, <3>5, <3>6, <1>2, FirstFlows
    <3> QED  BY <2>1, <3>6, <3>7, <1>6
  <2>3. CASE queues # <<>>
    <3>1. ~complete /\ Flowing /\ Busy /\ Len(queues) = Len(threads) + 1
      BY <2>1, <2>3, <1>4, <1>5
    <3>2. PICK n : n = Len(threads) + 1
      OBVIOUS
    <3>3. PICK th : th = Thread(task, n, n + 1)
      OBVIOUS
    <3>4. Started = queues
      BY <2>3 DEF Started
    <3>5. JobAt(n) = task /\ n <= Len(Round)
      BY <2>1, <3>2, <1>3 DEF JobAt
    <3>6. Enters(n, th)
      BY <2>1, <3>1, <3>2, <3>3, <3>4, <3>5, <1>3, BeginsEmpty DEF Enters
    <3>7. queues' # <<>>
      BY <3>1, <3>6, EntersAt
    <3>8. AllKept'
      BY <2>1, <3>7, <1>1 DEF ChainInv, AllKept
    <3>9. Flowing'
      BY <3>1, <3>6, <3>8, EntersFlows
    <3> QED  BY <2>1, <3>7, <3>9, <1>6
  <2> QED  BY <2>2, <2>3
<1>8. ASSUME NEW task, main = "build", queues # <<>>, ~complete, complete',
             Len(threads) <= Len(Round), task = JobAt(Len(threads) + 1), task.kind \in Sinks,
             threads' = Append(threads, Thread(task, Len(queues), 1)), UNCHANGED queues,
             main' = "join" \/ (main' = "build" /\ Len(threads) < Len(Round)),
             UNCHANGED <<program, file, memory>>
      PROVE  DeliversInv'
  <2>1. Flowing /\ Busy /\ Len(queues) = Len(threads) + 1
    BY <1>4, <1>8
  <2>2. PICK n : n = Len(threads) + 1
    OBVIOUS
  <2>3. PICK th : th = Thread(task, n, 1)
    OBVIOUS
  <2>4. n <= Len(Round) + 1 /\ (main' = "build" => n <= Len(Round))
    BY <2>2, <1>3, <1>8
  <2>5. Enters(n, th)
    BY <2>1, <2>2, <2>3, <2>4, <1>8, BeginsEmpty DEF Enters
  <2>6. AllKept' /\ queues' # <<>>
    BY <1>1, <1>8 DEF ChainInv, AllKept
  <2>7. Flowing'
    BY <2>1, <2>5, <2>6, EntersFlows
  <2> QED  BY <2>6, <2>7, <1>6, <1>8
<1>9. CASE AddSink
  <2>1. PICK task :
          /\ main = "build" /\ main' = "build" /\ Len(threads) < Len(Round)
          /\ task = Round[Len(threads) + 1] /\ task.kind \in Sinks
          /\ threads' = Append(threads, Thread(task, Len(queues), 1))
          /\ complete' = TRUE
          /\ UNCHANGED <<program, file, memory, queues>>
    BY <1>9 DEF AddSink
  <2>2. queues # <<>>
    BY <2>1, <1>3
  <2>3. task = JobAt(Len(threads) + 1) /\ Len(threads) <= Len(Round)
    BY <2>1, <1>3 DEF JobAt
  <2> QED  BY <2>1, <2>2, <2>3, <1>5, <1>8
<1>10. CASE CompleteLoop
  <2>1. PICK task :
          /\ main = "build" /\ main' = "join" /\ Len(threads) = Len(Round) /\ ~complete
          /\ task = [kind |-> "Recycler"]
          /\ threads' = Append(threads, Thread(task, Len(queues), 1))
          /\ complete' = TRUE
          /\ UNCHANGED <<program, file, memory, queues>>
    BY <1>10 DEF CompleteLoop
  <2>2. queues # <<>>
    BY <2>1, <1>3
  <2>3. task = JobAt(Len(threads) + 1) /\ Len(threads) <= Len(Round) /\ task.kind \in Sinks
    BY <2>1, <1>3 DEF JobAt, Sinks
  <2> QED  BY <2>1, <2>2, <2>3, <1>8
<1>11. CASE StartWait
  <2>1. /\ main = "build" /\ main' = "join" /\ complete
        /\ UNCHANGED <<program, file, memory, queues, threads, complete>>
    BY <1>11 DEF StartWait
  <2>2. queues # <<>>
    BY <2>1 DEF DeliversInv
  <2>3. Flowing'
    BY <2>1, <2>2, <1>4, FlowingStays
  <2> QED  BY <2>1, <2>2, <2>3, <1>6
<1>12. CASE Join
  <2>1. /\ main = "join" /\ main' = "drain" /\ \A t \in DOMAIN threads : HasEnded(t)
        /\ UNCHANGED <<program, file, memory, queues, threads, complete>>
    BY <1>12 DEF Join, HasEnded
  <2>2. queues # <<>> /\ Flowing
    BY <2>1, <1>1 DEF DeliversInv, ChainInv
  <2>3. Delivered /\ Len(threads) >= Len(Round)
    BY <2>1, <2>2, EndDelivers
  <2>4. Ready' /\ Delivered'
    BY <2>1, <2>3, <1>2, ReadyStays, DeliveredStays
  <2>5. (Len(threads) >= Len(Round))' /\ (\A t \in DOMAIN threads : HasEnded(t))'
    BY <2>1, <2>3 DEF Round, HasEnded
  <2> QED  BY <2>1, <2>4, <2>5, <1>1 DEF DeliversInv
<1>13. CASE Drain
  <2>1. /\ main = "drain" /\ main' \in {"drain", "clear", "abort"}
        /\ UNCHANGED <<program, file, memory, threads, complete>>
    BY <1>13 DEF Drain
  <2>2. /\ Delivered /\ Len(threads) >= Len(Round) /\ \A t \in DOMAIN threads : HasEnded(t)
    BY <2>1 DEF DeliversInv
  <2>3. Ready' /\ Delivered'
    BY <2>1, <2>2, <1>2, ReadyStays, DeliveredStays
  <2>4. (Len(threads) >= Len(Round))' /\ (\A t \in DOMAIN threads : HasEnded(t))'
    BY <2>1, <2>2 DEF Round, HasEnded
  <2> QED  BY <2>1, <2>3, <2>4, <1>1 DEF DeliversInv
<1>14. CASE Clear
  <2>1. /\ main' = (IF program' = <<>> THEN "done" ELSE "build") /\ program' = Tail(program)
        /\ queues' = <<>> /\ threads' = <<>> /\ ~complete' /\ UNCHANGED <<file, memory>>
    BY <1>14 DEF Clear
  <2>2. CASE program' = <<>>
    BY <2>1, <2>2, <1>1 DEF DeliversInv
  <2>3. CASE program' # <<>>
    <3>1. Ready'
      BY <2>1, <2>3, <1>2, ClearLeavesReady
    <3> QED  BY <2>1, <2>3, <3>1, <1>1 DEF DeliversInv
  <2> QED  BY <2>2, <2>3
<1> QED  BY <1>7, <1>9, <1>10, <1>11, <1>12, <1>13, <1>14 DEF OwnerStep

LEMMA NobodyDelivers ==
  ASSUME DeliversInv, UNCHANGED chainVars
  PROVE  DeliversInv'
<1>1. ChainInv'
  BY ChainNextKeeps DEF DeliversInv
<1>2. UNCHANGED <<program, file, memory, queues, threads, complete, main>>
  BY DEF chainVars
<1>3. Ready => Ready'
  BY <1>2, ReadyStays
<1>4. Flowing => Flowing'
  BY <1>2, FlowingStays
<1>5. Delivered => Delivered'
  BY <1>2, DeliveredStays
<1>6. Len(threads) >= Len(Round) => (Len(threads) >= Len(Round))'
  BY <1>2 DEF Round
<1>7. (\A t \in DOMAIN threads : HasEnded(t)) => (\A t \in DOMAIN threads : HasEnded(t))'
  BY <1>2 DEF HasEnded
<1> QED  BY <1>1, <1>2, <1>3, <1>4, <1>5, <1>6, <1>7 DEF DeliversInv

\* What a chain writes is what went into it, with the changes of the workers
\* before the writer, and a count is that of the entries: for every chain and
\* every size of its blocks (io.cc:14-75, stream.hh:35-57, line_input.cc:18-49,
\* chain.cc:28-32).
THEOREM ChainAlwaysDelivers == ChainSpec => []ChainDelivers
<1>1. ASSUME DeliversInv, [ChainNext]_chainVars PROVE DeliversInv'
  <2>1. CASE OwnerStep
    BY <2>1, <1>1, OwnerDelivers
  <2>2. ASSUME NEW t \in 1 .. MaxThreads, ThreadStep(t) PROVE DeliversInv'
    BY <2>2, <1>1, ThreadsDeliver
  <2>3. CASE UNCHANGED chainVars
    BY <2>3, <1>1, NobodyDelivers
  <2> QED  BY <1>1, <2>1, <2>2, <2>3 DEF ChainNext
<1>2. DeliversInv => ChainDelivers
  BY DEF DeliversInv, ChainDelivers, Delivered
<1> QED  BY ChainStarts, <1>1, <1>2, PTL DEF ChainSpec

=============================================================================
