-------------------------- MODULE UtilitiesProofs ---------------------------
(***************************************************************************)
(* Proofs about what the rest relies on.                                   *)
(*                                                                         *)
(* The ring of ThreadPool, for any number of clients, workers and requests *)
(* and a ring of any size: whatever the order in which the threads go      *)
(* through the steps of their calls, the ring with its two semaphores is a *)
(* queue of limited length, first in, first out.                           *)
(*                                                                         *)
(* SortedVector, for a stack of any size but none and any hypotheses whose *)
(* keys and scores are numbers: at every iteration of every loop the vector*)
(* is in order, the bisection is right, no assertion is reached, nothing is*)
(* lost, and the vector is the set of StackOps.                            *)
(*                                                                         *)
(* Rewindable, for any number of blocks of any size, any entries, and any  *)
(* client: unless there are more than two blocks and some of those that    *)
(* arrive are empty, the stream keeps its place.                           *)
(***************************************************************************)
EXTENDS ThreadPool, SortedVector, Rewindable, TrieProofs, FiniteSetTheorems

(***************************************************************************)
(* The ring of the thread pool                                             *)
(***************************************************************************)

\* What goes through the queue.
Items == (UNION {ToSet(Requests[c]) : c \in Clients}) \union {Poison}

Places == {"out", "write", "posting", "read", "freeing", "got"}

\* How many threads are at a step of their call.
CountIn(f, where) == Cardinality({t \in Callers : f[t] = where})
HowMany(where) == CountIn(at, where)

\* How many cells have been written and not yet read.
Occupied == used + HowMany("posting") + HowMany("read")

PoolTyped ==
  /\ empty \in Nat /\ used \in Nat
  /\ at \in [Callers -> Places]
  /\ value = [t \in Callers |-> value[t]]
  /\ storage = [c \in Slots |-> storage[c]]
  /\ consumeAt \in Slots
  /\ asked \in [Clients -> Nat]

\* A cell is empty, held by a call, or used: none is ever counted twice.
Balanced ==
  empty + HowMany("write") + HowMany("freeing") + Occupied = QueueSize

\* The cells that are filled lie between the two ends of the ring.
EndsMeet == produceAt = (consumeAt + Occupied) % QueueSize

\* What is about to be written is a request, or the poison.
WritersHold ==
  \A t \in Callers : at[t] = "write" => value[t] \in Items

PoolInv == PoolTyped /\ Balanced /\ EndsMeet /\ WritersHold

-----------------------------------------------------------------------------
(* Counting threads *)

LEMMA CountIsNatural == \A f, where : CountIn(f, where) \in Nat
<1>1. \A f, where : {t \in Callers : f[t] = where} \subseteq Callers
  OBVIOUS
<1> QED  BY <1>1, CallersAssumption, FS_Subset, FS_CardinalityType DEF CountIn

\* A thread that is somewhere is counted there.
LEMMA SomeoneIsThere ==
  ASSUME NEW t \in Callers
  PROVE  HowMany(at[t]) > 0
<1> DEFINE There == {u \in Callers : at[u] = at[t]}
<1>1. There \subseteq Callers /\ t \in There
  OBVIOUS
<1>2. IsFiniteSet(There)
  BY <1>1, CallersAssumption, FS_Subset
<1>3. Cardinality(There) # 0 /\ Cardinality(There) \in Nat
  BY <1>1, <1>2, FS_EmptySet, FS_CardinalityType
<1> QED  BY <1>3 DEF HowMany, CountIn

\* When one thread goes on, it leaves one place and is at another.
Moves(f, g, t, from, to) ==
  f[t] = from /\ \A u \in Callers : g[u] = IF u = t THEN to ELSE f[u]

LEMMA OneMoves ==
  ASSUME NEW f, NEW t \in Callers, NEW from, NEW to, from # to, NEW g, Moves(f, g, t, from, to),
         NEW where
  PROVE  /\ where = to => CountIn(g, where) = CountIn(f, where) + 1
         /\ where = from => CountIn(g, where) = CountIn(f, where) - 1
         /\ where # from /\ where # to => CountIn(g, where) = CountIn(f, where)
<1> DEFINE There(h, w) == {u \in Callers : h[u] = w}
<1>1. \A w : There(f, w) \subseteq Callers
  OBVIOUS
<1>2. \A w : IsFiniteSet(There(f, w))
  BY <1>1, CallersAssumption, FS_Subset
<1>3. There(g, to) = There(f, to) \union {t} /\ t \notin There(f, to)
  BY DEF Moves
<1>4. There(g, from) = There(f, from) \ {t} /\ t \in There(f, from)
  BY DEF Moves
<1>5. where # to /\ where # from => There(g, where) = There(f, where)
  BY DEF Moves
<1>6. \A h, w : CountIn(h, w) = Cardinality(There(h, w))
  BY DEF CountIn
<1> HIDE DEF There
<1>7. Cardinality(There(g, to)) = Cardinality(There(f, to)) + 1
  BY <1>2, <1>3, FS_AddElement
<1>8. Cardinality(There(g, from)) = Cardinality(There(f, from)) - 1
  BY <1>2, <1>4, FS_RemoveElement
<1> QED  BY <1>5, <1>6, <1>7, <1>8

-----------------------------------------------------------------------------
(* The ring *)

\* One trip round the ring.
LEMMA RoundTheRing ==
  ASSUME NEW n \in 0 .. (2 * QueueSize - 1)
  PROVE  n % QueueSize = IF n < QueueSize THEN n ELSE n - QueueSize
<1>1. QueueSize \in Nat /\ QueueSize > 0
  BY QueueSizeAssumption
<1>2. CASE n < QueueSize
  BY <1>1, <1>2
<1>3. CASE n >= QueueSize
  BY <1>1, <1>3
<1> QED  BY <1>1, <1>2, <1>3

\* The next cell is one further round.
LEMMA NextIsFurther ==
  ASSUME NEW c \in Slots
  PROVE  /\ NextCell(c) \in Slots
         /\ NextCell(c) = (c + 1) % QueueSize
<1>1. c \in 0 .. (QueueSize - 1) /\ QueueSize \in Nat /\ QueueSize > 0
  BY QueueSizeAssumption DEF Slots
<1>2. (c + 1) % QueueSize = IF c + 1 < QueueSize THEN c + 1 ELSE c + 1 - QueueSize
  BY <1>1, RoundTheRing
<1> QED  BY <1>1, <1>2 DEF NextCell, Slots

LEMMA FilledIsNatural == used \in Nat => Occupied \in Nat
BY CountIsNatural DEF Occupied, HowMany

\* At most the whole ring is filled.
LEMMA FilledFits ==
  ASSUME PoolTyped, Balanced
  PROVE  Occupied \in 0 .. QueueSize
BY CountIsNatural, FilledIsNatural, QueueSizeAssumption DEF PoolTyped, Balanced, HowMany

\* The contents are what is filled.
LEMMA ContentsAreFilled ==
  Contents = [n \in 1 .. Occupied |-> storage[(consumeAt + n - 1) % QueueSize]]
BY DEF Contents, Occupied, HowMany, CountIn, At

\* A step that fills no cell and empties none leaves the contents.
LEMMA ContentsStay ==
  ASSUME Occupied' = Occupied, UNCHANGED <<storage, consumeAt>>
  PROVE  UNCHANGED Contents
<1>1. Contents' = [n \in 1 .. Occupied' |-> storage'[(consumeAt' + n - 1) % QueueSize]]
  BY DEF Contents, Occupied, HowMany, CountIn, At
<1> QED  BY <1>1, ContentsAreFilled

-----------------------------------------------------------------------------
(* Every step keeps the invariant and is a step of the queue, or none. *)

LEMMA PoolInitIsRight ==
  PoolInit => PoolInv /\ Fifo!Init
<1> SUFFICES ASSUME PoolInit PROVE PoolInv /\ Fifo!Init
  OBVIOUS
<1> USE DEF PoolInit, QueueInit
<1>1. QueueSize \in Nat /\ QueueSize > 0 /\ 0 \in Slots
  BY QueueSizeAssumption DEF Slots
<1>2. At("write") = {} /\ At("posting") = {} /\ At("read") = {} /\ At("freeing") = {}
  BY DEF At
<1>3. HowMany("write") = 0 /\ HowMany("posting") = 0 /\ HowMany("read") = 0 /\ HowMany("freeing") = 0
  BY <1>2, FS_EmptySet DEF HowMany, CountIn, At
<1>4. Occupied = 0
  BY <1>3 DEF Occupied
<1>5. PoolTyped
  BY <1>1 DEF PoolTyped, Places, EmptyAtFirst
<1>6. Balanced
  BY <1>1, <1>3, <1>4 DEF Balanced, EmptyAtFirst
<1>7. EndsMeet
  BY <1>1, <1>4, RoundTheRing DEF EndsMeet
<1>8. WritersHold
  BY DEF WritersHold
<1>9. Contents = <<>>
  BY <1>4, ContentsAreFilled
<1> QED  BY <1>5, <1>6, <1>7, <1>8, <1>9 DEF PoolInv, Fifo!Init

\* Produce takes its semaphore.
LEMMA WaitEmptyKeeps ==
  ASSUME PoolInv, NEW t \in Callers, NEW v \in Items, WaitEmpty(t, v),
         asked' \in [Clients -> Nat]
  PROVE  PoolInv' /\ UNCHANGED Contents
<1>1. Moves(at, at', t, "out", "write")
  BY DEF PoolInv, PoolTyped, WaitEmpty, Moves
<1>2. /\ HowMany("write")' = HowMany("write") + 1
      /\ HowMany("posting")' = HowMany("posting")
      /\ HowMany("read")' = HowMany("read")
      /\ HowMany("freeing")' = HowMany("freeing")
  BY <1>1, OneMoves, CountIsNatural DEF HowMany
<1> USE DEF PoolInv, WaitEmpty
<1>3. Occupied' = Occupied
  BY <1>2 DEF Occupied
<1>4. PoolTyped'
  BY DEF PoolTyped, Places
<1>5. Balanced'
  BY <1>2, <1>3, CountIsNatural, FilledIsNatural, QueueSizeAssumption
  DEF Balanced, PoolTyped, HowMany
<1>6. EndsMeet'
  BY <1>3 DEF EndsMeet
<1>7. WritersHold'
  BY DEF WritersHold, PoolTyped
<1> QED  BY <1>3, <1>4, <1>5, <1>6, <1>7, ContentsStay

\* The cell is used from now on.
LEMMA PostUsedKeeps ==
  ASSUME PoolInv, NEW t \in Callers, PostUsed(t),
         asked' \in [Clients -> Nat]
  PROVE  PoolInv' /\ UNCHANGED Contents
<1>1. Moves(at, at', t, "posting", "out")
  BY DEF PoolInv, PoolTyped, PostUsed, Moves
<1>2. /\ HowMany("write")' = HowMany("write")
      /\ HowMany("posting")' = HowMany("posting") - 1
      /\ HowMany("read")' = HowMany("read")
      /\ HowMany("freeing")' = HowMany("freeing")
  BY <1>1, OneMoves, CountIsNatural DEF HowMany
<1> USE DEF PoolInv, PostUsed
<1>3. Occupied' = Occupied
  BY <1>2, CountIsNatural DEF Occupied, HowMany, PoolTyped
<1>4. PoolTyped'
  BY DEF PoolTyped, Places
<1>5. Balanced'
  BY <1>2, <1>3, CountIsNatural, FilledIsNatural, QueueSizeAssumption
  DEF Balanced, PoolTyped, HowMany
<1>6. EndsMeet'
  BY <1>3 DEF EndsMeet
<1>7. WritersHold'
  BY DEF WritersHold, PoolTyped
<1> QED  BY <1>3, <1>4, <1>5, <1>6, <1>7, ContentsStay

\* Consume takes its semaphore.
LEMMA WaitUsedKeeps ==
  ASSUME PoolInv, NEW t \in Callers, WaitUsed(t),
         asked' \in [Clients -> Nat]
  PROVE  PoolInv' /\ UNCHANGED Contents
<1>1. Moves(at, at', t, "out", "read")
  BY DEF PoolInv, PoolTyped, WaitUsed, Moves
<1>2. /\ HowMany("write")' = HowMany("write")
      /\ HowMany("posting")' = HowMany("posting")
      /\ HowMany("read")' = HowMany("read") + 1
      /\ HowMany("freeing")' = HowMany("freeing")
  BY <1>1, OneMoves, CountIsNatural DEF HowMany
<1> USE DEF PoolInv, WaitUsed
<1>3. Occupied' = Occupied
  BY <1>2, CountIsNatural DEF Occupied, HowMany, PoolTyped
<1>4. PoolTyped'
  BY DEF PoolTyped, Places
<1>5. Balanced'
  BY <1>2, <1>3, CountIsNatural, FilledIsNatural, QueueSizeAssumption
  DEF Balanced, PoolTyped, HowMany
<1>6. EndsMeet'
  BY <1>3 DEF EndsMeet
<1>7. WritersHold'
  BY DEF WritersHold, PoolTyped
<1> QED  BY <1>3, <1>4, <1>5, <1>6, <1>7, ContentsStay

\* The cell is empty from now on.
LEMMA PostEmptyKeeps ==
  ASSUME PoolInv, NEW t \in Callers, PostEmpty(t),
         asked' \in [Clients -> Nat]
  PROVE  PoolInv' /\ UNCHANGED Contents
<1>1. Moves(at, at', t, "freeing", "got")
  BY DEF PoolInv, PoolTyped, PostEmpty, Moves
<1>2. /\ HowMany("write")' = HowMany("write")
      /\ HowMany("posting")' = HowMany("posting")
      /\ HowMany("read")' = HowMany("read")
      /\ HowMany("freeing")' = HowMany("freeing") - 1
  BY <1>1, OneMoves, CountIsNatural DEF HowMany
<1> USE DEF PoolInv, PostEmpty
<1>3. Occupied' = Occupied
  BY <1>2, CountIsNatural DEF Occupied, HowMany, PoolTyped
<1>4. PoolTyped'
  BY DEF PoolTyped, Places
<1>5. Balanced'
  BY <1>2, <1>3, CountIsNatural, FilledIsNatural, QueueSizeAssumption
  DEF Balanced, PoolTyped, HowMany
<1>6. EndsMeet'
  BY <1>3 DEF EndsMeet
<1>7. WritersHold'
  BY DEF WritersHold, PoolTyped
<1> QED  BY <1>3, <1>4, <1>5, <1>6, <1>7, ContentsStay

\* A thread that does not touch the queue.
LEMMA HandleKeeps ==
  ASSUME PoolInv, NEW t \in Callers, Handle(t)
  PROVE  PoolInv' /\ UNCHANGED Contents
<1>1. Moves(at, at', t, "got", "out")
  BY DEF PoolInv, PoolTyped, Handle, Moves
<1>2. /\ HowMany("write")' = HowMany("write")
      /\ HowMany("posting")' = HowMany("posting")
      /\ HowMany("read")' = HowMany("read")
      /\ HowMany("freeing")' = HowMany("freeing")
  BY <1>1, OneMoves, CountIsNatural DEF HowMany
<1> USE DEF PoolInv, Handle
<1>3. Occupied' = Occupied
  BY <1>2 DEF Occupied
<1>4. PoolTyped'
  BY DEF PoolTyped, Places
<1>5. Balanced'
  BY <1>2, <1>3 DEF Balanced
<1>6. EndsMeet'
  BY <1>3 DEF EndsMeet
<1>7. WritersHold'
  BY DEF WritersHold, PoolTyped
<1> QED  BY <1>3, <1>4, <1>5, <1>6, <1>7, ContentsStay

\* A value is written behind the others.
LEMMA WriteCellKeeps ==
  ASSUME PoolInv, NEW t \in Callers, WriteCell(t), asked' \in [Clients -> Nat]
  PROVE  PoolInv' /\ Fifo!Put(value[t]) /\ value[t] \in Items
<1>1. Moves(at, at', t, "write", "posting")
  BY DEF PoolInv, PoolTyped, WriteCell, Moves
<1>2. /\ HowMany("write")' = HowMany("write") - 1
      /\ HowMany("posting")' = HowMany("posting") + 1
      /\ HowMany("read")' = HowMany("read")
      /\ HowMany("freeing")' = HowMany("freeing")
  BY <1>1, OneMoves, CountIsNatural DEF HowMany
<1>3. HowMany("write") \in Nat /\ HowMany("write") > 0 /\ HowMany("freeing") \in Nat
  BY SomeoneIsThere, CountIsNatural DEF WriteCell, HowMany
<1> USE DEF PoolInv, WriteCell
<1>4. Occupied' = Occupied + 1
  BY <1>2, CountIsNatural DEF Occupied, HowMany, PoolTyped
<1>5. QueueSize \in Nat /\ Occupied \in Nat /\ Occupied < QueueSize
  BY <1>3, FilledIsNatural, QueueSizeAssumption DEF Balanced, PoolTyped
<1>6. consumeAt \in 0 .. (QueueSize - 1)
  BY DEF PoolTyped, Slots
<1>7. produceAt = IF consumeAt + Occupied < QueueSize THEN consumeAt + Occupied
                  ELSE consumeAt + Occupied - QueueSize
  BY <1>5, <1>6, RoundTheRing DEF EndsMeet
<1>8. produceAt \in Slots
  BY <1>5, <1>6, <1>7 DEF Slots
<1>9. PoolTyped'
  BY DEF PoolTyped, Places
<1>10. Balanced'
  BY <1>2, <1>3, <1>4, <1>5 DEF Balanced, PoolTyped
<1>11. EndsMeet'
  <2>1. produceAt' = IF produceAt + 1 = QueueSize THEN 0 ELSE produceAt + 1
    BY DEF NextCell
  <2>2. (consumeAt + (Occupied + 1)) % QueueSize =
          IF consumeAt + (Occupied + 1) < QueueSize THEN consumeAt + (Occupied + 1)
          ELSE consumeAt + (Occupied + 1) - QueueSize
    BY <1>5, <1>6, RoundTheRing
  <2> QED  BY <1>4, <1>5, <1>6, <1>7, <2>1, <2>2 DEF EndsMeet
<1>12. WritersHold' /\ value[t] \in Items
  BY DEF WritersHold, PoolTyped
<1>13. Contents' = Append(Contents, value[t])
  <2>1. Contents = [n \in 1 .. Occupied |-> storage[(consumeAt + n - 1) % QueueSize]]
    BY ContentsAreFilled
  <2>2. Contents' = [n \in 1 .. Occupied' |-> storage'[(consumeAt' + n - 1) % QueueSize]]
    BY DEF Contents, Occupied, HowMany, CountIn, At
  <2>3. Len(Contents) = Occupied
    BY <1>5, <2>1
  <2>4. ASSUME NEW n \in 1 .. Occupied
        PROVE  storage'[(consumeAt + n - 1) % QueueSize] = storage[(consumeAt + n - 1) % QueueSize]
    <3>1. (consumeAt + n - 1) % QueueSize =
            IF consumeAt + n - 1 < QueueSize THEN consumeAt + n - 1
            ELSE consumeAt + n - 1 - QueueSize
      BY <1>5, <1>6, RoundTheRing
    <3>2. (consumeAt + n - 1) % QueueSize \in Slots
      BY <1>5, <1>6, <3>1 DEF Slots
    <3>3. (consumeAt + n - 1) % QueueSize # produceAt
      BY <1>5, <1>6, <1>7, <3>1
    <3> QED  BY <3>2, <3>3 DEF PoolTyped
  <2>5. storage'[(consumeAt + (Occupied + 1) - 1) % QueueSize] = value[t]
    <3>1. consumeAt + (Occupied + 1) - 1 = consumeAt + Occupied
      BY <1>5, <1>6
    <3> QED  BY <1>8, <3>1 DEF EndsMeet, PoolTyped
  <2> HIDE DEF WriteCell, PoolInv
  <2>6. Contents' = [n \in 1 .. (Occupied + 1) |-> storage'[(consumeAt + n - 1) % QueueSize]]
    BY <1>4, <2>2 DEF WriteCell
  <2>7. Append(Contents, value[t]) =
          [n \in 1 .. (Occupied + 1) |-> IF n <= Occupied THEN Contents[n] ELSE value[t]]
    BY <1>5, <2>1, <2>3
  <2> QED  BY <1>5, <2>1, <2>4, <2>5, <2>6, <2>7
<1>14. Len(Contents) < QueueSize
  BY <1>5, ContentsAreFilled
<1> QED  BY <1>9, <1>10, <1>11, <1>12, <1>13, <1>14 DEF Fifo!Put

\* The oldest value is read.
LEMMA ReadCellKeeps ==
  ASSUME PoolInv, NEW t \in Callers, ReadCell(t), asked' \in [Clients -> Nat]
  PROVE  PoolInv' /\ Fifo!Get
<1>1. Moves(at, at', t, "read", "freeing")
  BY DEF PoolInv, PoolTyped, ReadCell, Moves
<1>2. /\ HowMany("write")' = HowMany("write")
      /\ HowMany("posting")' = HowMany("posting")
      /\ HowMany("read")' = HowMany("read") - 1
      /\ HowMany("freeing")' = HowMany("freeing") + 1
  BY <1>1, OneMoves, CountIsNatural DEF HowMany
<1>3. /\ HowMany("read") > 0 /\ HowMany("read") \in Nat /\ HowMany("posting") \in Nat
      /\ HowMany("write") \in Nat /\ HowMany("freeing") \in Nat
  BY SomeoneIsThere, CountIsNatural DEF ReadCell, HowMany
<1> USE DEF PoolInv, ReadCell
<1>4. Occupied' = Occupied - 1
  BY <1>2, <1>3 DEF Occupied, PoolTyped
<1>5. QueueSize \in Nat /\ Occupied \in Nat /\ Occupied > 0 /\ Occupied <= QueueSize
  BY <1>3, FilledFits, QueueSizeAssumption DEF Occupied, PoolTyped
<1>6. consumeAt \in 0 .. (QueueSize - 1)
  BY DEF PoolTyped, Slots
<1>7. produceAt = IF consumeAt + Occupied < QueueSize THEN consumeAt + Occupied
                  ELSE consumeAt + Occupied - QueueSize
  BY <1>5, <1>6, RoundTheRing DEF EndsMeet
<1>8. /\ consumeAt' \in Slots
      /\ consumeAt' = IF consumeAt + 1 = QueueSize THEN 0 ELSE consumeAt + 1
  BY NextIsFurther DEF PoolTyped, NextCell
<1>9. PoolTyped'
  BY <1>8 DEF PoolTyped, Places
<1>10. Balanced'
  BY <1>2, <1>3, <1>4, <1>5 DEF Balanced, PoolTyped
<1>11. EndsMeet'
  <2>1. (consumeAt' + (Occupied - 1)) % QueueSize =
          IF consumeAt' + (Occupied - 1) < QueueSize THEN consumeAt' + (Occupied - 1)
          ELSE consumeAt' + (Occupied - 1) - QueueSize
    BY <1>5, <1>6, <1>8, RoundTheRing
  <2> QED  BY <1>4, <1>5, <1>6, <1>7, <1>8, <2>1 DEF EndsMeet
<1>12. WritersHold'
  BY DEF WritersHold, PoolTyped
<1>13. Contents # <<>> /\ Contents' = Tail(Contents)
  <2>1. Contents = [n \in 1 .. Occupied |-> storage[(consumeAt + n - 1) % QueueSize]]
    BY ContentsAreFilled
  <2>2. Contents' = [n \in 1 .. Occupied' |-> storage'[(consumeAt' + n - 1) % QueueSize]]
    BY DEF Contents, Occupied, HowMany, CountIn, At
  <2>3. Len(Contents) = Occupied
    BY <1>5, <2>1
  <2>4. ASSUME NEW n \in 1 .. (Occupied - 1)
        PROVE  (consumeAt' + n - 1) % QueueSize = (consumeAt + (n + 1) - 1) % QueueSize
    <3>1. (consumeAt' + n - 1) % QueueSize =
            IF consumeAt' + n - 1 < QueueSize THEN consumeAt' + n - 1
            ELSE consumeAt' + n - 1 - QueueSize
      BY <1>5, <1>6, <1>8, RoundTheRing
    <3>2. (consumeAt + (n + 1) - 1) % QueueSize =
            IF consumeAt + (n + 1) - 1 < QueueSize THEN consumeAt + (n + 1) - 1
            ELSE consumeAt + (n + 1) - 1 - QueueSize
      BY <1>5, <1>6, RoundTheRing
    <3> QED  BY <1>5, <1>6, <1>8, <3>1, <3>2
  <2> HIDE DEF PoolInv
  <2>5. Contents' = [n \in 1 .. (Occupied - 1) |-> storage[(consumeAt' + n - 1) % QueueSize]]
    BY <1>4, <2>2
  <2> HIDE DEF ReadCell
  <2>6. Tail(Contents) = [n \in 1 .. (Occupied - 1) |-> Contents[n + 1]]
    BY <1>5, <2>1, <2>3
  <2>7. \A n \in 1 .. (Occupied - 1) : Contents[n + 1] = storage[(consumeAt' + n - 1) % QueueSize]
    BY <1>5, <2>1, <2>4
  <2>8. Contents # <<>>
    BY <1>5, <2>3
  <2> QED  BY <2>5, <2>6, <2>7, <2>8
<1> QED  BY <1>9, <1>10, <1>11, <1>12, <1>13 DEF Fifo!Get

-----------------------------------------------------------------------------
(* The pool *)

LEMMA PoolNextKeeps ==
  ASSUME PoolInv, [PoolNext]_poolVars
  PROVE  PoolInv' /\ [Fifo!Next]_Contents
<1> DEFINE Kept == PoolInv' /\ [Fifo!Next]_Contents
<1>1. Callers = Workers \union Clients \union {Main}
  BY CallersAssumption
<1>2. asked \in [Clients -> Nat]
  BY DEF PoolInv, PoolTyped
<1>3. CASE SendPoison
  <2>1. Poison \in Items /\ asked' = asked
    BY <1>3 DEF Items, SendPoison
  <2> QED  BY <1>1, <1>2, <1>3, <2>1, WaitEmptyKeeps DEF SendPoison
<1>4. ASSUME NEW c \in Clients, Ask(c)
      PROVE  Kept
  <2>1. asked' \in [Clients -> Nat]
    BY <1>2, <1>4 DEF Ask
  <2>2. Requests[c][asked[c] + 1] \in Items
    <3>1. Requests[c] \in Seq(ToSet(Requests[c]))
      BY RequestsAssumption
    <3>2. asked[c] + 1 \in 1 .. Len(Requests[c])
      BY <1>2, <1>4, <3>1 DEF Ask
    <3>3. Requests[c][asked[c] + 1] \in ToSet(Requests[c])
      BY <3>1, <3>2
    <3> QED  BY <3>3 DEF Items
  <2> QED  BY <1>1, <1>4, <2>1, <2>2, WaitEmptyKeeps DEF Ask
<1>5. ASSUME NEW w \in Workers, StartConsume(w)
      PROVE  Kept
  BY <1>1, <1>2, <1>5, WaitUsedKeeps DEF StartConsume
<1>6. ASSUME NEW w \in Workers, Handle(w)
      PROVE  Kept
  BY <1>1, <1>6, HandleKeeps
<1>7. ASSUME NEW t \in Callers, Inside(t)
      PROVE  Kept
  <2>1. asked' = asked
    BY <1>7 DEF Inside
  <2>2. CASE WriteCell(t)
    BY <1>2, <2>1, <2>2, WriteCellKeeps DEF Fifo!Next, Items
  <2>3. CASE PostUsed(t)
    BY <1>2, <2>1, <2>3, PostUsedKeeps
  <2>4. CASE ReadCell(t)
    BY <1>2, <2>1, <2>4, ReadCellKeeps DEF Fifo!Next
  <2>5. CASE PostEmpty(t)
    BY <1>2, <2>1, <2>5, PostEmptyKeeps
  <2> QED  BY <1>7, <2>2, <2>3, <2>4, <2>5 DEF Inside, QueueStep
<1>8. CASE UNCHANGED poolVars
  <2> USE <1>8 DEF poolVars, queueVars
  <2>1. PoolInv'
    BY DEF PoolInv, PoolTyped, Balanced, EndsMeet, WritersHold, Occupied, HowMany
  <2>2. UNCHANGED Contents
    BY DEF Contents, At
  <2> QED  BY <2>1, <2>2
<1> QED  BY <1>3, <1>4, <1>5, <1>6, <1>7, <1>8 DEF PoolNext

(***************************************************************************)
(* The ring with its two semaphores is a bounded queue, first in, first    *)
(* out, for every number of threads at either end: a value is written into *)
(* a cell that has been read, and read from one that has been written, in  *)
(* the order in which they were written (util/pcqueue.hh:92-124).          *)
(***************************************************************************)
THEOREM PoolImplementsQueue == PoolSpec => ImplementsQueue
<1>1. PoolInit => PoolInv /\ Fifo!Init
  BY PoolInitIsRight
<1>2. PoolInv /\ [PoolNext]_poolVars => PoolInv' /\ [Fifo!Next]_Contents
  BY PoolNextKeeps
<1> QED  BY <1>1, <1>2, PTL DEF PoolSpec, ImplementsQueue

(***************************************************************************)
(* The semaphores and the threads in a call share the cells among them:    *)
(* their sum is the size of the queue at every moment, so that neither a   *)
(* cell that holds a value is ever given away nor one forgotten            *)
(* (util/pcqueue.hh:92-124).                                               *)
(***************************************************************************)
THEOREM CellsAreAccounted == PoolSpec => []Balanced
<1>1. PoolInit => PoolInv
  BY PoolInitIsRight
<1>2. PoolInv /\ [PoolNext]_poolVars => PoolInv'
  BY PoolNextKeeps
<1>3. PoolInv => Balanced
  BY DEF PoolInv
<1> QED  BY <1>1, <1>2, <1>3, PTL DEF PoolSpec

(***************************************************************************)
(* The sorted vector                                                       *)
(***************************************************************************)

\* What the theorems assume of the constants.
Sane ==
  /\ StackSize > 0
  /\ \A h \in Hypotheses : h.key \in Int /\ h.score \in Int

Vectors == {"coll", "sorted"}

\* How many elements a vector holds.
Count(v) == IF Hole(v) = {} THEN vec[v].size ELSE vec[v].size - 1

\* The place of a hypothesis in the order of the job.
Rank(h) == IF job = "sort" THEN 0 - h.score ELSE h.key

Typed ==
  /\ pool \in SUBSET Hypotheses
  /\ freed \in SUBSET Hypotheses
  /\ adding \in SUBSET Hypotheses
  /\ k \in Nat
  /\ pc \in {"idle", "search", "recombine", "insert", "shift", "delete"}
  /\ job \in {"none", "add", "sort", "refill"}
  /\ vec = [coll |-> vec.coll, sorted |-> vec.sorted]
  /\ \A v \in Vectors :
       /\ vec[v] = [cells |-> vec[v].cells, size |-> vec[v].size]
       /\ vec[v].cells = [i \in Cells |-> vec[v].cells[i]]
       /\ vec[v].size \in 0 .. Tolerance
       /\ \A i \in Filled(v) : vec[v].cells[i] \in Hypotheses

\* What each piece of code finds.
Control ==
  /\ pc = "idle" <=> job = "none"
  /\ pc = "idle" => adding = {}
  /\ pc = "recombine" => job = "add" /\ found
  /\ pc = "delete" => job = "refill"

\* An add: there is room for the hypothesis.
Adding ==
  job = "add" => adding = {hypo} /\ Count("coll") < Tolerance

\* While prune sorts, the array holds the first k hypotheses of the vector.
Sorting ==
  job = "sort" =>
    /\ StackSize <= vec.coll.size
    /\ k < vec.coll.size
    /\ hypo = vec.coll.cells[k]
    /\ Count("sorted") = k
    /\ Elements("sorted") = {vec.coll.cells[i] : i \in 0 .. (k - 1)}

\* While it puts them back, the vector holds the first k of the array.
Refilling ==
  job = "refill" =>
    /\ StackSize <= vec.sorted.size
    /\ Count("coll") = k
    /\ Elements("coll") = {vec.sorted.cells[i] : i \in 0 .. (k - 1)}
    /\ IF pc = "delete" THEN k = StackSize
                        ELSE k < StackSize /\ hypo = vec.sorted.cells[k]

\* The array is there for prune only, and has no key twice.
Array ==
  /\ job \in {"none", "add"} => vec.sorted.size = 0
  /\ \A i, j \in Filled("sorted") :
       i # j => vec.sorted.cells[i].key # vec.sorted.cells[j].key

\* What is left of the l is before, what is right of the r is behind.
Bisecting ==
  pc = "search" =>
    /\ l \in Nat /\ r \in Int /\ ind \in Nat
    /\ l <= r + 1 /\ r < vec[Target].size
    /\ ~found => /\ ind = r + 1
                 /\ \A i \in 0 .. (l - 1) : Before(vec[Target].cells[i], hypo)
                 /\ \A i \in (r + 1) .. (vec[Target].size - 1) : Before(hypo, vec[Target].cells[i])
    /\ found => /\ ind < vec[Target].size
                /\ Rank(vec[Target].cells[ind]) = Rank(hypo)

\* The place the bisection found.
Placed ==
  /\ pc \in {"insert", "shift"} =>
       /\ ind \in 0 .. Count(Target)
       /\ \A i \in Filled(Target) :
            /\ i < ind => Rank(vec[Target].cells[i]) <= Rank(hypo)
            /\ i >= ind => Rank(hypo) <= Rank(vec[Target].cells[i])
            /\ job # "sort" => vec[Target].cells[i].key # hypo.key
  /\ pc = "shift" => vec[Target].size > 0 /\ dest \in ind .. (vec[Target].size - 1)
  /\ pc = "recombine" =>
       ind \in 0 .. (vec.coll.size - 1) /\ vec.coll.cells[ind].key = hypo.key

\* What counts as the contents: see ASet in SortedVector.
Held == IF job = "refill" THEN Elements("sorted") ELSE Elements("coll")

\* Every hypothesis that was added is held, freed, or about to be added, as one
\* at most is.
Accounted ==
  /\ Hypotheses \ pool = Held \union freed \union adding
  /\ Held \intersect freed = {}
  /\ adding \intersect (Held \union freed) = {}
  /\ \A g, h \in adding : g = h

IInv ==
  /\ Sane /\ Typed /\ Control /\ Adding /\ Sorting /\ Refilling /\ Array
  /\ Ordered /\ Bisecting /\ Placed /\ Accounted

-----------------------------------------------------------------------------
(* What follows from the job *)

LEMMA TheSizes == Tolerance \in Nat /\ Tolerance = 2 * StackSize /\ StackSize \in Nat
BY StackSizeType DEF Tolerance

\* The orders compare numbers.
LEMMA BeforeIsRank ==
  ASSUME Sane, NEW g \in Hypotheses, NEW h \in Hypotheses
  PROVE  /\ Rank(g) \in Int /\ Rank(h) \in Int
         /\ Before(g, h) <=> Rank(g) < Rank(h)
BY DEF Sane, Before, ByScore, ByKey, Rank

\* The vector that is not worked on has no hole.
LEMMA TheTarget ==
  /\ Target \in Vectors
  /\ job = "sort" => Target = "sorted" /\ Filled("coll") = 0 .. (vec.coll.size - 1)
  /\ job # "sort" => Target = "coll" /\ Filled("sorted") = 0 .. (vec.sorted.size - 1)
  /\ pc # "shift" => \A v \in Vectors : Filled(v) = 0 .. (vec[v].size - 1)
  /\ pc = "shift" => Filled(Target) = (0 .. (vec[Target].size - 1)) \ {dest}
BY DEF Target, Filled, Hole, Vectors

LEMMA SizeIsNatural ==
  ASSUME Typed, NEW v \in Vectors
  PROVE  vec[v].size \in Nat /\ vec[v].size <= Tolerance
<1>1. vec[v].size \in 0 .. Tolerance
  BY DEF Typed
<1> QED  BY <1>1, TheSizes

\* Insertion makes room at the end.
LEMMA InsertVectors ==
  ASSUME Typed, Insert, ~Traps, NEW v \in Vectors
  PROVE  /\ vec' = [coll |-> vec'.coll, sorted |-> vec'.sorted]
         /\ vec'[v] = [cells |-> vec'[v].cells, size |-> vec'[v].size]
         /\ vec'[v].cells = vec[v].cells
         /\ vec'[v].size = IF v = Target THEN vec[v].size + 1 ELSE vec[v].size
         /\ Filled(v)' = Filled(v)
         /\ Elements(v)' = Elements(v)
<1>1. pc' = "shift" /\ job' = job /\ Target' = Target /\ dest' = vec[Target].size /\ pc = "insert"
  BY DEF Insert, Target
<1>2. /\ vec' = [coll |-> vec'.coll, sorted |-> vec'.sorted]
      /\ vec'[v] = [cells |-> vec'[v].cells, size |-> vec'[v].size]
      /\ vec'[v].cells = vec[v].cells
      /\ vec'[v].size = IF v = Target THEN vec[v].size + 1 ELSE vec[v].size
  <2>1. CASE Target = "coll"
    <3>1. vec' = [coll |-> [cells |-> vec.coll.cells, size |-> vec.coll.size + 1],
                  sorted |-> vec.sorted]
      BY <2>1 DEF Insert, Typed, Vectors
    <3> QED  BY <2>1, <3>1 DEF Typed, Vectors
  <2>2. CASE Target = "sorted"
    <3>1. vec' = [sorted |-> [cells |-> vec.sorted.cells, size |-> vec.sorted.size + 1],
                  coll |-> vec.coll]
      BY <2>2 DEF Insert, Typed, Vectors
    <3> QED  BY <2>2, <3>1 DEF Typed, Vectors
  <2> QED  BY <2>1, <2>2, TheTarget DEF Vectors
<1>3. Filled(v)' = Filled(v)
  <2>1. vec[v].size \in Nat
    BY SizeIsNatural
  <2> QED  BY <1>1, <1>2, <2>1 DEF Filled, Hole
<1>4. Elements(v)' = Elements(v)
  BY <1>2, <1>3 DEF Elements
<1> QED  BY <1>2, <1>3, <1>4


\* Where no shift goes on, the same vectors have the same elements.
LEMMA SameVectors ==
  ASSUME UNCHANGED vec, pc # "shift", pc' # "shift", NEW v \in Vectors
  PROVE  /\ Filled(v)' = Filled(v)
         /\ Elements(v)' = Elements(v)
         /\ Count(v)' = Count(v)
         /\ Count(v) = vec[v].size
<1>1. Hole(v) = {} /\ Hole(v)' = {}
  BY DEF Hole
<1> QED  BY <1>1 DEF Filled, Elements, Count

\* The order of a vector, in numbers.
LEMMA RankOrdered ==
  ASSUME IInv, NEW i \in Filled(Target), NEW j \in Filled(Target), i < j
  PROVE  /\ Rank(vec[Target].cells[i]) <= Rank(vec[Target].cells[j])
         /\ job # "sort" => Rank(vec[Target].cells[i]) < Rank(vec[Target].cells[j])
<1>1. vec[Target].cells[i] \in Hypotheses /\ vec[Target].cells[j] \in Hypotheses
  BY TheTarget DEF IInv, Typed
<1>2. CASE job = "sort"
  <2>1. ~ByScore(vec.sorted.cells[j], vec.sorted.cells[i])
    BY <1>2, TheTarget DEF IInv, Ordered
  <2> QED  BY <1>1, <1>2, <2>1, TheTarget, SMTT(20) DEF IInv, Sane, ByScore, Rank
<1>3. CASE job # "sort"
  <2>1. ByKey(vec.coll.cells[i], vec.coll.cells[j])
    BY <1>3, TheTarget DEF IInv, Ordered
  <2> QED  BY <1>1, <1>3, <2>1, TheTarget DEF IInv, Sane, ByKey, Rank
<1> QED  BY <1>2, <1>3

\* There is a hypothesis that the search and the insertion are about.
LEMMA HypoIsOne ==
  ASSUME IInv, pc \in {"search", "insert", "shift", "recombine"}
  PROVE  hypo \in Hypotheses
<1>1. job \in {"add", "sort", "refill"}
  BY DEF IInv, Typed, Control
<1>2. CASE job = "add"
  BY <1>2 DEF IInv, Typed, Adding
<1>3. CASE job = "sort"
  <2>1. k \in Nat /\ k < vec.coll.size /\ hypo = vec.coll.cells[k]
    BY <1>3 DEF IInv, Sorting, Typed
  <2>2. vec.coll.size \in Nat
    BY SizeIsNatural DEF IInv, Vectors
  <2>3. k \in Filled("coll")
    BY <1>3, <2>1, <2>2, TheTarget
  <2> QED  BY <2>1, <2>3 DEF IInv, Typed, Vectors
<1>4. CASE job = "refill"
  <2>1. k \in Filled("sorted") /\ hypo = vec.sorted.cells[k]
    BY <1>4, TheTarget, TheSizes DEF IInv, Refilling, Typed, Vectors
  <2> QED  BY <2>1 DEF IInv, Typed, Vectors
<1> QED  BY <1>1, <1>2, <1>3, <1>4

-----------------------------------------------------------------------------
(* The bisection *)

\* Each iteration halves what is left, and knows of the rest where it lies.
LEMMA SearchKeeps ==
  ASSUME IInv, Search
  PROVE  IInv' /\ UNCHANGED Held
<1> DEFINE x == (l + r) \div 2
           elems == vec[Target].cells
           size == vec[Target].size
<1>1. /\ pc = "search" /\ ~found /\ r >= l
      /\ UNCHANGED <<pool, freed, vec, pc, job, adding, k, hypo, dest>>
  BY DEF Search
<1>2. /\ l \in Nat /\ r \in Int /\ r < size /\ ind = r + 1
      /\ \A i \in 0 .. (l - 1) : Before(elems[i], hypo)
      /\ \A i \in (r + 1) .. (size - 1) : Before(hypo, elems[i])
      /\ size \in Nat
  BY <1>1, TheTarget, SizeIsNatural DEF IInv, Bisecting
<1>3. x \in Nat /\ l <= x /\ x <= r
  BY <1>1, <1>2
<1>14. x \in 0 .. (size - 1)
  BY <1>2, <1>3
<1> HIDE DEF x
<1>4. Filled(Target) = 0 .. (size - 1) /\ hypo \in Hypotheses
  BY <1>1, TheTarget, HypoIsOne
<1>5. \A i \in 0 .. (size - 1) : elems[i] \in Hypotheses
  BY <1>4, TheTarget DEF IInv, Typed
<1>6. \A i, j \in 0 .. (size - 1) : i < j => Rank(elems[i]) <= Rank(elems[j])
  BY <1>4, RankOrdered
<1>7. \A g, h \in Hypotheses :
        Rank(g) \in Int /\ Rank(h) \in Int /\ (Before(g, h) <=> Rank(g) < Rank(h))
  BY BeforeIsRank DEF IInv
<1>8. Target' = Target
  BY <1>1 DEF Target
<1>9. Bisecting'
  <2>0. elems[x] \in Hypotheses
    BY <1>5, <1>14
  <2>1. CASE Before(hypo, elems[x]) /\ r' = x - 1 /\ ind' = Index(x) /\ UNCHANGED <<l, found>>
    <3>1. ind' = x
      BY <1>2, <1>3, <2>1 DEF Index
    <3>2. ASSUME NEW i \in x .. (size - 1) PROVE Before(hypo, elems[i])
      <4>1. i \in 0 .. (size - 1) /\ (i = x \/ x < i)
        BY <1>2, <1>3
      <4>2. elems[i] \in Hypotheses /\ Rank(elems[x]) <= Rank(elems[i])
        BY <1>5, <1>6, <1>7, <1>14, <2>0, <4>1
      <4> QED  BY <1>4, <1>7, <2>0, <2>1, <4>2
    <3> QED  BY <1>1, <1>2, <1>3, <1>8, <2>1, <3>1, <3>2 DEF Bisecting, Before
  <2>2. CASE Before(elems[x], hypo) /\ l' = Above(x) /\ UNCHANGED <<r, found, ind>>
    <3>1. ASSUME NEW i \in 0 .. x PROVE Before(elems[i], hypo)
      <4>1. i \in 0 .. (size - 1) /\ (i = x \/ i < x)
        BY <1>2, <1>3
      <4>2. elems[i] \in Hypotheses /\ Rank(elems[i]) <= Rank(elems[x])
        BY <1>5, <1>6, <1>7, <1>14, <2>0, <4>1
      <4> QED  BY <1>4, <1>7, <2>0, <2>2, <4>2
    <3> QED  BY <1>1, <1>2, <1>3, <1>8, <2>2, <3>1 DEF Bisecting, Before, Above
  <2>3. CASE /\ ~Before(hypo, elems[x]) /\ ~Before(elems[x], hypo)
             /\ found' = TRUE /\ ind' = x /\ UNCHANGED <<l, r>>
    <3>1. Rank(elems[x]) = Rank(hypo)
      BY <1>4, <1>7, <2>0, <2>3
    <3> QED  BY <1>1, <1>2, <1>3, <1>8, <2>3, <3>1 DEF Bisecting, Rank
  <2> QED  BY <2>1, <2>2, <2>3 DEF Search, x
<1>10. /\ UNCHANGED <<Filled("coll"), Filled("sorted")>>
       /\ UNCHANGED <<Elements("coll"), Elements("sorted")>>
       /\ UNCHANGED <<Count("coll"), Count("sorted")>>
  BY <1>1, SameVectors DEF Vectors
<1>11. Typed' /\ Control' /\ Adding' /\ Sorting' /\ Refilling' /\ Array' /\ Ordered' /\ Placed'
  <2>1. Typed'
    BY <1>1, <1>10 DEF IInv, Typed, Vectors
  <2>2. Control' /\ Placed'
    BY <1>1 DEF IInv, Control, Placed
  <2>3. Adding' /\ Sorting' /\ Refilling' /\ Array'
    BY <1>1, <1>10 DEF IInv, Adding, Sorting, Refilling, Array
  <2>4. Ordered'
    BY <1>1, <1>10 DEF IInv, Ordered
  <2> QED  BY <2>1, <2>2, <2>3, <2>4
<1>12. UNCHANGED Held
  BY <1>1, <1>10 DEF Held
<1>13. Accounted'
  BY <1>1, <1>12 DEF IInv, Accounted
<1> QED  BY <1>9, <1>11, <1>12, <1>13 DEF IInv, Sane

\* The bisection is over: it has found the hypothesis, or the place for it.
LEMMA SearchHasEnded ==
  ASSUME IInv, pc = "search", found \/ r < l
  PROVE  LET v == vec[Target]
         IN  /\ v.size \in Nat
             /\ Filled(Target) = 0 .. (v.size - 1)
             /\ \A i \in Filled(Target) : v.cells[i] \in Hypotheses /\ Rank(v.cells[i]) \in Int
             /\ hypo \in Hypotheses /\ Rank(hypo) \in Int
             /\ ind \in 0 .. v.size
             /\ found => ind < v.size /\ Rank(v.cells[ind]) = Rank(hypo)
             /\ \A i \in Filled(Target) :
                  /\ i < ind => Rank(v.cells[i]) <= Rank(hypo)
                  /\ i >= ind => Rank(hypo) <= Rank(v.cells[i])
                  /\ ~found => Rank(v.cells[i]) # Rank(hypo)
<1> DEFINE elems == vec[Target].cells
           size == vec[Target].size
<1>1. size \in Nat /\ Filled(Target) = 0 .. (size - 1) /\ hypo \in Hypotheses
  BY TheTarget, SizeIsNatural, HypoIsOne DEF IInv
<1>2. \A i \in 0 .. (size - 1) : elems[i] \in Hypotheses
  BY <1>1, TheTarget DEF IInv, Typed
<1>3. \A g, h \in Hypotheses :
        Rank(g) \in Int /\ Rank(h) \in Int /\ (Before(g, h) <=> Rank(g) < Rank(h))
  BY BeforeIsRank DEF IInv
<1>4. /\ l \in Nat /\ r \in Int /\ ind \in Nat /\ l <= r + 1 /\ r < size
      /\ ~found => /\ ind = r + 1
                   /\ \A i \in 0 .. (l - 1) : Before(elems[i], hypo)
                   /\ \A i \in (r + 1) .. (size - 1) : Before(hypo, elems[i])
      /\ found => ind < size /\ Rank(elems[ind]) = Rank(hypo)
  BY DEF IInv, Bisecting
<1>5. \A i, j \in 0 .. (size - 1) : i < j => Rank(elems[i]) <= Rank(elems[j])
  BY <1>1, RankOrdered
<1>6. ind \in 0 .. size
  BY <1>1, <1>4
<1>7. ASSUME NEW i \in 0 .. (size - 1)
      PROVE  /\ i < ind => Rank(elems[i]) <= Rank(hypo)
             /\ i >= ind => Rank(hypo) <= Rank(elems[i])
             /\ ~found => Rank(elems[i]) # Rank(hypo)
  <2>1. elems[i] \in Hypotheses /\ Rank(elems[i]) \in Int /\ Rank(hypo) \in Int
    BY <1>1, <1>2, <1>3
  <2>2. CASE found
    <3>1. ind \in 0 .. (size - 1)
      BY <1>1, <1>4, <2>2
    <3>2. /\ i < ind => Rank(elems[i]) <= Rank(elems[ind])
          /\ ind < i => Rank(elems[ind]) <= Rank(elems[i])
      BY <1>5, <3>1
    <3> QED  BY <1>4, <2>1, <2>2, <3>1, <3>2
  <2>3. CASE ~found
    <3>1. ind = l /\ l = r + 1
      BY <1>4, <2>3
    <3>2. i < ind => Before(elems[i], hypo)
      BY <1>4, <2>3, <3>1
    <3>3. i >= ind => Before(hypo, elems[i])
      BY <1>1, <1>4, <2>3, <3>1
    <3> QED  BY <1>1, <1>3, <1>4, <2>1, <3>1, <3>2, <3>3
  <2> QED  BY <2>2, <2>3
<1> QED  BY <1>1, <1>2, <1>3, <1>4, <1>6, <1>7

\* Prune puts back no key that is there already.
LEMMA NoKeyTwice ==
  ASSUME IInv, pc = "search", found, job = "refill"
  PROVE  FALSE
<1>1. /\ ind \in Nat /\ ind < vec.coll.size /\ vec.coll.size \in Nat
      /\ vec.coll.cells[ind].key = hypo.key
  BY TheTarget, SizeIsNatural, SearchHasEnded DEF Rank, IInv, Vectors, Bisecting
<1>2. vec.coll.cells[ind] \in Elements("coll")
  BY <1>1, TheTarget DEF Elements, Vectors
<1>3. /\ Elements("coll") = {vec.sorted.cells[i] : i \in 0 .. (k - 1)}
      /\ k \in Nat /\ k < vec.sorted.size /\ hypo = vec.sorted.cells[k]
  BY TheSizes, SizeIsNatural DEF IInv, Refilling, Typed, Vectors
<1>4. PICK i \in 0 .. (k - 1) : vec.coll.cells[ind] = vec.sorted.cells[i]
  BY <1>2, <1>3
<1>5. vec.sorted.size \in Nat /\ Filled("sorted") = 0 .. (vec.sorted.size - 1)
  BY TheTarget, SizeIsNatural DEF IInv, Vectors
<1>6. i \in Filled("sorted") /\ k \in Filled("sorted") /\ i # k
  BY <1>3, <1>4, <1>5
<1> QED  BY <1>1, <1>3, <1>4, <1>6 DEF IInv, Array

\* The assertion of Set::insert holds, and the place is right.
LEMMA SearchEndsKeeps ==
  ASSUME IInv, SearchEnds
  PROVE  IInv' /\ UNCHANGED Held
<1>1. /\ pc = "search" /\ (found \/ r < l)
      /\ UNCHANGED <<pool, freed, vec, job, adding, k, hypo, l, r, found, ind, dest>>
  BY DEF SearchEnds, search
<1>2. \/ pc' = "recombine" /\ job = "add" /\ found
      \/ pc' = "insert" /\ (job \in {"add", "refill"} => ~found)
  <2>1. job = "refill" => ~found
    BY <1>1, NoKeyTwice
  <2>2. CASE found
    BY <2>1, <2>2 DEF SearchEnds
  <2>3. CASE ~found
    BY <2>3 DEF SearchEnds
  <2> QED  BY <2>2, <2>3
<1>3. /\ UNCHANGED <<Filled("coll"), Filled("sorted")>>
      /\ UNCHANGED <<Elements("coll"), Elements("sorted")>>
      /\ UNCHANGED <<Count("coll"), Count("sorted")>>
  BY <1>1, <1>2, SameVectors DEF Vectors
<1>4. Target' = Target /\ UNCHANGED Held
  BY <1>1, <1>3 DEF Target, Held
<1>5. Typed'
  BY <1>1, <1>2, <1>3 DEF IInv, Typed, Vectors
<1>6. Control' /\ Bisecting'
  BY <1>1, <1>2 DEF IInv, Control, Bisecting
<1>7. Adding' /\ Sorting' /\ Array' /\ Ordered'
  BY <1>1, <1>3 DEF IInv, Adding, Sorting, Array, Ordered
<1>8. Refilling'
  BY <1>1, <1>2, <1>3 DEF IInv, Refilling
<1>9. Placed'
  <2>1. CASE pc' = "recombine"
    BY <1>1, <1>2, <2>1, SearchHasEnded, TheTarget DEF Placed, Rank
  <2>2. CASE pc' = "insert"
    <3>1. job # "none"
      BY <1>1 DEF IInv, Control
    <3>2. job # "sort" => ~found
      BY <1>2, <2>2, <3>1 DEF IInv, Typed
    <3>3. Count(Target) = vec[Target].size
      BY <1>1, TheTarget DEF Count, Hole
    <3>4. Filled(Target)' = Filled(Target) /\ Count(Target)' = Count(Target)
      BY <1>1, <1>2, <1>4 DEF Filled, Count, Hole
    <3>5. /\ ind \in 0 .. Count(Target)
          /\ \A i \in Filled(Target) :
               /\ i < ind => Rank(vec[Target].cells[i]) <= Rank(hypo)
               /\ i >= ind => Rank(hypo) <= Rank(vec[Target].cells[i])
               /\ job # "sort" => vec[Target].cells[i].key # hypo.key
      BY <1>1, <3>2, <3>3, SearchHasEnded DEF Rank
    <3> QED  BY <1>1, <1>4, <2>2, <3>4, <3>5 DEF Placed, Rank
  <2> QED  BY <1>2, <2>1, <2>2
<1>10. Accounted'
  BY <1>1, <1>4 DEF IInv, Accounted
<1> QED  BY <1>4, <1>5, <1>6, <1>7, <1>8, <1>9, <1>10 DEF IInv, Sane

-----------------------------------------------------------------------------
(* The insertion *)

\* There is room for one more.
LEMMA RoomForOne ==
  ASSUME IInv, pc = "insert"
  PROVE  ~Traps /\ vec[Target].size < Tolerance
<1>1. job \in {"add", "sort", "refill"}
  BY DEF IInv, Typed, Control
<1>2. \A v \in Vectors : Count(v) = vec[v].size /\ vec[v].size \in Nat /\ vec[v].size <= Tolerance
  BY SizeIsNatural DEF Count, Hole, IInv
<1>3. CASE job = "add"
  BY <1>2, <1>3, TheTarget, TheSizes DEF IInv, Adding, Traps, Vectors
<1>4. CASE job = "sort"
  BY <1>2, <1>4, TheTarget, TheSizes DEF IInv, Sorting, Typed, Traps, Vectors
<1>5. CASE job = "refill"
  <2>1. vec.coll.size < StackSize
    BY <1>2, <1>5 DEF IInv, Refilling, Vectors
  <2> QED  BY <1>2, <1>5, <2>1, TheTarget, TheSizes DEF Traps, Vectors
<1> QED  BY <1>1, <1>3, <1>4, <1>5

LEMMA InsertKeeps ==
  ASSUME IInv, Insert
  PROVE  IInv' /\ UNCHANGED Held
<1>1. pc = "insert" /\ ~Traps /\ vec[Target].size < Tolerance
  BY RoomForOne DEF Insert
<1>2. /\ pc' = "shift" /\ dest' = vec[Target].size
      /\ UNCHANGED <<pool, freed, job, adding, k, hypo, l, r, found, ind>>
  BY <1>1 DEF Insert, search
<1>3. \A v \in Vectors :
        /\ vec' = [coll |-> vec'.coll, sorted |-> vec'.sorted]
        /\ vec'[v] = [cells |-> vec'[v].cells, size |-> vec'[v].size]
        /\ vec'[v].cells = vec[v].cells
        /\ vec'[v].size = IF v = Target THEN vec[v].size + 1 ELSE vec[v].size
        /\ Filled(v)' = Filled(v)
        /\ Elements(v)' = Elements(v)
  BY <1>1, InsertVectors DEF IInv
<1>4. Target' = Target /\ Target \in Vectors
  BY <1>2, TheTarget DEF Target
<1>5. \A v \in Vectors :
        /\ vec[v].size \in Nat /\ vec[v].size <= Tolerance
        /\ Count(v) = vec[v].size
  BY <1>1, SizeIsNatural DEF IInv, Count, Hole
<1>6. \A v \in Vectors : Count(v)' = Count(v)
  <2> SUFFICES ASSUME NEW v \in Vectors PROVE Count(v)' = Count(v)
    OBVIOUS
  <2>1. CASE v = Target
    <3>1. Hole(v)' # {}
      BY <1>2, <1>4, <2>1 DEF Hole
    <3>2. vec'[v].size = vec[v].size + 1
      BY <1>3, <2>1
    <3>3. Count(v)' = vec'[v].size - 1
      BY <3>1 DEF Count
    <3> QED  BY <1>5, <3>2, <3>3
  <2>2. CASE v # Target
    <3>1. Hole(v)' = {}
      BY <1>4, <2>2 DEF Hole
    <3> QED  BY <1>3, <1>5, <2>2, <3>1 DEF Count
  <2> QED  BY <2>1, <2>2
<1>7. UNCHANGED Held
  BY <1>2, <1>3 DEF Held, Vectors
<1>8. Typed'
  <2>1. ASSUME NEW v \in Vectors
        PROVE  vec'[v].size \in 0 .. Tolerance
    <3>1. vec[v].size \in Nat /\ vec[v].size <= Tolerance /\ Tolerance \in Nat
      BY <1>5, TheSizes
    <3>2. CASE v = Target
      <4>1. vec'[v].size = vec[v].size + 1 /\ vec[v].size < Tolerance
        BY <1>1, <1>3, <3>2
      <4> QED  BY <3>1, <4>1
    <3>3. CASE v # Target
      <4>1. vec'[v].size = vec[v].size
        BY <1>3, <3>3
      <4> QED  BY <3>1, <4>1
    <3> QED  BY <3>2, <3>3
  <2>2. \A v \in Vectors : /\ vec[v].cells = [i \in Cells |-> vec[v].cells[i]]
                           /\ \A i \in Filled(v) : vec[v].cells[i] \in Hypotheses
    BY DEF IInv, Typed
  <2>3. /\ pool \in SUBSET Hypotheses /\ freed \in SUBSET Hypotheses
        /\ adding \in SUBSET Hypotheses /\ k \in Nat
        /\ job \in {"none", "add", "sort", "refill"}
    BY DEF IInv, Typed
  <2> QED  BY <1>2, <1>3, <2>1, <2>2, <2>3 DEF Typed, Vectors
<1>9. Control' /\ Bisecting'
  BY <1>1, <1>2 DEF IInv, Control, Bisecting
<1>10. Adding' /\ Ordered'
  BY <1>2, <1>3, <1>6 DEF IInv, Adding, Ordered, Vectors
<1>11. Sorting'
  BY <1>2, <1>3, <1>6, TheTarget DEF IInv, Sorting, Vectors
<1>12. Refilling'
  BY <1>1, <1>2, <1>3, <1>6, TheTarget DEF IInv, Refilling, Vectors
<1>13. Array'
  <2>1. job # "none"
    BY <1>1 DEF IInv, Control
  <2> QED  BY <1>2, <1>3, <2>1, TheTarget DEF IInv, Array, Vectors
<1>14. Placed'
  <2>1. ind \in 0 .. vec[Target].size
    BY <1>1, <1>4, <1>5 DEF IInv, Placed
  <2>2. \A i \in Filled(Target) :
          /\ i < ind => Rank(vec[Target].cells[i]) <= Rank(hypo)
          /\ i >= ind => Rank(hypo) <= Rank(vec[Target].cells[i])
          /\ job # "sort" => vec[Target].cells[i].key # hypo.key
    BY <1>1 DEF IInv, Placed
  <2>3. vec'[Target'].size = vec[Target].size + 1 /\ vec[Target].size \in Nat
    BY <1>3, <1>4, <1>5
  <2>4. vec[Target].size \in ind .. vec[Target].size
    BY <2>1, <2>3
  <2>5. Filled(Target)' = Filled(Target) /\ Count(Target)' = vec[Target].size
    BY <1>3, <1>4, <1>5, <1>6
  <2>6. \A i : vec'[Target'].cells[i] = vec[Target].cells[i]
    BY <1>3, <1>4
  <2>7. /\ pc' = "shift"
        /\ ind' \in 0 .. Count(Target)'
        /\ vec'[Target'].size > 0 /\ dest' \in ind' .. (vec'[Target'].size - 1)
    BY <1>2, <1>4, <2>1, <2>3, <2>4, <2>5
  <2>8. \A i \in Filled(Target)' :
          /\ i < ind' => (Rank(vec[Target].cells[i]) <= Rank(hypo))'
          /\ i >= ind' => (Rank(hypo) <= Rank(vec[Target].cells[i]))'
          /\ job' # "sort" => (vec[Target].cells[i].key # hypo.key)'
    BY <1>2, <2>2, <2>5, <2>6 DEF Rank
  <2> QED  BY <2>7, <2>8 DEF Placed
<1>15. Accounted'
  BY <1>2, <1>7 DEF IInv, Accounted
<1> QED  BY <1>7, <1>8, <1>9, <1>10, <1>11, <1>12, <1>13, <1>14, <1>15 DEF IInv, Sane

\* One cell is written.
Written(i, val) == [vec EXCEPT ![Target].cells[i] = val]

LEMMA CellWritten ==
  ASSUME Typed, NEW i \in Cells, NEW val, NEW v \in Vectors, NEW w, w = Written(i, val)
  PROVE  /\ w = [coll |-> w.coll, sorted |-> w.sorted]
         /\ w[v] = [cells |-> w[v].cells, size |-> w[v].size]
         /\ w[v].cells = [j \in Cells |-> w[v].cells[j]]
         /\ w[v].size = vec[v].size
         /\ v # Target => w[v] = vec[v]
         /\ v = Target => \A j \in Cells : w[v].cells[j] = IF j = i THEN val ELSE vec[v].cells[j]
<1>1. /\ vec = [coll |-> vec.coll, sorted |-> vec.sorted]
      /\ vec.coll = [cells |-> vec.coll.cells, size |-> vec.coll.size]
      /\ vec.sorted = [cells |-> vec.sorted.cells, size |-> vec.sorted.size]
      /\ vec.coll.cells = [j \in Cells |-> vec.coll.cells[j]]
      /\ vec.sorted.cells = [j \in Cells |-> vec.sorted.cells[j]]
  BY DEF Typed, Vectors
<1>2. CASE Target = "coll"
  <2>1. w = [coll |-> [cells |-> [vec.coll.cells EXCEPT ![i] = val], size |-> vec.coll.size],
             sorted |-> vec.sorted]
    BY <1>1, <1>2 DEF Written
  <2>2. /\ w.sorted = vec.sorted
        /\ w.coll = [cells |-> [vec.coll.cells EXCEPT ![i] = val], size |-> vec.coll.size]
    BY <2>1
  <2>5. w = [coll |-> w.coll, sorted |-> w.sorted]
    BY <2>1, <2>2
  <2>3. CASE v = "sorted"
    BY <1>1, <1>2, <2>2, <2>3, <2>5
  <2>4. CASE v = "coll"
    BY <1>1, <1>2, <2>2, <2>4, <2>5
  <2> QED  BY <2>3, <2>4 DEF Vectors
<1>3. CASE Target = "sorted"
  <2>1. w = [sorted |-> [cells |-> [vec.sorted.cells EXCEPT ![i] = val], size |-> vec.sorted.size],
             coll |-> vec.coll]
    BY <1>1, <1>3 DEF Written
  <2>2. /\ w.coll = vec.coll
        /\ w.sorted = [cells |-> [vec.sorted.cells EXCEPT ![i] = val], size |-> vec.sorted.size]
    BY <2>1
  <2>5. w = [coll |-> w.coll, sorted |-> w.sorted]
    BY <2>1, <2>2
  <2>3. CASE v = "coll"
    BY <1>1, <1>3, <2>2, <2>3, <2>5
  <2>4. CASE v = "sorted"
    BY <1>1, <1>3, <2>2, <2>4, <2>5
  <2> QED  BY <2>3, <2>4 DEF Vectors
<1> QED  BY <1>2, <1>3, TheTarget DEF Vectors

\* A shift moves the hole one down, and one element one up.
LEMMA ShiftKeeps ==
  ASSUME IInv, Shift
  PROVE  IInv' /\ UNCHANGED Held
<1> PICK T \in Vectors : T = Target
  BY TheTarget
<1> DEFINE size == vec[T].size
           Was(j) == IF j = dest THEN dest - 1 ELSE j
<1>0. vec' = Written(dest, vec[Target].cells[dest - 1])
  BY DEF Shift, Written
<1>1. /\ pc = "shift" /\ dest - 1 >= ind /\ dest' = dest - 1
      /\ UNCHANGED <<pool, freed, pc, job, adding, k, hypo, l, r, found, ind>>
  BY DEF Shift, ShiftGoesOn, search
<1>2. /\ Target' = T /\ Target = T
      /\ size \in Nat /\ size <= Tolerance
      /\ ind \in Nat /\ dest \in ind .. (size - 1)
  <2>1. Target' = T /\ Target = T /\ size \in Nat /\ size <= Tolerance
    BY <1>1, SizeIsNatural DEF Target, IInv
  <2>2. ind \in Nat /\ dest \in ind .. (size - 1)
    BY <1>1 DEF IInv, Placed
  <2> QED  BY <2>1, <2>2
<1> HIDE DEF size
<1>3. /\ dest \in Cells /\ dest \in Nat /\ dest - 1 \in 0 .. (size - 1) /\ dest < size
      /\ dest \in 0 .. (size - 1)
      /\ 0 .. (size - 1) \subseteq Cells
  <2>1. dest \in Nat /\ dest <= size - 1 /\ dest >= 1
    BY <1>1, <1>2
  <2> QED  BY <1>2, <2>1, TheSizes DEF Cells
<1>4. ASSUME NEW v \in Vectors
      PROVE  /\ vec' = [coll |-> vec'.coll, sorted |-> vec'.sorted]
             /\ vec'[v] = [cells |-> vec'[v].cells, size |-> vec'[v].size]
             /\ vec'[v].cells = [j \in Cells |-> vec'[v].cells[j]]
             /\ vec'[v].size = vec[v].size
             /\ v # T => vec'[v] = vec[v]
             /\ v = T => \A j \in Cells : vec'[v].cells[j] =
                                IF j = dest THEN vec[T].cells[dest - 1] ELSE vec[v].cells[j]
  <2>1. Typed
    BY DEF IInv
  <2> QED  BY <1>0, <1>2, <1>3, <2>1, CellWritten, SMTT(20)
<1>5. /\ Filled(T) = (0 .. (size - 1)) \ {dest}
      /\ Filled(T)' = (0 .. (size - 1)) \ {dest - 1}
  <2>1. vec'[T].size = size
    BY <1>2, <1>4 DEF size
  <2> QED  BY <1>1, <1>2, <2>1, Zenon DEF Filled, Hole, size
<1>6. \A v \in Vectors : Count(v)' = Count(v)
  BY <1>1, <1>2, <1>4 DEF Count, Hole
<1>7. ASSUME NEW v \in Vectors, v # T
      PROVE  /\ Filled(v)' = Filled(v) /\ vec'[v] = vec[v] /\ Elements(v)' = Elements(v)
  <2>1. vec'[v] = vec[v]
    BY <1>4, <1>7
  <2> QED  BY <1>1, <1>2, <1>7, <2>1 DEF Filled, Hole, Elements
<1>8. ASSUME NEW j \in Filled(T)'
      PROVE  /\ Was(j) \in Filled(T)
             /\ vec'[T].cells[j] = vec[T].cells[Was(j)]
             /\ j < ind <=> Was(j) < ind
             /\ j \in Nat
  <2>1. j \in 0 .. (size - 1) /\ j # dest - 1
    BY <1>5
  <2>2. j \in Cells
    BY <1>3, <2>1
  <2>3. vec'[T].cells[j] = vec[T].cells[Was(j)]
    BY <1>2, <1>4, <2>2
  <2> QED  BY <1>1, <1>2, <1>3, <1>5, <2>1, <2>3
<1>9. ASSUME NEW i \in Filled(T)', NEW j \in Filled(T)', i < j
      PROVE  Was(i) < Was(j)
  <2>1. i \in Nat /\ j \in Nat /\ i # dest - 1 /\ j # dest - 1
    BY <1>2, <1>5
  <2> QED  BY <1>3, <1>9, <2>1
<1>10. Elements(T)' = Elements(T)
  <2>1. Elements(T)' = {vec'[T].cells[i] : i \in Filled(T)'}
    BY <1>2 DEF Elements
  <2>2. ASSUME NEW i \in Filled(T)
        PROVE  \E j \in Filled(T)' : Was(j) = i
    <3>1. CASE i = dest - 1
      BY <1>3, <1>5, <3>1
    <3>2. CASE i # dest - 1
      BY <1>3, <1>5, <2>2, <3>2
    <3> QED  BY <3>1, <3>2
  <2> HIDE DEF Was
  <2> QED  BY <1>8, <2>1, <2>2 DEF Elements
<1> HIDE DEF Was
<1>11. ASSUME NEW v \in Vectors
       PROVE  Elements(v)' = Elements(v)
  <2>1. CASE v = T
    BY <1>10, <2>1
  <2> QED  BY <1>7, <2>1
<1>12. UNCHANGED Held
  BY <1>1, <1>11 DEF Held, Vectors
<1>13. Typed'
  <2>1. ASSUME NEW v \in Vectors
        PROVE  /\ vec'[v] = [cells |-> vec'[v].cells, size |-> vec'[v].size]
               /\ vec'[v].cells = [i \in Cells |-> vec'[v].cells[i]]
               /\ vec'[v].size \in 0 .. Tolerance
               /\ \A i \in Filled(v)' : vec'[v].cells[i] \in Hypotheses
    <3>1. vec[v].size \in 0 .. Tolerance /\ vec'[v].size = vec[v].size
      BY <1>4 DEF IInv, Typed
    <3>2. \A i \in Filled(v) : vec[v].cells[i] \in Hypotheses
      BY DEF IInv, Typed
    <3>3. \A i \in Filled(v)' : vec'[v].cells[i] \in Hypotheses
      BY <1>2, <1>7, <1>8, <3>2
    <3> QED  BY <1>4, <3>1, <3>3
  <2> QED  BY <1>1, <1>4, <2>1 DEF IInv, Typed
<1>14. Control' /\ Bisecting'
  BY <1>1 DEF IInv, Control, Bisecting
<1>15. Adding'
  BY <1>1, <1>6 DEF IInv, Adding, Vectors
<1>16. Sorting'
  BY <1>1, <1>6, <1>7, <1>11, TheTarget DEF IInv, Sorting, Vectors
<1>17. Refilling'
  BY <1>1, <1>6, <1>7, <1>11, TheTarget DEF IInv, Refilling, Vectors
<1>18. Array'
  <2>1. job \in {"none", "add"} => vec'.sorted.size = 0
    BY <1>4 DEF IInv, Array, Vectors
  <2>2. ASSUME NEW i \in Filled("sorted")', NEW j \in Filled("sorted")', i # j
        PROVE  vec'.sorted.cells[i].key # vec'.sorted.cells[j].key
    <3>1. CASE T = "sorted"
      <4>1. Was(i) # Was(j)
        <5>1. i \in Nat /\ j \in Nat /\ Was(i) \in Int /\ Was(j) \in Int
          BY <1>5, <1>8, <2>2, <3>1
        <5> QED  BY <1>9, <2>2, <3>1, <5>1
      <4> QED  BY <1>8, <2>2, <3>1, <4>1 DEF IInv, Array
    <3>2. CASE T # "sorted"
      BY <1>7, <2>2, <3>2 DEF IInv, Array, Vectors
    <3> QED  BY <3>1, <3>2
  <2> QED  BY <1>1, <2>1, <2>2 DEF Array
<1>19. Ordered'
  <2>1. ASSUME NEW i \in Filled("coll")', NEW j \in Filled("coll")', i < j
        PROVE  ByKey(vec'.coll.cells[i], vec'.coll.cells[j])
    <3>1. CASE T = "coll"
      BY <1>8, <1>9, <2>1, <3>1 DEF IInv, Ordered
    <3>2. CASE T # "coll"
      BY <1>7, <2>1, <3>2 DEF IInv, Ordered, Vectors
    <3> QED  BY <3>1, <3>2
  <2>2. ASSUME NEW i \in Filled("sorted")', NEW j \in Filled("sorted")', i < j
        PROVE  ~ByScore(vec'.sorted.cells[j], vec'.sorted.cells[i])
    <3>1. CASE T = "sorted"
      BY <1>8, <1>9, <2>2, <3>1 DEF IInv, Ordered
    <3>2. CASE T # "sorted"
      BY <1>7, <2>2, <3>2 DEF IInv, Ordered, Vectors
    <3> QED  BY <3>1, <3>2
  <2> QED  BY <2>1, <2>2 DEF Ordered, ByKey, ByScore
<1>20. Placed'
  <2>1. /\ ind \in 0 .. Count(T)
        /\ \A i \in Filled(T) :
             /\ i < ind => Rank(vec[T].cells[i]) <= Rank(hypo)
             /\ i >= ind => Rank(hypo) <= Rank(vec[T].cells[i])
             /\ job # "sort" => vec[T].cells[i].key # hypo.key
    BY <1>1 DEF IInv, Placed
  <2>2. ASSUME NEW j \in Filled(T)'
        PROVE  /\ j < ind => Rank(vec'[T].cells[j]) <= Rank(hypo)
               /\ j >= ind => Rank(hypo) <= Rank(vec'[T].cells[j])
               /\ job # "sort" => vec'[T].cells[j].key # hypo.key
    <3>1. Was(j) \in Filled(T) /\ Was(j) \in Int /\ j \in Nat
      BY <1>5, <1>8
    <3> QED  BY <1>1, <1>2, <1>8, <2>1, <3>1 DEF Rank
  <2>3. vec'[T].size > 0 /\ dest' \in ind .. (vec'[T].size - 1)
    <3>1. vec'[T].size = size
      BY <1>4 DEF size
    <3> QED  BY <1>1, <1>2, <1>3, <3>1
  <2>4. Count(T)' = Count(T)
    BY <1>6
  <2>5. pc' = "shift" /\ ind' = ind /\ job' = job /\ hypo' = hypo /\ Target' = T
    BY <1>1, <1>2
  <2>6. \A h : Rank(h)' = Rank(h)
    BY <1>1 DEF Rank
  <2> QED  BY <1>2, <2>1, <2>2, <2>3, <2>4, <2>5, <2>6 DEF Placed
<1>21. Accounted'
  BY <1>1, <1>12 DEF IInv, Accounted
<1> QED  BY <1>12, <1>13, <1>14, <1>15, <1>16, <1>17, <1>18, <1>19, <1>20, <1>21 DEF IInv, Sane

\* While prune sorts, the hypothesis to be inserted has a key of its own.
LEMMA SortedKeysDiffer ==
  ASSUME IInv, job = "sort", NEW i \in Filled("sorted")
  PROVE  vec.sorted.cells[i].key # hypo.key
<1>1. /\ k \in Nat /\ k < vec.coll.size /\ hypo = vec.coll.cells[k]
      /\ Elements("sorted") = {vec.coll.cells[j] : j \in 0 .. (k - 1)}
  BY DEF IInv, Sorting, Typed
<1>2. vec.coll.size \in Nat /\ Filled("coll") = 0 .. (vec.coll.size - 1)
  BY TheTarget, SizeIsNatural DEF IInv, Vectors
<1>3. PICK j \in 0 .. (k - 1) : vec.sorted.cells[i] = vec.coll.cells[j]
  BY <1>1 DEF Elements
<1>4. /\ j \in Filled("coll") /\ k \in Filled("coll") /\ j < k
  BY <1>1, <1>2, <1>3
<1>5. ByKey(vec.coll.cells[j], vec.coll.cells[k])
  BY <1>4 DEF IInv, Ordered
<1>6. vec.coll.cells[j].key \in Int /\ vec.coll.cells[k].key \in Int
  BY <1>4 DEF IInv, Typed, Vectors, Sane
<1> QED  BY <1>1, <1>3, <1>5, <1>6 DEF ByKey

\* The value fills the hole, where it belongs.
LEMMA StoredIsRight ==
  ASSUME IInv, pc = "shift", ~ShiftGoesOn, NEW T \in Vectors, T = Target, NEW w, w = Stored
  PROVE  LET size == vec[T].size
         IN  /\ size \in Nat /\ size <= Tolerance /\ size > 0 /\ Count(T) = size - 1
             /\ hypo \in Hypotheses
             /\ w = [coll |-> w.coll, sorted |-> w.sorted]
             /\ w[T] = [cells |-> w[T].cells, size |-> w[T].size]
             /\ w[T].cells = [i \in Cells |-> w[T].cells[i]]
             /\ w[T].size = size
             /\ \A v \in Vectors : v # T => w[v] = vec[v]
             /\ \A i \in 0 .. (size - 1) : w[T].cells[i] \in Hypotheses
             /\ {w[T].cells[i] : i \in 0 .. (size - 1)} = Elements(T) \union {hypo}
             /\ \A i, j \in 0 .. (size - 1) :
                  /\ T = "coll" /\ i < j => ByKey(w[T].cells[i], w[T].cells[j])
                  /\ T = "sorted" /\ i < j => ~ByScore(w[T].cells[j], w[T].cells[i])
                  /\ T = "sorted" /\ i # j => w[T].cells[i].key # w[T].cells[j].key
<1> DEFINE size == vec[T].size
           elems == vec[T].cells
           new == w[T].cells
<1>1. /\ size \in Nat /\ size <= Tolerance /\ size > 0
      /\ ind \in Nat /\ dest = ind /\ ind <= size - 1
      /\ ind \in 0 .. (size - 1)
      /\ Count(T) = size - 1
      /\ hypo \in Hypotheses
  <2>1. size \in Nat /\ size <= Tolerance /\ hypo \in Hypotheses
    BY SizeIsNatural, HypoIsOne DEF IInv
  <2>2. Count(T) = size - 1 /\ ind \in 0 .. Count(T) /\ size > 0 /\ dest \in ind .. (size - 1)
    BY DEF IInv, Placed, Count, Hole
  <2> QED  BY <2>1, <2>2 DEF ShiftGoesOn
<1> HIDE DEF size
<1>2. ind \in Cells /\ 0 .. (size - 1) \subseteq Cells
  BY <1>1, TheSizes DEF Cells
<1>3. w = Written(ind, hypo)
  BY DEF Stored, Written
<1>4. ASSUME NEW v \in Vectors
      PROVE  /\ w = [coll |-> w.coll, sorted |-> w.sorted]
             /\ w[v] = [cells |-> w[v].cells, size |-> w[v].size]
             /\ w[v].cells = [j \in Cells |-> w[v].cells[j]]
             /\ w[v].size = vec[v].size
             /\ v # Target => w[v] = vec[v]
             /\ v = Target => \A j \in Cells : w[v].cells[j] = IF j = ind THEN hypo ELSE vec[v].cells[j]
  <2>1. Typed
    BY DEF IInv
  <2> QED  BY <1>2, <1>3, <2>1, CellWritten
<1>5. Filled(T) = (0 .. (size - 1)) \ {ind}
  BY <1>1, TheTarget DEF size
<1>6. \A i \in 0 .. (size - 1) : new[i] = IF i = ind THEN hypo ELSE elems[i]
  BY <1>2, <1>4
<1> HIDE DEF elems, new
<1>7. \A i \in Filled(T) : elems[i] \in Hypotheses
  BY DEF IInv, Typed, elems
<1>8. \A i \in 0 .. (size - 1) : new[i] \in Hypotheses
  BY <1>1, <1>5, <1>6, <1>7
<1>9. {new[i] : i \in 0 .. (size - 1)} = Elements(T) \union {hypo}
  <2>1. Elements(T) = {elems[i] : i \in Filled(T)}
    BY DEF Elements, elems
  <2> QED  BY <1>1, <1>5, <1>6, <2>1
<1>10. \A i \in Filled(T) :
         /\ i < ind => Rank(elems[i]) <= Rank(hypo)
         /\ i >= ind => Rank(hypo) <= Rank(elems[i])
         /\ job # "sort" => elems[i].key # hypo.key
  BY DEF IInv, Placed, elems
<1>11. ASSUME NEW i \in 0 .. (size - 1), NEW j \in 0 .. (size - 1)
       PROVE  /\ T = "coll" /\ i < j => ByKey(new[i], new[j])
              /\ T = "sorted" /\ i < j => ~ByScore(new[j], new[i])
              /\ T = "sorted" /\ i # j => new[i].key # new[j].key
  <2>1. /\ new[i].key \in Int /\ new[i].score \in Int
        /\ new[j].key \in Int /\ new[j].score \in Int
        /\ hypo.key \in Int /\ hypo.score \in Int
    BY <1>1, <1>8 DEF IInv, Sane
  <2>2. ASSUME T = "coll" /\ i < j
        PROVE  ByKey(new[i], new[j])
    <3>1. job # "sort"
      BY <2>2, TheTarget
    <3>2. CASE i = ind
      <4>1. j \in Filled(T) /\ j >= ind
        BY <1>5, <2>2, <3>2
      <4> QED  BY <1>6, <1>10, <2>1, <2>2, <3>1, <3>2, <4>1 DEF Rank, ByKey
    <3>3. CASE j = ind
      <4>1. i \in Filled(T) /\ i < ind
        BY <1>5, <2>2, <3>3
      <4> QED  BY <1>6, <1>10, <2>1, <2>2, <3>1, <3>3, <4>1 DEF Rank, ByKey
    <3>4. CASE i # ind /\ j # ind
      BY <1>5, <1>6, <2>2, <3>4 DEF IInv, Ordered, elems
    <3> QED  BY <3>2, <3>3, <3>4
  <2>3. ASSUME T = "sorted" /\ i < j
        PROVE  ~ByScore(new[j], new[i])
    <3>1. job = "sort"
      BY <2>3, TheTarget
    <3>2. CASE i = ind
      <4>1. j \in Filled(T) /\ j >= ind
        BY <1>5, <2>3, <3>2
      <4> QED  BY <1>6, <1>10, <2>1, <2>3, <3>1, <3>2, <4>1 DEF Rank, ByScore
    <3>3. CASE j = ind
      <4>1. i \in Filled(T) /\ i < ind
        BY <1>5, <2>3, <3>3
      <4> QED  BY <1>6, <1>10, <2>1, <2>3, <3>1, <3>3, <4>1 DEF Rank, ByScore
    <3>4. CASE i # ind /\ j # ind
      BY <1>5, <1>6, <2>3, <3>4 DEF IInv, Ordered, elems
    <3> QED  BY <3>2, <3>3, <3>4
  <2>4. ASSUME T = "sorted" /\ i # j
        PROVE  new[i].key # new[j].key
    <3>1. job = "sort"
      BY <2>4, TheTarget
    <3>2. \A n \in Filled("sorted") : elems[n].key # hypo.key
      BY <2>4, <3>1, SortedKeysDiffer DEF elems
    <3>3. CASE i = ind
      BY <1>5, <1>6, <2>4, <3>2, <3>3
    <3>4. CASE j = ind
      BY <1>5, <1>6, <2>4, <3>2, <3>4
    <3>5. CASE i # ind /\ j # ind
      BY <1>5, <1>6, <2>4, <3>5 DEF IInv, Array, elems
    <3> QED  BY <3>3, <3>4, <3>5
  <2> QED  BY <2>2, <2>3, <2>4
<1> QED  BY <1>1, <1>4, <1>8, <1>9, <1>11 DEF size, new

-----------------------------------------------------------------------------
(* The end of an add *)

\* The instance of the set has the operators of StackOps.
LEMMA SetRecombines == \A c, h : ASet!Recombine(c, h) = Recombine(c, h)
BY DEF ASet!Recombine, ASet!Same, Recombine, Same

\* The new hypothesis is stored.
LEMMA StoreAddedKeeps ==
  ASSUME IInv, StoreAdded
  PROVE  IInv' /\ \E h \in Hypotheses : Held' = Recombine(Held, h)
<1>1. /\ pc = "shift" /\ ~ShiftGoesOn /\ job = "add" /\ vec' = Stored
      /\ pc' = "idle" /\ job' = "none" /\ adding' = {}
      /\ UNCHANGED <<pool, freed, k>>
  BY DEF StoreAdded, Return
<1>2. Target = "coll" /\ "coll" \in Vectors /\ "sorted" \in Vectors
  BY <1>1, TheTarget DEF Vectors
<1> DEFINE size == vec.coll.size
<1>3. /\ size \in Nat /\ size <= Tolerance /\ hypo \in Hypotheses
      /\ vec' = [coll |-> vec'.coll, sorted |-> vec'.sorted]
      /\ vec'.coll = [cells |-> vec'.coll.cells, size |-> vec'.coll.size]
      /\ vec'.coll.cells = [i \in Cells |-> vec'.coll.cells[i]]
      /\ vec'.coll.size = size
      /\ vec'.sorted = vec.sorted
      /\ \A i \in 0 .. (size - 1) : vec'.coll.cells[i] \in Hypotheses
      /\ {vec'.coll.cells[i] : i \in 0 .. (size - 1)} = Elements("coll") \union {hypo}
      /\ \A i, j \in 0 .. (size - 1) : i < j => ByKey(vec'.coll.cells[i], vec'.coll.cells[j])
  BY <1>1, <1>2, StoredIsRight
<1>4. /\ Filled("coll")' = 0 .. (size - 1)
      /\ Elements("coll")' = Elements("coll") \union {hypo}
      /\ Filled("sorted") = {} /\ Filled("sorted")' = {}
      /\ vec.sorted.size = 0
  <2>1. vec.sorted.size = 0
    BY <1>1 DEF IInv, Array
  <2>2. Filled("coll")' = 0 .. (size - 1) /\ Filled("sorted")' = {} /\ Filled("sorted") = {}
    BY <1>1, <1>2, <1>3, <2>1 DEF Filled, Hole
  <2> QED  BY <1>3, <2>1, <2>2 DEF Elements
<1>5. Held = Elements("coll") /\ Held' = Elements("coll") \union {hypo}
  BY <1>1, <1>4 DEF Held
<1>6. adding = {hypo}
  BY <1>1 DEF IInv, Adding
<1>7. Recombine(Held, hypo) = Held \union {hypo}
  <2>1. \A i \in Filled("coll") : vec.coll.cells[i].key # hypo.key
    BY <1>1, <1>2 DEF IInv, Placed
  <2>2. Same(Held, hypo) = {}
    BY <1>5, <2>1 DEF Same, Elements
  <2> QED  BY <2>2 DEF Recombine
<1>8. Typed'
  <2>1. vec.sorted = [cells |-> vec.sorted.cells, size |-> vec.sorted.size]
        /\ vec.sorted.cells = [i \in Cells |-> vec.sorted.cells[i]]
    BY <1>2 DEF IInv, Typed
  <2>2. ASSUME NEW v \in Vectors
        PROVE  /\ vec'[v] = [cells |-> vec'[v].cells, size |-> vec'[v].size]
               /\ vec'[v].cells = [i \in Cells |-> vec'[v].cells[i]]
               /\ vec'[v].size \in 0 .. Tolerance
               /\ \A i \in Filled(v)' : vec'[v].cells[i] \in Hypotheses
    <3>1. CASE v = "coll"
      BY <1>3, <1>4, <3>1, TheSizes
    <3>2. CASE v = "sorted"
      BY <1>3, <1>4, <2>1, <3>2, TheSizes
    <3> QED  BY <3>1, <3>2 DEF Vectors
  <2>3. pool \in SUBSET Hypotheses /\ freed \in SUBSET Hypotheses /\ k \in Nat
    BY DEF IInv, Typed
  <2> QED  BY <1>1, <1>3, <2>2, <2>3 DEF Typed
<1>9. Control' /\ Adding' /\ Sorting' /\ Refilling' /\ Bisecting' /\ Placed'
  BY <1>1 DEF Control, Adding, Sorting, Refilling, Bisecting, Placed
<1>10. Array' /\ Ordered'
  BY <1>3, <1>4 DEF Array, Ordered, ByKey
<1>11. Accounted'
  BY <1>1, <1>5, <1>6 DEF IInv, Accounted
<1> QED  BY <1>3, <1>5, <1>7, <1>8, <1>9, <1>10, <1>11 DEF IInv, Sane

\* The better of two hypotheses of one key is kept.
LEMMA RecombineKeeps ==
  ASSUME IInv, RecombineHypo
  PROVE  IInv' /\ \E h \in Hypotheses : Held' = Recombine(Held, h)
<1> DEFINE size == vec.coll.size
           other == vec.coll.cells[ind]
<1>1. /\ pc = "recombine" /\ job = "add"
      /\ pc' = "idle" /\ job' = "none" /\ adding' = {}
      /\ UNCHANGED <<pool, k>>
  BY DEF RecombineHypo, Return, IInv, Control
<1>2. Target = "coll" /\ "coll" \in Vectors /\ "sorted" \in Vectors
  BY <1>1, TheTarget DEF Vectors
<1>3. /\ size \in Nat /\ size <= Tolerance /\ hypo \in Hypotheses
      /\ Filled("coll") = 0 .. (size - 1)
      /\ ind \in 0 .. (size - 1) /\ other.key = hypo.key
      /\ vec.sorted.size = 0
  <2>1. size \in Nat /\ size <= Tolerance /\ hypo \in Hypotheses
    BY <1>1, <1>2, SizeIsNatural, HypoIsOne DEF IInv
  <2>2. Filled("coll") = 0 .. (size - 1)
    BY <1>1, <1>2, TheTarget
  <2>3. ind \in 0 .. (size - 1) /\ other.key = hypo.key /\ vec.sorted.size = 0
    BY <1>1 DEF IInv, Placed, Array
  <2> QED  BY <2>1, <2>2, <2>3
<1>4. /\ \A i \in 0 .. (size - 1) : vec.coll.cells[i] \in Hypotheses
      /\ other \in Hypotheses
      /\ other \in Elements("coll")
      /\ \A i, j \in 0 .. (size - 1) : i < j => ByKey(vec.coll.cells[i], vec.coll.cells[j])
  BY <1>2, <1>3 DEF IInv, Typed, Ordered, Elements
<1>5. \A i \in 0 .. (size - 1) : i # ind => vec.coll.cells[i].key # hypo.key
  <2> SUFFICES ASSUME NEW i \in 0 .. (size - 1), i # ind
               PROVE  vec.coll.cells[i].key # hypo.key
    OBVIOUS
  <2>1. vec.coll.cells[i].key \in Int /\ other.key \in Int
    BY <1>4 DEF IInv, Sane
  <2>2. i < ind \/ ind < i
    BY <1>3
  <2> QED  BY <1>3, <1>4, <2>1, <2>2 DEF ByKey
<1>6. Same(Elements("coll"), hypo) = {other}
  BY <1>3, <1>4, <1>5 DEF Same, Elements
<1>7. Held = Elements("coll") /\ adding = {hypo}
  BY <1>1 DEF Held, IInv, Adding
<1>8. \/ /\ hypo.score > other.score
         /\ vec' = Written(ind, hypo)
         /\ freed' = freed \union {other}
      \/ /\ ~(hypo.score > other.score)
         /\ vec' = vec
         /\ freed' = freed \union {hypo}
  BY <1>2 DEF RecombineHypo, Written
<1>9. hypo.score \in Int /\ other.score \in Int
  BY <1>3, <1>4 DEF IInv, Sane
<1>10. /\ vec' = [coll |-> vec'.coll, sorted |-> vec'.sorted]
       /\ vec'.coll = [cells |-> vec'.coll.cells, size |-> size]
       /\ vec'.coll.cells = [i \in Cells |-> vec'.coll.cells[i]]
       /\ vec'.coll.size = size
       /\ vec'.sorted = vec.sorted
       /\ \A i \in 0 .. (size - 1) : vec'.coll.cells[i] =
            IF i = ind /\ hypo.score > other.score THEN hypo ELSE vec.coll.cells[i]
  <2>1. CASE hypo.score > other.score
    <3>1. ind \in Cells /\ 0 .. (size - 1) \subseteq Cells
      BY <1>3, TheSizes DEF Cells
    <3>2. Typed /\ vec' = Written(ind, hypo)
      BY <1>8, <2>1 DEF IInv
    <3>3. ASSUME NEW v \in Vectors
          PROVE  /\ vec' = [coll |-> vec'.coll, sorted |-> vec'.sorted]
                 /\ vec'[v] = [cells |-> vec'[v].cells, size |-> vec'[v].size]
                 /\ vec'[v].cells = [j \in Cells |-> vec'[v].cells[j]]
                 /\ vec'[v].size = vec[v].size
                 /\ v # Target => vec'[v] = vec[v]
                 /\ v = Target => \A j \in Cells :
                                    vec'[v].cells[j] = IF j = ind THEN hypo ELSE vec[v].cells[j]
      BY <3>1, <3>2, CellWritten
    <3>4. /\ vec' = [coll |-> vec'.coll, sorted |-> vec'.sorted]
          /\ vec'.coll = [cells |-> vec'.coll.cells, size |-> size]
          /\ vec'.coll.cells = [j \in Cells |-> vec'.coll.cells[j]]
          /\ vec'.coll.size = size
      BY <1>2, <3>3
    <3>5. vec'.sorted = vec.sorted
      BY <1>2, <3>3
    <3>6. \A j \in Cells : vec'.coll.cells[j] = IF j = ind THEN hypo ELSE vec.coll.cells[j]
      BY <1>2, <3>3
    <3> QED  BY <2>1, <3>1, <3>4, <3>5, <3>6
  <2>2. CASE ~(hypo.score > other.score)
    BY <1>2, <1>8, <2>2 DEF IInv, Typed
  <2> QED  BY <2>1, <2>2
<1>11. /\ Filled("coll")' = 0 .. (size - 1)
       /\ Filled("sorted") = {} /\ Filled("sorted")' = {}
  BY <1>1, <1>3, <1>10 DEF Filled, Hole
<1>12. Elements("coll")' = Recombine(Elements("coll"), hypo)
  <2>1. Elements("coll")' = {vec'.coll.cells[i] : i \in 0 .. (size - 1)}
    BY <1>11 DEF Elements
  <2>2. Elements("coll") = {vec.coll.cells[i] : i \in 0 .. (size - 1)}
    BY <1>3 DEF Elements
  <2>3. CASE hypo.score > other.score
    <3>1. \A i \in 0 .. (size - 1) : i # ind => vec.coll.cells[i] # other
      BY <1>3, <1>5
    <3>2. Elements("coll")' = (Elements("coll") \ {other}) \union {hypo}
      BY <1>3, <1>10, <2>1, <2>2, <2>3, <3>1
    <3>3. ~ \E g \in {other} : hypo.score <= g.score
      BY <1>9, <2>3
    <3> QED  BY <1>6, <3>2, <3>3 DEF Recombine
  <2>4. CASE ~(hypo.score > other.score)
    <3>1. \A i \in 0 .. (size - 1) : vec'.coll.cells[i] = vec.coll.cells[i]
      BY <1>10, <2>4
    <3>2. Elements("coll")' = Elements("coll")
      BY <2>1, <2>2, <3>1
    <3>3. \E g \in {other} : hypo.score <= g.score
      BY <1>9, <2>4
    <3> QED  BY <1>6, <3>2, <3>3 DEF Recombine
  <2> QED  BY <2>3, <2>4
<1>13. Held' = Recombine(Held, hypo)
  BY <1>1, <1>7, <1>12 DEF Held
<1>14. Typed'
  <2>1. ASSUME NEW v \in Vectors
        PROVE  /\ vec'[v] = [cells |-> vec'[v].cells, size |-> vec'[v].size]
               /\ vec'[v].cells = [i \in Cells |-> vec'[v].cells[i]]
               /\ vec'[v].size \in 0 .. Tolerance
               /\ \A i \in Filled(v)' : vec'[v].cells[i] \in Hypotheses
    <3>1. CASE v = "coll"
      BY <1>3, <1>4, <1>10, <1>11, <3>1, TheSizes
    <3>2. CASE v = "sorted"
      BY <1>2, <1>10, <1>11, <3>2, TheSizes DEF IInv, Typed
    <3> QED  BY <3>1, <3>2 DEF Vectors
  <2>2. /\ pool \in SUBSET Hypotheses /\ freed' \in SUBSET Hypotheses /\ k \in Nat
    BY <1>3, <1>4, <1>8 DEF IInv, Typed
  <2> QED  BY <1>1, <1>10, <2>1, <2>2 DEF Typed
<1>15. Control' /\ Adding' /\ Sorting' /\ Refilling' /\ Bisecting' /\ Placed'
  BY <1>1 DEF Control, Adding, Sorting, Refilling, Bisecting, Placed
<1>16. Array' /\ Ordered'
  <2>1. Array'
    BY <1>3, <1>10, <1>11 DEF Array
  <2>2. \A i \in 0 .. (size - 1) : vec'.coll.cells[i].key = vec.coll.cells[i].key
    BY <1>3, <1>10
  <2>3. \A i, j \in 0 .. (size - 1) : i < j => ByKey(vec'.coll.cells[i], vec'.coll.cells[j])
    BY <1>4, <2>2 DEF ByKey
  <2> QED  BY <1>11, <2>1, <2>3 DEF Ordered, ByKey
<1>17. Accounted'
  <2>1. Held' \union freed' = Held \union freed \union adding
    BY <1>4, <1>6, <1>7, <1>8, <1>9, <1>13 DEF Recombine
  <2>2. Held' \intersect freed' = {}
    <3>1. other \notin freed /\ hypo \notin Held /\ hypo \notin freed
      BY <1>4, <1>7 DEF IInv, Accounted
    <3> QED  BY <1>4, <1>6, <1>7, <1>8, <1>9, <1>13, <3>1 DEF IInv, Accounted, Recombine
  <2>3. pool' = pool /\ adding' = {}
    BY <1>1
  <2> QED  BY <2>1, <2>2, <2>3 DEF IInv, Accounted
<1> QED  BY <1>3, <1>13, <1>14, <1>15, <1>16, <1>17 DEF IInv, Sane

-----------------------------------------------------------------------------
(* Prune *)

\* What a vector looks like, and what the vectors are after a step.
IsVector(x) ==
  /\ x = [cells |-> x.cells, size |-> x.size]
  /\ x.cells = [i \in Cells |-> x.cells[i]]
  /\ x.size \in 0 .. Tolerance

LEMMA VectorsTyped ==
  ASSUME /\ vec' = [coll |-> vec'.coll, sorted |-> vec'.sorted]
         /\ IsVector(vec'.coll) /\ IsVector(vec'.sorted)
         /\ \A i \in Filled("coll")' : vec'.coll.cells[i] \in Hypotheses
         /\ \A i \in Filled("sorted")' : vec'.sorted.cells[i] \in Hypotheses,
         pool' \in SUBSET Hypotheses, freed' \in SUBSET Hypotheses,
         adding' \in SUBSET Hypotheses, k' \in Nat,
         pc' \in {"idle", "search", "recombine", "insert", "shift", "delete"},
         job' \in {"none", "add", "sort", "refill"}
  PROVE  Typed'
<1>1. ASSUME NEW v \in Vectors
      PROVE  /\ vec'[v] = [cells |-> vec'[v].cells, size |-> vec'[v].size]
             /\ vec'[v].cells = [i \in Cells |-> vec'[v].cells[i]]
             /\ vec'[v].size \in 0 .. Tolerance
             /\ \A i \in Filled(v)' : vec'[v].cells[i] \in Hypotheses
  <2>1. CASE v = "coll"
    BY <2>1 DEF IsVector
  <2>2. CASE v = "sorted"
    BY <2>2 DEF IsVector
  <2> QED  BY <2>1, <2>2 DEF Vectors
<1> QED  BY <1>1 DEF Typed

LEMMA EmptyIsVector == IsVector(Empty) /\ Empty.size = 0
BY TheSizes DEF IsVector, Empty

\* One more element.
LEMMA OneMore ==
  ASSUME NEW f, NEW n \in Nat
  PROVE  {f[i] : i \in 0 .. n} = {f[i] : i \in 0 .. (n - 1)} \union {f[n]}
<1>1. 0 .. n = (0 .. (n - 1)) \union {n}
  OBVIOUS
<1> QED  BY <1>1

\* A search that starts knows nothing yet.
LEMMA EnterKeeps ==
  ASSUME NEW purpose, NEW h, NEW size \in Nat, Enter(purpose, h, size),
         vec'[Target'].size = size
  PROVE  Bisecting' /\ Placed'
BY DEF Enter, Bisecting, Placed

\* Sorting goes through all of the vector, and ends with all of it in the array.
LEMMA StoreSortedKeeps ==
  ASSUME IInv, StoreSorted
  PROVE  IInv' /\ UNCHANGED Held
<1> DEFINE size == vec.sorted.size
           all == vec.coll.size
           w == Stored
<1>1. /\ pc = "shift" /\ ~ShiftGoesOn /\ job = "sort"
      /\ UNCHANGED <<pool, freed, adding>>
  BY DEF StoreSorted
<1>2. Target = "sorted" /\ "coll" \in Vectors /\ "sorted" \in Vectors
  BY <1>1, TheTarget DEF Vectors
<1>3. /\ size \in Nat /\ size <= Tolerance /\ size > 0 /\ Count("sorted") = size - 1
      /\ hypo \in Hypotheses
      /\ w = [coll |-> w.coll, sorted |-> w.sorted]
      /\ IsVector(w.sorted)
      /\ w.sorted.size = size
      /\ w.coll = vec.coll
      /\ \A i \in 0 .. (size - 1) : w.sorted.cells[i] \in Hypotheses
      /\ {w.sorted.cells[i] : i \in 0 .. (size - 1)} = Elements("sorted") \union {hypo}
      /\ \A i, j \in 0 .. (size - 1) :
           /\ i < j => ~ByScore(w.sorted.cells[j], w.sorted.cells[i])
           /\ i # j => w.sorted.cells[i].key # w.sorted.cells[j].key
  BY <1>1, <1>2, StoredIsRight DEF IsVector
<1> HIDE DEF w
<1>4. /\ k \in Nat /\ all \in Nat /\ all <= Tolerance
      /\ StackSize <= all /\ k < all /\ hypo = vec.coll.cells[k] /\ k = size - 1
      /\ Elements("sorted") = {vec.coll.cells[i] : i \in 0 .. (k - 1)}
  BY <1>1, <1>2, <1>3, SizeIsNatural DEF IInv, Sorting, Typed
<1>5. /\ IsVector(vec.coll)
      /\ Filled("coll") = 0 .. (all - 1)
      /\ \A i \in 0 .. (all - 1) : vec.coll.cells[i] \in Hypotheses
      /\ \A i, j \in 0 .. (all - 1) : i < j => ByKey(vec.coll.cells[i], vec.coll.cells[j])
      /\ Elements("coll") = {vec.coll.cells[i] : i \in 0 .. (all - 1)}
  BY <1>1, <1>2, TheTarget DEF IInv, Typed, Ordered, Elements, IsVector
<1>6. {w.sorted.cells[i] : i \in 0 .. (size - 1)} = {vec.coll.cells[i] : i \in 0 .. k}
  <2> DEFINE f == vec.coll.cells
  <2>1. {w.sorted.cells[i] : i \in 0 .. (size - 1)} = {f[i] : i \in 0 .. (k - 1)} \union {f[k]}
    BY <1>3, <1>4
  <2> HIDE DEF f
  <2>2. {f[i] : i \in 0 .. k} = {f[i] : i \in 0 .. (k - 1)} \union {f[k]}
    BY <1>4, OneMore
  <2> QED  BY <2>1, <2>2 DEF f
<1>7. Held = Elements("coll")
  BY <1>1 DEF Held
<1>8. CASE /\ k + 1 < all
           /\ vec' = w /\ k' = k + 1
           /\ Enter("sort", vec.coll.cells[k + 1], size)
  <2>1. pc' = "search" /\ job' = "sort" /\ hypo' = vec.coll.cells[k + 1] /\ Target' = "sorted"
    BY <1>8 DEF Enter, Target
  <2>2. /\ Filled("coll")' = 0 .. (all - 1)
        /\ Filled("sorted")' = 0 .. (size - 1)
        /\ Count("sorted")' = k + 1
        /\ Elements("coll")' = Elements("coll")
        /\ Elements("sorted")' = {vec.coll.cells[i] : i \in 0 .. k}
    <3>1. vec'.coll = vec.coll /\ vec'.sorted = w.sorted
      BY <1>3, <1>8
    <3>2. Hole("coll")' = {} /\ Hole("sorted")' = {}
      BY <2>1 DEF Hole
    <3>3. Filled("coll")' = 0 .. (all - 1) /\ Filled("sorted")' = 0 .. (size - 1)
      BY <1>3, <3>1, <3>2 DEF Filled
    <3>4. Count("sorted")' = k + 1
      BY <1>3, <1>4, <3>1, <3>2 DEF Count
    <3>5. Elements("coll")' = Elements("coll")
      BY <1>5, <3>1, <3>3 DEF Elements
    <3>6. Elements("sorted")' = {vec.coll.cells[i] : i \in 0 .. k}
      BY <1>6, <3>1, <3>3 DEF Elements
    <3> QED  BY <3>3, <3>4, <3>5, <3>6
  <2>3. Typed'
    <3>1. /\ vec' = [coll |-> vec'.coll, sorted |-> vec'.sorted]
          /\ IsVector(vec'.coll) /\ IsVector(vec'.sorted)
          /\ \A i \in Filled("coll")' : vec'.coll.cells[i] \in Hypotheses
          /\ \A i \in Filled("sorted")' : vec'.sorted.cells[i] \in Hypotheses
      BY <1>3, <1>5, <1>8, <2>2
    <3>2. k' \in Nat
      BY <1>4, <1>8
    <3>3. /\ pool \in SUBSET Hypotheses /\ freed \in SUBSET Hypotheses
          /\ adding \in SUBSET Hypotheses
      BY DEF IInv, Typed
    <3> QED  BY <1>1, <2>1, <3>1, <3>2, <3>3, VectorsTyped
  <2>4. Control' /\ Adding' /\ Refilling'
    BY <2>1 DEF Control, Adding, Refilling
  <2>5. Sorting'
    BY <1>3, <1>4, <1>8, <2>1, <2>2 DEF Sorting
  <2>6. Array' /\ Ordered'
    BY <1>3, <1>5, <1>8, <2>1, <2>2 DEF Array, Ordered, ByKey, ByScore
  <2>7. Bisecting' /\ Placed'
    BY <1>3, <1>8, <2>1, EnterKeeps
  <2>8. Held' = Held
    BY <1>7, <2>1, <2>2 DEF Held
  <2>9. Accounted'
    BY <1>1, <2>8 DEF IInv, Accounted
  <2> QED  BY <2>3, <2>4, <2>5, <2>6, <2>7, <2>8, <2>9 DEF IInv, Sane
<1>9. CASE /\ k + 1 >= all
           /\ vec' = [w EXCEPT !.coll = Empty] /\ k' = 0
           /\ Enter("refill", w.sorted.cells[0], 0)
  <2>1. pc' = "search" /\ job' = "refill" /\ hypo' = w.sorted.cells[0] /\ Target' = "coll"
    BY <1>9 DEF Enter, Target
  <2>2. /\ vec' = [coll |-> vec'.coll, sorted |-> vec'.sorted]
        /\ vec'.coll = Empty /\ vec'.sorted = w.sorted
    BY <1>3, <1>9
  <2>3. Empty.size = 0
    BY DEF Empty
  <2>4. /\ Filled("coll")' = {} /\ Elements("coll")' = {} /\ Count("coll")' = 0
        /\ Filled("sorted")' = 0 .. (size - 1)
    BY <1>3, <2>1, <2>2, <2>3 DEF Filled, Hole, Count, Elements
  <2>5. Elements("sorted")' = Elements("coll")
    <3>1. k = all - 1
      BY <1>4, <1>9
    <3>2. Elements("sorted")' = {w.sorted.cells[i] : i \in 0 .. (size - 1)}
      BY <2>2, <2>4 DEF Elements
    <3> QED  BY <1>5, <1>6, <3>1, <3>2
  <2>6. Typed'
    <3>1. /\ IsVector(vec'.coll) /\ IsVector(vec'.sorted)
          /\ \A i \in Filled("coll")' : vec'.coll.cells[i] \in Hypotheses
          /\ \A i \in Filled("sorted")' : vec'.sorted.cells[i] \in Hypotheses
      BY <1>3, <2>2, <2>4, EmptyIsVector
    <3>2. /\ pool \in SUBSET Hypotheses /\ freed \in SUBSET Hypotheses
          /\ adding \in SUBSET Hypotheses
      BY DEF IInv, Typed
    <3> QED  BY <1>1, <1>9, <2>1, <2>2, <3>1, <3>2, VectorsTyped
  <2>7. Control' /\ Adding' /\ Sorting'
    BY <2>1 DEF Control, Adding, Sorting
  <2>8. Refilling'
    <3>1. StackSize <= size /\ 0 < StackSize
      <4>1. StackSize \in Nat /\ StackSize > 0
        BY TheSizes DEF IInv, Sane
      <4>2. size = all
        BY <1>3, <1>4, <1>9
      <4> QED  BY <1>4, <4>1, <4>2
    <3> QED  BY <1>3, <1>9, <2>1, <2>2, <2>4, <3>1 DEF Refilling
  <2>9. Array' /\ Ordered'
    BY <1>3, <2>1, <2>2, <2>4 DEF Array, Ordered, ByScore
  <2>10. Bisecting' /\ Placed'
    BY <1>9, <2>1, <2>2, <2>3, EnterKeeps
  <2>11. Held' = Held
    BY <1>7, <2>1, <2>5 DEF Held
  <2>12. Accounted'
    BY <1>1, <2>11 DEF IInv, Accounted
  <2> QED  BY <2>6, <2>7, <2>8, <2>9, <2>10, <2>11, <2>12 DEF IInv, Sane
<1> QED  BY <1>8, <1>9 DEF StoreSorted, w

\* Refilling ends with the first hypotheses of the array in the vector.
LEMMA StoreRefilledKeeps ==
  ASSUME IInv, StoreRefilled
  PROVE  IInv' /\ UNCHANGED Held
<1> DEFINE size == vec.coll.size
           all == vec.sorted.size
           f == vec.sorted.cells
<1>1. /\ pc = "shift" /\ ~ShiftGoesOn /\ job = "refill" /\ vec' = Stored /\ k' = k + 1
      /\ UNCHANGED <<pool, freed, adding>>
  BY DEF StoreRefilled
<1>2. Target = "coll" /\ "coll" \in Vectors /\ "sorted" \in Vectors
  BY <1>1, TheTarget DEF Vectors
<1>3. /\ size \in Nat /\ size <= Tolerance /\ size > 0 /\ Count("coll") = size - 1
      /\ hypo \in Hypotheses
      /\ vec' = [coll |-> vec'.coll, sorted |-> vec'.sorted]
      /\ IsVector(vec'.coll)
      /\ vec'.coll.size = size
      /\ vec'.sorted = vec.sorted
      /\ \A i \in 0 .. (size - 1) : vec'.coll.cells[i] \in Hypotheses
      /\ {vec'.coll.cells[i] : i \in 0 .. (size - 1)} = Elements("coll") \union {hypo}
      /\ \A i, j \in 0 .. (size - 1) : i < j => ByKey(vec'.coll.cells[i], vec'.coll.cells[j])
  BY <1>1, <1>2, StoredIsRight DEF IsVector
<1>4. /\ k \in Nat /\ all \in Nat /\ all <= Tolerance
      /\ StackSize <= all /\ k < StackSize /\ StackSize \in Nat
      /\ hypo = f[k] /\ k = size - 1
      /\ Elements("coll") = {f[i] : i \in 0 .. (k - 1)}
  BY <1>1, <1>2, <1>3, SizeIsNatural, TheSizes DEF IInv, Refilling, Typed
<1>5. /\ IsVector(vec.sorted)
      /\ Filled("sorted") = 0 .. (all - 1)
      /\ \A i \in 0 .. (all - 1) : f[i] \in Hypotheses
      /\ \A i, j \in 0 .. (all - 1) :
           /\ i < j => ~ByScore(f[j], f[i])
           /\ i # j => f[i].key # f[j].key
      /\ Elements("sorted") = {f[i] : i \in 0 .. (all - 1)}
  BY <1>1, <1>2, TheTarget DEF IInv, Typed, Ordered, Array, Elements, IsVector
<1> HIDE DEF f
<1>6. {vec'.coll.cells[i] : i \in 0 .. (size - 1)} = {f[i] : i \in 0 .. k}
  <2>1. {vec'.coll.cells[i] : i \in 0 .. (size - 1)} = {f[i] : i \in 0 .. (k - 1)} \union {f[k]}
    BY <1>3, <1>4
  <2>2. {f[i] : i \in 0 .. k} = {f[i] : i \in 0 .. (k - 1)} \union {f[k]}
    BY <1>4, OneMore
  <2> QED  BY <2>1, <2>2
<1>7. /\ pc' \in {"search", "delete"} /\ job' = "refill"
      /\ \/ pc' = "search" /\ k + 1 < StackSize /\ Enter("refill", f[k + 1], size)
         \/ pc' = "delete" /\ k + 1 >= StackSize
  BY <1>1 DEF StoreRefilled, Enter, f
<1>8. /\ Filled("coll")' = 0 .. (size - 1) /\ Filled("sorted")' = 0 .. (all - 1)
      /\ Count("coll")' = k + 1
      /\ Elements("coll")' = {f[i] : i \in 0 .. k}
      /\ Elements("sorted")' = Elements("sorted")
  <2>1. Hole("coll")' = {} /\ Hole("sorted")' = {}
    BY <1>7 DEF Hole
  <2>2. Filled("coll")' = 0 .. (size - 1) /\ Filled("sorted")' = 0 .. (all - 1)
    BY <1>3, <2>1 DEF Filled
  <2>3. Count("coll")' = k + 1
    BY <1>3, <1>4, <2>1 DEF Count
  <2>4. Elements("coll")' = {f[i] : i \in 0 .. k}
    BY <1>6, <2>2 DEF Elements
  <2>5. Elements("sorted")' = Elements("sorted")
    BY <1>3, <1>5, <2>2 DEF Elements, f
  <2> QED  BY <2>2, <2>3, <2>4, <2>5
<1>9. Typed'
  <2>1. /\ IsVector(vec'.coll) /\ IsVector(vec'.sorted)
        /\ \A i \in Filled("coll")' : vec'.coll.cells[i] \in Hypotheses
        /\ \A i \in Filled("sorted")' : vec'.sorted.cells[i] \in Hypotheses
    BY <1>3, <1>5, <1>8 DEF f
  <2>2. /\ pool \in SUBSET Hypotheses /\ freed \in SUBSET Hypotheses
        /\ adding \in SUBSET Hypotheses
    BY DEF IInv, Typed
  <2>3. k' \in Nat
    BY <1>1, <1>4
  <2> QED  BY <1>1, <1>3, <1>7, <2>1, <2>2, <2>3, VectorsTyped
<1>10. Control' /\ Adding' /\ Sorting'
  BY <1>7 DEF Control, Adding, Sorting
<1>11. Refilling'
  <2>1. vec'.sorted.size = all /\ vec'.sorted.cells = f
    BY <1>3 DEF f
  <2>2. Count("coll")' = k' /\ Elements("coll")' = {f[i] : i \in 0 .. (k' - 1)}
    BY <1>1, <1>4, <1>8
  <2>3. CASE pc' = "search" /\ k + 1 < StackSize /\ Enter("refill", f[k + 1], size)
    <3>1. hypo' = f[k']
      BY <1>1, <2>3 DEF Enter
    <3> QED  BY <1>1, <1>4, <2>1, <2>2, <2>3, <3>1 DEF Refilling
  <2>4. CASE pc' = "delete" /\ k + 1 >= StackSize
    <3>1. k' = StackSize
      BY <1>1, <1>4, <2>4
    <3> QED  BY <1>4, <2>1, <2>2, <2>4, <3>1 DEF Refilling
  <2> QED  BY <1>7, <2>3, <2>4
<1>12. Array' /\ Ordered'
  <2>1. vec'.sorted.cells = f
    BY <1>3 DEF f
  <2> QED  BY <1>3, <1>5, <1>7, <1>8, <2>1 DEF Array, Ordered, ByKey, ByScore
<1>13. Bisecting' /\ Placed'
  <2>1. CASE pc' = "search" /\ k + 1 < StackSize /\ Enter("refill", f[k + 1], size)
    <3>1. vec'[Target'].size = size
      BY <1>3, <1>7 DEF Target
    <3> QED  BY <1>3, <2>1, <3>1, EnterKeeps
  <2>2. CASE pc' = "delete" /\ k + 1 >= StackSize
    BY <2>2 DEF Bisecting, Placed
  <2> QED  BY <1>7, <2>1, <2>2
<1>14. Held' = Held
  BY <1>1, <1>7, <1>8 DEF Held
<1>15. Accounted'
  BY <1>1, <1>14 DEF IInv, Accounted
<1> QED  BY <1>9, <1>10, <1>11, <1>12, <1>13, <1>14, <1>15 DEF IInv, Sane

\* A list without repetitions has as many elements as places.
LEMMA ListSize ==
  ASSUME NEW f, NEW n \in Nat, \A i, j \in 0 .. (n - 1) : i # j => f[i] # f[j]
  PROVE  /\ IsFiniteSet({f[i] : i \in 0 .. (n - 1)})
         /\ Cardinality({f[i] : i \in 0 .. (n - 1)}) = n
<1> DEFINE S == 0 .. (n - 1)
           T == {f[i] : i \in S}
           g == [i \in S |-> f[i]]
<1>1. IsFiniteSet(S) /\ Cardinality(S) = n
  BY FS_Interval
<1>2. g \in Bijection(S, T)
  <2>1. g \in [S -> T] /\ \A t \in T : \E i \in S : g[i] = t
    OBVIOUS
  <2>2. DOMAIN g = S /\ \A i, j \in S : g[i] = g[j] => i = j
    OBVIOUS
  <2> QED  BY <2>1, <2>2 DEF Bijection, Injection, Surjection, IsInjective
<1>3. ExistsBijection(S, T)
  BY <1>2 DEF ExistsBijection
<1> QED  BY <1>1, <1>3, FS_Bijection

\* The instance of the set prunes as StackOps does.
LEMMA SetCardinality == \A S : ASet!Cardinality(S) = Cardinality(S)
BY DEF ASet!Cardinality, Cardinality

LEMMA SetPrunes == \A c : ASet!Prune(c) = Prune(c)
BY SetCardinality DEF ASet!Prune, ASet!kSubset, Prune, kSubset

\* What prune has put back is what the set keeps; the rest is freed.
LEMMA DeleteKeeps ==
  ASSUME IInv, Delete
  PROVE  IInv' /\ Held' \in Prune(Held)
<1> DEFINE all == vec.sorted.size
           f == vec.sorted.cells
           Kept == {f[i] : i \in 0 .. (StackSize - 1)}
<1>1. /\ pc = "delete" /\ job = "refill" /\ freed' = freed \union Dropped
      /\ vec' = [vec EXCEPT !.sorted = Empty]
      /\ UNCHANGED <<pool, k, adding>>
  BY DEF Delete, Return, IInv, Control
<1>2. "coll" \in Vectors /\ "sorted" \in Vectors /\ Target = "coll"
  BY <1>1, TheTarget DEF Vectors
<1>3. /\ all \in Nat /\ StackSize \in Nat /\ StackSize > 0 /\ StackSize <= all
      /\ vec.coll.size = StackSize /\ k = StackSize
      /\ Elements("coll") = Kept
      /\ Filled("coll") = 0 .. (StackSize - 1) /\ Filled("sorted") = 0 .. (all - 1)
      /\ Elements("sorted") = {f[i] : i \in 0 .. (all - 1)}
  <2>1. all \in Nat /\ vec.coll.size \in Nat /\ StackSize \in Nat /\ StackSize > 0
    BY <1>2, SizeIsNatural, TheSizes DEF IInv, Sane
  <2>2. /\ StackSize <= all /\ k = StackSize /\ Count("coll") = k
        /\ Elements("coll") = {f[i] : i \in 0 .. (k - 1)}
    BY <1>1 DEF IInv, Refilling
  <2>3. Count("coll") = vec.coll.size
    BY <1>1 DEF Count, Hole
  <2>4. Filled("coll") = 0 .. (vec.coll.size - 1) /\ Filled("sorted") = 0 .. (all - 1)
    BY <1>1, <1>2, TheTarget
  <2> QED  BY <2>1, <2>2, <2>3, <2>4 DEF Elements
<1>4. /\ vec = [coll |-> vec.coll, sorted |-> vec.sorted]
      /\ IsVector(vec.coll)
      /\ \A i \in 0 .. (StackSize - 1) : vec.coll.cells[i] \in Hypotheses
      /\ \A i, j \in 0 .. (StackSize - 1) :
           i < j => ByKey(vec.coll.cells[i], vec.coll.cells[j])
      /\ \A i \in 0 .. (all - 1) : f[i] \in Hypotheses
      /\ \A i, j \in 0 .. (all - 1) :
           /\ i < j => ~ByScore(f[j], f[i])
           /\ i # j => f[i].key # f[j].key
  BY <1>2, <1>3 DEF IInv, Typed, Ordered, Array, IsVector
<1> HIDE DEF f
<1>5. Dropped = {f[i] : i \in StackSize .. (all - 1)}
  BY DEF Dropped, f
<1>6. /\ Elements("sorted") = Kept \union Dropped
      /\ Kept \intersect Dropped = {}
  <2>1. 0 .. (all - 1) = (0 .. (StackSize - 1)) \union (StackSize .. (all - 1))
    BY <1>3
  <2>2. ASSUME NEW i \in 0 .. (StackSize - 1), NEW j \in StackSize .. (all - 1)
        PROVE  f[i] # f[j]
    <3>1. i \in 0 .. (all - 1) /\ j \in 0 .. (all - 1) /\ i # j
      BY <1>3
    <3> QED  BY <1>4, <3>1
  <2> QED  BY <1>3, <1>5, <2>1, <2>2
<1>7. /\ pc' \in {"idle", "search"}
      /\ \/ pc' = "idle" /\ job' = "none" /\ adding' = {}
         \/ /\ pc' = "search" /\ job' = "add"
            /\ \E h \in adding : Enter("add", h, StackSize)
  BY <1>1, <1>3 DEF Delete, Return, Enter
<1>8. /\ vec' = [coll |-> vec'.coll, sorted |-> vec'.sorted]
      /\ vec'.coll = vec.coll /\ vec'.sorted = Empty
  BY <1>1, <1>4
<1>9. /\ Hole("coll")' = {} /\ Hole("sorted")' = {}
      /\ Filled("coll")' = 0 .. (StackSize - 1) /\ Filled("sorted")' = {}
      /\ Elements("coll")' = Kept
  <2>1. Hole("coll")' = {} /\ Hole("sorted")' = {}
    BY <1>7 DEF Hole
  <2>2. Filled("coll")' = 0 .. (StackSize - 1) /\ Filled("sorted")' = {}
    BY <1>3, <1>8, <2>1, EmptyIsVector DEF Filled
  <2>3. Elements("coll")' = Elements("coll")
    BY <1>3, <1>8, <2>2 DEF Elements
  <2> QED  BY <1>3, <2>1, <2>2, <2>3
<1>10. Held = Kept \union Dropped /\ Held' = Kept
  BY <1>1, <1>6, <1>7, <1>9 DEF Held
<1>11. Held' \in Prune(Held)
  <2>1. \A i, j \in 0 .. (all - 1) : i # j => f[i] # f[j]
    BY <1>4
  <2>2. IsFiniteSet(Held) /\ Cardinality(Held) = all
    <3>1. Held = {f[i] : i \in 0 .. (all - 1)}
      BY <1>3, <1>6, <1>10 DEF f
    <3>2. all \in Nat
      BY <1>3
    <3> HIDE DEF all
    <3>3. /\ IsFiniteSet({f[i] : i \in 0 .. (all - 1)})
          /\ Cardinality({f[i] : i \in 0 .. (all - 1)}) = all
      BY <2>1, <3>2, ListSize
    <3> QED  BY <3>1, <3>3
  <2>3. Cardinality(Kept) = StackSize
    <3>1. \A i \in 0 .. (StackSize - 1) : i \in 0 .. (all - 1)
      BY <1>3
    <3>2. \A i, j \in 0 .. (StackSize - 1) : i # j => f[i] # f[j]
      BY <2>1, <3>1
    <3>3. StackSize \in Nat
      BY <1>3
    <3> QED  BY <3>2, <3>3, ListSize
  <2>4. ASSUME NEW g \in Kept, NEW h \in Dropped
        PROVE  g.score >= h.score
    <3>1. PICK i \in 0 .. (StackSize - 1) : g = f[i]
      OBVIOUS
    <3>2. PICK j \in StackSize .. (all - 1) : h = f[j]
      BY <1>5
    <3>3. i \in 0 .. (all - 1) /\ j \in 0 .. (all - 1) /\ i < j
      BY <1>3
    <3>4. ~ByScore(f[j], f[i]) /\ f[i] \in Hypotheses /\ f[j] \in Hypotheses
      BY <1>4, <3>3
    <3>5. f[i].score \in Int /\ f[j].score \in Int
      BY <3>4 DEF IInv, Sane
    <3> QED  BY <3>1, <3>2, <3>4, <3>5 DEF ByScore
  <2>5. Kept \in SUBSET Held /\ Held \ Kept = Dropped
    BY <1>6, <1>10
  <2> HIDE DEF Kept
  <2>6. ~(Cardinality(Held) < StackSize)
    BY <1>3, <2>2
  <2> QED  BY <1>10, <2>3, <2>4, <2>5, <2>6 DEF Prune, kSubset
<1>12. Typed'
  <2>1. /\ IsVector(vec'.coll) /\ IsVector(vec'.sorted)
        /\ \A i \in Filled("coll")' : vec'.coll.cells[i] \in Hypotheses
        /\ \A i \in Filled("sorted")' : vec'.sorted.cells[i] \in Hypotheses
    BY <1>4, <1>8, <1>9, EmptyIsVector
  <2>2. /\ pool \in SUBSET Hypotheses /\ freed' \in SUBSET Hypotheses
        /\ adding \in SUBSET Hypotheses /\ k \in Nat
    <3>1. \A i \in StackSize .. (all - 1) : i \in 0 .. (all - 1)
      BY <1>3
    <3>2. Dropped \in SUBSET Hypotheses
      BY <1>4, <1>5, <3>1
    <3> QED  BY <1>1, <3>2 DEF IInv, Typed
  <2> QED  BY <1>1, <1>7, <1>8, <2>1, <2>2, VectorsTyped
<1>13. Control' /\ Sorting' /\ Refilling'
  BY <1>7 DEF Control, Sorting, Refilling
<1>14. Array' /\ Ordered'
  <2>1. vec'.sorted.size = 0
    BY <1>8, EmptyIsVector
  <2> QED  BY <1>4, <1>8, <1>9, <2>1 DEF Array, Ordered, ByKey
<1>15. Accounted'
  <2>1. /\ Hypotheses \ pool = Kept \union Dropped \union freed \union adding
        /\ (Kept \union Dropped) \intersect freed = {}
        /\ adding \intersect (Kept \union Dropped \union freed) = {}
    BY <1>10 DEF IInv, Accounted
  <2> HIDE DEF Kept
  <2>2. pool' = pool /\ freed' = freed \union Dropped /\ Held' = Kept
    BY <1>1, <1>10
  <2>3. adding' = adding /\ \A g, h \in adding : g = h
    BY <1>1 DEF IInv, Accounted
  <2> QED  BY <1>6, <2>1, <2>2, <2>3 DEF Accounted
<1>16. Adding' /\ Bisecting' /\ Placed'
  <2>1. CASE pc' = "idle" /\ job' = "none" /\ adding' = {}
    BY <2>1 DEF Adding, Bisecting, Placed
  <2>2. CASE pc' = "search" /\ job' = "add" /\ \E h \in adding : Enter("add", h, StackSize)
    <3>1. PICK h \in adding : Enter("add", h, StackSize)
      BY <2>2
    <3>2. vec'[Target'].size = StackSize
      BY <1>3, <1>8, <2>2 DEF Target
    <3>3. Bisecting' /\ Placed'
      BY <1>3, <3>1, <3>2, EnterKeeps
    <3>4. Count("coll")' = StackSize
      BY <1>3, <1>8, <1>9 DEF Count
    <3>5. adding = {h}
      BY DEF IInv, Accounted
    <3>6. StackSize < Tolerance
      BY <1>3, TheSizes
    <3> QED  BY <1>1, <2>2, <3>1, <3>3, <3>4, <3>5, <3>6 DEF Adding, Enter
  <2> QED  BY <1>7, <2>1, <2>2
<1> QED  BY <1>11, <1>12, <1>13, <1>14, <1>15, <1>16 DEF IInv, Sane

-----------------------------------------------------------------------------
(* The calls *)

\* Between calls the array is empty, and nothing is about to be added.
LEMMA IdleVectors ==
  ASSUME IInv, pc = "idle"
  PROVE  /\ job = "none" /\ adding = {} /\ vec.sorted.size = 0
         /\ vec.coll.size \in Nat /\ vec.coll.size <= Tolerance
         /\ Held = Elements("coll")
<1>1. job = "none" /\ adding = {}
  BY DEF IInv, Control
<1>2. vec.coll.size \in Nat /\ vec.coll.size <= Tolerance
  BY SizeIsNatural DEF IInv, Vectors
<1> QED  BY <1>1, <1>2 DEF IInv, Array, Held

\* The vectors as they are when a search starts.
LEMMA StartKeeps ==
  ASSUME IInv, pc = "idle", pc' = "search", UNCHANGED <<vec, freed>>,
         job' \in {"add", "sort"}, k' \in Nat,
         pool' \in SUBSET Hypotheses, adding' \in SUBSET Hypotheses
  PROVE  /\ Typed' /\ Array' /\ Ordered' /\ Control' /\ Refilling'
         /\ Held' = Held
         /\ Count("coll")' = vec.coll.size /\ Count("sorted")' = 0
         /\ Elements("sorted")' = {}
<1>1. job = "none" /\ vec.sorted.size = 0 /\ Held = Elements("coll")
  BY IdleVectors
<1>2. \A v \in Vectors :
        Filled(v)' = Filled(v) /\ Elements(v)' = Elements(v) /\ Count(v)' = vec[v].size
  BY SameVectors
<1>3. /\ Filled("coll")' = Filled("coll") /\ Elements("coll")' = Elements("coll")
      /\ Count("coll")' = vec.coll.size
      /\ Filled("sorted")' = Filled("sorted") /\ Elements("sorted")' = Elements("sorted")
      /\ Count("sorted")' = 0
  BY <1>1, <1>2 DEF Vectors
<1>4. Filled("sorted") = {} /\ Elements("sorted") = {}
  BY <1>1 DEF Filled, Elements
<1>5. Typed'
  <2>1. freed \in SUBSET Hypotheses
    BY DEF IInv, Typed
  <2> QED  BY <1>2, <2>1 DEF IInv, Typed
<1>6. Array' /\ Ordered'
  BY <1>1, <1>3, <1>4 DEF IInv, Array, Ordered
<1>7. Control' /\ Refilling'
  BY DEF Control, Refilling
<1>8. Held' = Held
  BY <1>1, <1>3 DEF Held
<1> QED  BY <1>3, <1>4, <1>5, <1>6, <1>7, <1>8

\* Prune starts with the first hypothesis of a stack that has one.
LEMMA StartPruneKeeps ==
  ASSUME IInv, pc = "idle", vec.coll.size >= StackSize, StartPrune, UNCHANGED <<vec, freed>>,
         pool' \in SUBSET Hypotheses, adding' \in SUBSET Hypotheses
  PROVE  /\ Typed' /\ Array' /\ Ordered' /\ Control' /\ Refilling'
         /\ Adding' /\ Sorting' /\ Bisecting' /\ Placed'
         /\ Held' = Held
<1>1. vec.coll.size \in Nat /\ StackSize \in Nat /\ StackSize > 0 /\ vec.sorted.size = 0
  BY IdleVectors, TheSizes DEF IInv, Sane
<1>2. k' = 0 /\ Enter("sort", vec.coll.cells[0], 0)
  BY <1>1 DEF StartPrune
<1>3. pc' = "search" /\ job' = "sort" /\ hypo' = vec.coll.cells[0]
  BY <1>2 DEF Enter
<1>4. /\ Typed' /\ Array' /\ Ordered' /\ Control' /\ Refilling' /\ Held' = Held
      /\ Count("sorted")' = 0 /\ Elements("sorted")' = {}
  BY <1>2, <1>3, StartKeeps
<1>5. Adding'
  BY <1>3 DEF Adding
<1>6. Sorting'
  <2>1. {vec.coll.cells[i] : i \in 0 .. (0 - 1)} = {}
    OBVIOUS
  <2> QED  BY <1>1, <1>2, <1>3, <1>4, <2>1 DEF Sorting
<1>7. Bisecting' /\ Placed'
  <2>1. vec'[Target'].size = 0
    BY <1>1, <1>3 DEF Target
  <2> QED  BY <1>2, <2>1, EnterKeeps
<1> QED  BY <1>4, <1>5, <1>6, <1>7

LEMMA PruneStackKeeps ==
  ASSUME IInv, PruneStack
  PROVE  IInv' /\ UNCHANGED Held
<1>1. /\ pc = "idle" /\ vec.coll.size >= StackSize /\ StartPrune
      /\ UNCHANGED <<pool, freed, vec, adding>>
  BY DEF PruneStack
<1>2. pool' \in SUBSET Hypotheses /\ adding' \in SUBSET Hypotheses
  BY <1>1 DEF IInv, Typed
<1>3. /\ Typed' /\ Array' /\ Ordered' /\ Control' /\ Refilling'
      /\ Adding' /\ Sorting' /\ Bisecting' /\ Placed'
      /\ Held' = Held
  BY <1>1, <1>2, StartPruneKeeps
<1>4. Accounted'
  BY <1>1, <1>3 DEF IInv, Accounted
<1> QED  BY <1>3, <1>4 DEF IInv, Sane

\* An add prunes first if the stack is full, and searches for the key.
LEMMA AddHypoKeeps ==
  ASSUME IInv, NEW h \in Hypotheses, AddHypo(h)
  PROVE  IInv' /\ UNCHANGED Held
<1>1. /\ pc = "idle" /\ h \in pool /\ pool' = pool \ {h} /\ adding' = {h}
      /\ UNCHANGED <<freed, vec>>
  BY DEF AddHypo
<1>2. /\ vec.coll.size \in Nat /\ vec.coll.size <= Tolerance /\ adding = {}
      /\ Tolerance \in Nat /\ StackSize \in Nat /\ StackSize <= Tolerance
  BY <1>1, IdleVectors, TheSizes
<1>3. pool' \in SUBSET Hypotheses /\ adding' \in SUBSET Hypotheses /\ k \in Nat
  BY <1>1 DEF IInv, Typed
<1>4. /\ Typed' /\ Array' /\ Ordered' /\ Control' /\ Refilling'
      /\ Adding' /\ Sorting' /\ Bisecting' /\ Placed'
      /\ Held' = Held
  <2>1. CASE Full(vec.coll.size) /\ StartPrune
    <3>1. vec.coll.size >= StackSize
      BY <1>2, <2>1 DEF Full
    <3> QED  BY <1>1, <1>3, <2>1, <3>1, StartPruneKeeps
  <2>2. CASE ~Full(vec.coll.size) /\ Enter("add", h, vec.coll.size) /\ UNCHANGED k
    <3>1. pc' = "search" /\ job' = "add" /\ hypo' = h
      BY <2>2 DEF Enter
    <3>2. /\ Typed' /\ Array' /\ Ordered' /\ Control' /\ Refilling' /\ Held' = Held
          /\ Count("coll")' = vec.coll.size
      BY <1>1, <1>3, <2>2, <3>1, StartKeeps
    <3>3. Adding' /\ Sorting'
      BY <1>1, <1>2, <2>2, <3>1, <3>2 DEF Adding, Sorting, Full
    <3>4. vec'[Target'].size = vec.coll.size
      BY <1>1, <3>1 DEF Target
    <3>5. Bisecting' /\ Placed'
      BY <1>2, <2>2, <3>4, EnterKeeps
    <3> QED  BY <3>2, <3>3, <3>5
  <2> QED  BY <2>1, <2>2 DEF AddHypo
<1>5. Accounted'
  <2>1. Hypotheses \ pool = Held \union freed /\ Held \intersect freed = {}
    BY <1>2 DEF IInv, Accounted
  <2>2. Hypotheses \ (pool \ {h}) = Held \union freed \union {h}
    BY <2>1
  <2>3. h \notin Held \union freed
    BY <1>1, <2>1
  <2> QED  BY <1>1, <1>4, <2>1, <2>2, <2>3 DEF Accounted
<1> QED  BY <1>4, <1>5 DEF IInv, Sane

-----------------------------------------------------------------------------
(* The theorems *)

LEMMA InitIsRight ==
  ASSUME Sane, VectorInit
  PROVE  IInv /\ Held = {}
<1>1. /\ pool = Hypotheses /\ freed = {} /\ adding = {} /\ k = 0
      /\ pc = "idle" /\ job = "none"
      /\ vec = [coll |-> Empty, sorted |-> Empty]
  BY DEF VectorInit
<1>2. /\ vec.coll = Empty /\ vec.sorted = Empty
      /\ vec = [coll |-> vec.coll, sorted |-> vec.sorted]
  BY <1>1
<1>3. \A v \in Vectors : vec[v] = Empty
  BY <1>2 DEF Vectors
<1>4. \A v \in Vectors : Filled(v) = {} /\ Elements(v) = {}
  BY <1>1, <1>3, EmptyIsVector DEF Filled, Hole, Elements
<1>5. Typed
  <2>1. ASSUME NEW v \in Vectors
        PROVE  /\ vec[v] = [cells |-> vec[v].cells, size |-> vec[v].size]
               /\ vec[v].cells = [i \in Cells |-> vec[v].cells[i]]
               /\ vec[v].size \in 0 .. Tolerance
               /\ \A i \in Filled(v) : vec[v].cells[i] \in Hypotheses
    BY <1>3, <1>4, EmptyIsVector DEF IsVector
  <2> QED  BY <1>1, <1>2, <2>1 DEF Typed
<1>6. Control /\ Adding /\ Sorting /\ Refilling /\ Bisecting /\ Placed
  BY <1>1 DEF Control, Adding, Sorting, Refilling, Bisecting, Placed
<1>7. Array /\ Ordered
  BY <1>1, <1>2, <1>4, EmptyIsVector DEF Array, Ordered, Vectors
<1>8. Held = {} /\ Accounted
  BY <1>1, <1>4 DEF Held, Accounted, Vectors
<1> QED  BY <1>5, <1>6, <1>7, <1>8 DEF IInv

\* A step that changes nothing.
LEMMA StutterKeeps ==
  ASSUME IInv, UNCHANGED vectorVars
  PROVE  IInv' /\ UNCHANGED Held
<1>1. UNCHANGED <<pool, freed, vec, pc, job, adding, k, hypo, l, r, found, ind, dest>>
  BY DEF vectorVars, search
<1>2. /\ UNCHANGED <<Filled("coll"), Filled("sorted")>>
      /\ UNCHANGED <<Elements("coll"), Elements("sorted")>>
      /\ UNCHANGED <<Count("coll"), Count("sorted")>>
      /\ UNCHANGED Target
  BY <1>1 DEF Filled, Elements, Count, Hole, Target
<1>3. Typed' /\ Control' /\ Adding' /\ Sorting' /\ Refilling' /\ Array' /\ Ordered'
  BY <1>1, <1>2 DEF IInv, Typed, Vectors, Control, Adding, Sorting, Refilling, Array, Ordered
<1>4. Bisecting' /\ Placed'
  BY <1>1, <1>2 DEF IInv, Bisecting, Placed, Before, Rank, Filled, Hole, Count
<1>5. UNCHANGED Held /\ Accounted'
  BY <1>1, <1>2 DEF Held, IInv, Accounted
<1> QED  BY <1>3, <1>4, <1>5 DEF IInv, Sane

LEMMA NextKeeps ==
  ASSUME IInv, [VectorNext]_vectorVars
  PROVE  /\ IInv'
         /\ \/ UNCHANGED Held
            \/ \E h \in Hypotheses : Held' = Recombine(Held, h)
            \/ Held' \in Prune(Held)
<1>1. CASE PruneStack
  BY <1>1, PruneStackKeeps
<1>2. CASE Search
  BY <1>2, SearchKeeps
<1>3. CASE SearchEnds
  BY <1>3, SearchEndsKeeps
<1>4. CASE RecombineHypo
  BY <1>4, RecombineKeeps
<1>5. CASE Insert
  BY <1>5, InsertKeeps
<1>6. CASE Shift
  BY <1>6, ShiftKeeps
<1>7. CASE StoreAdded
  BY <1>7, StoreAddedKeeps
<1>8. CASE StoreSorted
  BY <1>8, StoreSortedKeeps
<1>9. CASE StoreRefilled
  BY <1>9, StoreRefilledKeeps
<1>10. CASE Delete
  BY <1>10, DeleteKeeps
<1>11. CASE \E h \in Hypotheses : AddHypo(h)
  BY <1>11, AddHypoKeeps
<1>12. CASE UNCHANGED vectorVars
  BY <1>12, StutterKeeps
<1> QED  BY <1>1, <1>2, <1>3, <1>4, <1>5, <1>6, <1>7, <1>8, <1>9, <1>10, <1>11, <1>12
         DEF VectorNext, Work

\* The invariant says that the vector is right.
LEMMA InvIsRight ==
  ASSUME IInv
  PROVE  VectorIsRight
<1>1. Ordered /\ NeverFails
  BY DEF IInv, Typed, NeverFails
<1>2. SearchIsRight
  <2> SUFFICES ASSUME pc = "search", found \/ r < l
               PROVE  LET v == vec[Target]
                      IN  /\ found <=> \E i \in Filled(Target) :
                                         /\ ~Before(hypo, v.cells[i])
                                         /\ ~Before(v.cells[i], hypo)
                          /\ \A i \in Filled(Target) :
                               /\ i < ind => ~Before(hypo, v.cells[i])
                               /\ i > ind => ~Before(v.cells[i], hypo)
                               /\ i = ind => ~Before(v.cells[i], hypo)
    BY DEF SearchIsRight
  <2> DEFINE elems == vec[Target].cells
             size == vec[Target].size
  <2>1. /\ size \in Nat /\ Filled(Target) = 0 .. (size - 1)
        /\ \A i \in Filled(Target) : elems[i] \in Hypotheses /\ Rank(elems[i]) \in Int
        /\ hypo \in Hypotheses /\ Rank(hypo) \in Int
        /\ ind \in 0 .. size
        /\ found => ind < size /\ Rank(elems[ind]) = Rank(hypo)
        /\ \A i \in Filled(Target) :
             /\ i < ind => Rank(elems[i]) <= Rank(hypo)
             /\ i >= ind => Rank(hypo) <= Rank(elems[i])
             /\ ~found => Rank(elems[i]) # Rank(hypo)
    BY SearchHasEnded
  <2> HIDE DEF elems, size
  <2>2. \A g, h \in Hypotheses : Before(g, h) <=> Rank(g) < Rank(h)
    BY BeforeIsRank DEF IInv
  <2>3. ASSUME NEW i \in Filled(Target)
        PROVE  /\ Before(hypo, elems[i]) <=> Rank(hypo) < Rank(elems[i])
               /\ Before(elems[i], hypo) <=> Rank(elems[i]) < Rank(hypo)
               /\ i \in Nat
    BY <2>1, <2>2
  <2>4. found => ind \in Filled(Target)
    BY <2>1
  <2>5. found <=> \E i \in Filled(Target) :
                    /\ ~Before(hypo, elems[i])
                    /\ ~Before(elems[i], hypo)
    BY <2>1, <2>3, <2>4
  <2>6. ASSUME NEW i \in Filled(Target)
        PROVE  /\ i < ind => ~Before(hypo, elems[i])
               /\ i > ind => ~Before(elems[i], hypo)
               /\ i = ind => ~Before(elems[i], hypo)
    BY <2>1, <2>3
  <2> QED  BY <2>5, <2>6 DEF elems
<1>3. NothingLost
  <2> SUFFICES ASSUME pc = "idle"
               PROVE  /\ Hypotheses \ pool = Elements("coll") \union freed
                      /\ Elements("coll") \intersect freed = {}
    BY DEF NothingLost
  <2> QED  BY IdleVectors DEF IInv, Accounted
<1> QED  BY <1>1, <1>2, <1>3 DEF VectorIsRight

(***************************************************************************)
(* At every iteration of every loop the vector and the array are in order, *)
(* the bisection is right, neither the assertion of Set::insert nor the    *)
(* trap of Vector::reserve is reached, and between calls no hypothesis is  *)
(* lost or freed while it is held, whatever is added and pruned, for a     *)
(* stack of any size but none (Vector.h:144-207, Set.h:36-52,              *)
(* Array.h:119-203, Stack.cu:33-117).                                      *)
(***************************************************************************)
THEOREM VectorAlwaysRight == ASSUME Sane PROVE VectorSpec => []VectorIsRight
<1>1. VectorInit => IInv
  BY InitIsRight
<1>2. IInv /\ [VectorNext]_vectorVars => IInv'
  BY NextKeeps
<1>3. IInv => VectorIsRight
  BY InvIsRight
<1> QED  BY <1>1, <1>2, <1>3, PTL DEF VectorSpec, VectorSafety

(***************************************************************************)
(* The vector, bisected, shifted and rebuilt cell by cell, implements the  *)
(* set of the abstract stack: what it holds changes only by a recombination*)
(* or by a pruning that keeps the best (Stack.cu:33-117).                  *)
(***************************************************************************)
THEOREM VectorImplementsSet == ASSUME Sane PROVE VectorSpec => ImplementsSet
<1>1. VectorInit => IInv /\ ASet!Init
  BY InitIsRight DEF ASet!Init, Held
<1>2. IInv /\ [VectorNext]_vectorVars => IInv'
  BY NextKeeps
<1>3. IInv /\ [VectorNext]_vectorVars => [ASet!Next]_Held
  <2> SUFFICES ASSUME IInv, [VectorNext]_vectorVars
               PROVE  [ASet!Next]_Held
    OBVIOUS
  <2>1. CASE UNCHANGED Held
    BY <2>1
  <2>2. CASE \E h \in Hypotheses : Held' = Recombine(Held, h)
    BY <2>2, SetRecombines DEF ASet!Next, Held
  <2>3. CASE Held' \in Prune(Held)
    BY <2>3, SetPrunes DEF ASet!Next, Held
  <2> QED  BY <2>1, <2>2, <2>3, NextKeeps
<1>4. IInv /\ [VectorNext]_vectorVars => [ASet!Next]_(IF job = "refill" THEN Elements("sorted")
                                                            ELSE Elements("coll"))
  BY <1>3 DEF Held
<1> QED  BY <1>1, <1>2, <1>4, PTL DEF VectorSpec, VectorSafety, ImplementsSet, ASet!Spec

(***************************************************************************)
(* The stream that goes back                                               *)
(***************************************************************************)

\* How many entries a block that arrives may have: none, if there are two
\* blocks.  With more, a client that goes over what is kept for the second
\* time steps into an empty block (rewindable_stream.cc:41-52).
Sizes == IF BlockCount = 2 THEN 0 .. PerBlock ELSE 1 .. PerBlock

\* What the theorem assumes of the constants; E are the entries.
StreamsOf(E) ==
  /\ BlockCount \in Nat
  /\ PerBlock \in Nat \ {0}
  /\ {0, NewEntry} \subseteq E
  /\ \A blocks \in Arrivals :
       /\ blocks \in Seq(Seq(E))
       /\ \A n \in 1 .. Len(blocks) : Len(blocks[n]) \in Sizes

-----------------------------------------------------------------------------
(* The inductive invariant *)

Starts == {1 + PerBlock * (n - 1) : n \in 1 .. BlockCount}

LastCell == BlockCount * PerBlock

StreamBlocks == [start : Starts, valid : Sizes]

Queued == StreamBlocks \union {PoisonBlock}

\* Sequences of sequences of entries.
Pieces(E) == Seq(Seq(E))

\* What may be left to arrive.
PiecesFor(E) == {pieces \in Pieces(E) : \A n \in 1 .. Len(pieces) : Len(pieces[n]) \in Sizes}

StreamTyped(E) ==
  /\ arriving \in PiecesFor(E)
  /\ inQueue \in Seq(Queued) /\ outQueue \in Seq(Queued) /\ kept \in Seq(StreamBlocks)
  /\ cells \in [1 .. LastCell -> E]
  /\ sent \in Pieces(E) /\ view \in Seq(E)
  /\ keptIt \in Nat /\ current \in Nat /\ marked \in Nat /\ blockEnd \in Nat
  /\ place \in Nat /\ markPlace \in Nat

\* No two blocks of a queue begin at the same cell, unless they are poison, ...
Once(q) ==
  \A i, j \in 1 .. Len(q) : q[i].start = q[j].start /\ q[i].start # 0 => i = j

\* ... nor do those of two.
Away(q, u) ==
  \A i \in 1 .. Len(q), j \in 1 .. Len(u) : q[i].start = u[j].start => q[i].start = 0

\* A block is in one place, and there are no more of them than there were.
AreApart(held, in, out) ==
  /\ Once(held) /\ Once(in) /\ Once(out)
  /\ Away(held, in) /\ Away(held, out) /\ Away(in, out)
  /\ Len(held) + Len(in) + Len(out) <= BlockCount

\* What is in the blocks.
StreamContents(mem, blocks) == [n \in 1 .. Len(blocks) |-> BlockContents(mem, blocks[n])]

\* All that was read: what has gone out, then what is kept.
HeldBack(out, mem, blocks) == out \o StreamContents(mem, blocks)

\* Entries as the client knows them are those, one after the other.
IsView(flat, off, seqs) ==
  /\ AreOffsets(off, seqs)
  /\ Len(flat) = off[Len(seqs)]
  /\ AreAt(flat, off, seqs, Len(seqs))

\* Entry number a of the memory, in kept block n, is that place of the stream.
IsPlace(p, off, out, blocks, n, a) ==
  p = off[Len(out) + n - 1] + (a - blocks[n].start) + 1

PlacedBack(off) ==
  /\ IsView(view, off, HeldBack(sent, cells, kept))
  /\ Usable => IsPlace(place, off, sent, kept, keptIt, current)
  /\ marked # NoMark => IsPlace(markPlace, off, sent, kept, 1, marked)

\* A client that asks for a block is after all that was read.
AtEnd == client \in {"append", "append more"} => place = Len(view) + 1

IsIn(a, b) == b.start <= a /\ a < EndOf(b)

InBlock ==
  Usable => /\ keptIt \in 1 .. Len(kept)
            /\ IsIn(current, kept[keptIt])
            /\ blockEnd = EndOf(kept[keptIt])

\* Without a mark nothing is kept but the block that the client is in, and
\* the empty ones before it.
KeptWithoutMark ==
  marked = NoMark => /\ Usable => keptIt = Len(kept)
                     /\ client = "append" => kept = <<>>

\* With one the first that is kept is that of the mark, and none is empty but
\* that of a client that waits, for ever, for a third of two.
KeptWithMark ==
  marked # NoMark => /\ kept # <<>> /\ IsIn(marked, kept[1])
                     /\ IF client = "append more"
                        THEN BlockCount = 2 /\ Len(kept) = 2
                        ELSE \A n \in 1 .. Len(kept) : kept[n].valid > 0

StreamGoes(E) ==
  /\ BlockCount >= 2
  /\ client \in {"append", "append more", "out", "left", "assertion", "abort"}
  /\ StreamTyped(E)
  /\ AreApart(kept, inQueue, outQueue)
  /\ \E off : PlacedBack(off)
  /\ AtEnd
  /\ InBlock
  /\ KeptWithoutMark
  /\ KeptWithMark
  /\ client = "abort" => marked # NoMark

StreamIsOver ==
  \/ client = "refused"
  \/ client \in {"poison", "done"} /\ FlattenSeq(sent) = SubSeq(view, 1, place - 1)

StreamInv(E) == StreamGoes(E) \/ StreamIsOver

-----------------------------------------------------------------------------
(* The memory *)

LEMMA BlocksFollow ==
  ASSUME PerBlock \in Nat, NEW a \in Nat, NEW b \in Nat, a < b
  PROVE  PerBlock * a + PerBlock <= PerBlock * b
<1> DEFINE d == b - a - 1
<1>1. d \in Nat /\ b = a + 1 + d
  OBVIOUS
<1>2. PerBlock * d \in Nat /\ PerBlock * a \in Nat
  BY <1>1
<1> HIDE DEF d
<1>3. PerBlock * (a + 1 + d) = PerBlock * a + PerBlock + PerBlock * d
  BY <1>1
<1> QED  BY <1>1, <1>2, <1>3

\* StreamBlocks do not overlap, and lie in the memory.
LEMMA StartsApart ==
  ASSUME NEW E, StreamsOf(E)
  PROVE  /\ \A s \in Starts : s \in Nat \ {0} /\ s + PerBlock - 1 <= LastCell
         /\ \A s, t \in Starts : s # t => s + PerBlock <= t \/ t + PerBlock <= s
<1>1. BlockCount \in Nat /\ PerBlock \in Nat /\ PerBlock > 0
  BY DEF StreamsOf
<1>2. ASSUME NEW a \in Nat, NEW b \in Nat, a < b
      PROVE  PerBlock * a + PerBlock <= PerBlock * b
  BY <1>1, <1>2, BlocksFollow
<1>3. ASSUME NEW s \in Starts
      PROVE  \E n \in 1 .. BlockCount : n - 1 \in Nat /\ s = 1 + PerBlock * (n - 1)
                                        /\ PerBlock * (n - 1) \in Nat
  <2>1. PICK n \in 1 .. BlockCount : s = 1 + PerBlock * (n - 1)
    BY DEF Starts
  <2>2. n - 1 \in Nat
    BY <1>1
  <2>3. PerBlock * (n - 1) \in Nat
    BY <1>1, <2>2
  <2> QED  BY <2>1, <2>2, <2>3
<1>4. ASSUME NEW s \in Starts
      PROVE  s \in Nat \ {0} /\ s + PerBlock - 1 <= LastCell
  <2>1. PICK n \in 1 .. BlockCount : n - 1 \in Nat /\ s = 1 + PerBlock * (n - 1)
                                     /\ PerBlock * (n - 1) \in Nat
    BY <1>3
  <2>2. n - 1 < BlockCount
    BY <1>1, <2>1
  <2>3. PerBlock * (n - 1) + PerBlock <= PerBlock * BlockCount
    BY <1>1, <1>2, <2>1, <2>2
  <2>4. LastCell = PerBlock * BlockCount /\ LastCell \in Nat
    BY <1>1 DEF LastCell
  <2> QED  BY <1>1, <2>1, <2>3, <2>4
<1>5. ASSUME NEW s \in Starts, NEW t \in Starts, s # t
      PROVE  s + PerBlock <= t \/ t + PerBlock <= s
  <2>1. PICK n \in 1 .. BlockCount : n - 1 \in Nat /\ s = 1 + PerBlock * (n - 1)
                                     /\ PerBlock * (n - 1) \in Nat
    BY <1>3
  <2>2. PICK m \in 1 .. BlockCount : m - 1 \in Nat /\ t = 1 + PerBlock * (m - 1)
                                     /\ PerBlock * (m - 1) \in Nat
    BY <1>3
  <2>3. n - 1 < m - 1 \/ m - 1 < n - 1
    BY <1>1, <1>5, <2>1, <2>2
  <2>4. \/ PerBlock * (n - 1) + PerBlock <= PerBlock * (m - 1)
        \/ PerBlock * (m - 1) + PerBlock <= PerBlock * (n - 1)
    BY <1>2, <2>1, <2>2, <2>3
  <2> QED  BY <1>1, <2>1, <2>2, <2>4
<1> QED  BY <1>4, <1>5

LEMMA BlockIs ==
  ASSUME NEW E, StreamsOf(E), NEW b \in StreamBlocks
  PROVE  /\ b.start \in Starts /\ b.valid \in Sizes
         /\ b.start \in Nat \ {0} /\ b.valid \in 0 .. PerBlock
         /\ EndOf(b) = b.start + b.valid /\ EndOf(b) - 1 <= LastCell
         /\ BlockCount # 2 => b.valid > 0
<1>1. BlockCount \in Nat /\ PerBlock \in Nat /\ LastCell \in Int
  BY DEF StreamsOf, LastCell
<1>2. b.start \in Starts /\ b.valid \in Sizes
  BY DEF StreamBlocks
<1>3. b.valid \in 0 .. PerBlock /\ (BlockCount # 2 => b.valid > 0)
  BY <1>1, <1>2 DEF Sizes
<1>4. b.start \in Nat \ {0} /\ b.start + PerBlock - 1 <= LastCell
  BY <1>2, StartsApart
<1>5. EndOf(b) = b.start + b.valid
  BY DEF EndOf
<1>6. EndOf(b) - 1 <= LastCell
  BY <1>1, <1>3, <1>4, <1>5
<1> QED  BY <1>2, <1>3, <1>4, <1>5, <1>6

\* What is in a block.
LEMMA BlockContentsIs ==
  ASSUME NEW E, StreamsOf(E), NEW mem \in [1 .. LastCell -> E], NEW b \in StreamBlocks
  PROVE  /\ BlockContents(mem, b) \in Seq(E)
         /\ Len(BlockContents(mem, b)) = b.valid
         /\ \A j \in 1 .. b.valid : /\ b.start + j - 1 \in 1 .. LastCell
                                    /\ BlockContents(mem, b)[j] = mem[b.start + j - 1]
<1> DEFINE first == b.start
           size == b.valid
           last == EndOf(b) - 1
<1>1. /\ first \in Nat \ {0} /\ size \in Nat /\ last = first + size - 1
      /\ last \in Int /\ last <= LastCell
  BY BlockIs
<1>2. LastCell \in Nat
  BY DEF StreamsOf, LastCell
<1>3. mem \in Seq(E) /\ Len(mem) = LastCell
  BY <1>2
<1> HIDE DEF first, size, last
<1>4. BlockContents(mem, b) = SubSeq(mem, first, last)
  BY DEF BlockContents, first, last
<1>5. SubSeq(mem, first, last) = [i \in 1 .. (last - first + 1) |-> mem[i + first - 1]]
  BY <1>1, <1>2, <1>3
<1>6. last - first + 1 = size
  BY <1>1
<1>7. SubSeq(mem, first, last) = [i \in 1 .. size |-> mem[i + first - 1]]
  BY <1>5, <1>6
<1>8. \A j \in 1 .. size : first + j - 1 \in 1 .. LastCell /\ j + first - 1 = first + j - 1
  BY <1>1, <1>2
<1>9. /\ BlockContents(mem, b) \in Seq(E)
      /\ Len(BlockContents(mem, b)) = size
      /\ \A j \in 1 .. size : BlockContents(mem, b)[j] = mem[first + j - 1]
  <2> DEFINE c == BlockContents(mem, b)
  <2>1. c = [i \in 1 .. size |-> mem[i + first - 1]]
    BY <1>4, <1>7
  <2> HIDE DEF c
  <2>2. \A j \in 1 .. size : c[j] = mem[first + j - 1]
    BY <1>8, <2>1
  <2>3. \A j \in 1 .. size : mem[first + j - 1] \in E
    BY <1>8
  <2>4. c \in [1 .. size -> E]
    BY <2>1, <2>2, <2>3
  <2>5. c \in Seq(E) /\ Len(c) = size
    BY <1>1, <2>4
  <2> QED  BY <2>2, <2>5 DEF c
<1> QED  BY <1>8, <1>9 DEF first, size

LEMMA ContentsIs ==
  ASSUME NEW E, StreamsOf(E), NEW mem \in [1 .. LastCell -> E], NEW blocks \in Seq(StreamBlocks)
  PROVE  /\ StreamContents(mem, blocks) \in Pieces(E)
         /\ Len(StreamContents(mem, blocks)) = Len(blocks)
         /\ \A n \in 1 .. Len(blocks) : StreamContents(mem, blocks)[n] = BlockContents(mem, blocks[n])
<1> DEFINE X == Seq(E)
<1>1. \A n \in 1 .. Len(blocks) : BlockContents(mem, blocks[n]) \in X
  <2> SUFFICES ASSUME NEW n \in 1 .. Len(blocks)
               PROVE  BlockContents(mem, blocks[n]) \in Seq(E)
    OBVIOUS
  <2>1. blocks[n] \in StreamBlocks
    OBVIOUS
  <2> QED  BY <2>1, BlockContentsIs
<1>2. Len(blocks) \in Nat
  OBVIOUS
<1> HIDE DEF X
<1>3. StreamContents(mem, blocks) \in Seq(X)
  BY <1>1, <1>2 DEF StreamContents
<1>4. Len(StreamContents(mem, blocks)) = Len(blocks)
  BY <1>1, <1>2 DEF StreamContents
<1>5. \A n \in 1 .. Len(blocks) : StreamContents(mem, blocks)[n] = BlockContents(mem, blocks[n])
  BY DEF StreamContents
<1> QED  BY <1>3, <1>4, <1>5 DEF X, Pieces

-----------------------------------------------------------------------------
(* What was read, one sequence after the other *)

LEMMA PiecesAre ==
  ASSUME NEW E, NEW seqs \in Pieces(E)
  PROVE  /\ Len(seqs) \in Nat /\ DOMAIN seqs = 1 .. Len(seqs)
         /\ \A n \in 1 .. Len(seqs) : seqs[n] \in Seq(E) /\ Len(seqs[n]) \in Nat
<1>1. Len(seqs) \in Nat /\ DOMAIN seqs = 1 .. Len(seqs)
  BY DEF Pieces
<1>2. \A n \in 1 .. Len(seqs) : seqs[n] \in Seq(E)
  BY DEF Pieces
<1> QED  BY <1>1, <1>2

LEMMA OnePieceMore ==
  ASSUME NEW E, NEW seqs \in Pieces(E), NEW x \in Seq(E)
  PROVE  /\ Append(seqs, x) \in Pieces(E)
         /\ Len(Append(seqs, x)) = Len(seqs) + 1
         /\ Append(seqs, x)[Len(seqs) + 1] = x
         /\ \A n \in 1 .. Len(seqs) : Append(seqs, x)[n] = seqs[n]
<1> DEFINE X == Seq(E)
<1>1. seqs \in Seq(X) /\ x \in X
  BY DEF Pieces
<1> HIDE DEF X
<1>2. /\ Append(seqs, x) \in Seq(X)
      /\ Len(Append(seqs, x)) = Len(seqs) + 1
      /\ Append(seqs, x)[Len(seqs) + 1] = x
      /\ \A n \in 1 .. Len(seqs) : Append(seqs, x)[n] = seqs[n]
  BY <1>1
<1> QED  BY <1>2 DEF X, Pieces

LEMMA OffsetsGrow ==
  ASSUME NEW E, NEW seqs \in Pieces(E), NEW off, AreOffsets(off, seqs)
  PROVE  \A a, b \in 0 .. Len(seqs) : a <= b => off[a] <= off[b]
<1> DEFINE N == Len(seqs)
<1>1. N \in Nat /\ \A n \in 1 .. N : Len(seqs[n]) \in Nat
  BY PiecesAre
<1>2. /\ \A n \in 0 .. N : off[n] \in Nat
      /\ \A n \in 1 .. N : off[n] = off[n - 1] + Len(seqs[n])
  BY DEF AreOffsets
<1> HIDE DEF N
<1>3. ASSUME NEW a \in 0 .. N
      PROVE  \A b \in 0 .. N : a <= b => off[a] <= off[b]
  <2> DEFINE good == {b \in 0 .. N : a <= b => off[a] <= off[b]}
  <2>1. 0 \in good
    BY <1>1, <1>2
  <2>2. ASSUME NEW b \in 1 .. N, b - 1 \in good
        PROVE  b \in good
    <3>1. /\ b \in 0 .. N /\ b - 1 \in 0 .. N /\ Len(seqs[b]) \in Nat
          /\ off[b] = off[b - 1] + Len(seqs[b])
          /\ off[b] \in Nat /\ off[b - 1] \in Nat /\ off[a] \in Nat
      BY <1>1, <1>2
    <3>2. a <= b - 1 => off[a] <= off[b - 1]
      BY <2>2
    <3>3. CASE a <= b - 1
      BY <3>1, <3>2, <3>3
    <3>4. CASE ~(a <= b - 1)
      <4>1. a <= b => a = b
        BY <1>1, <3>4
      <4> QED  BY <3>1, <4>1
    <3> QED  BY <3>3, <3>4
  <2>3. \A b \in 0 .. N : b \in good
    <3> HIDE DEF good
    <3> QED  BY <1>1, <2>1, <2>2, UpTo
  <2> QED  BY <2>3
<1> QED  BY <1>3 DEF N

\* A place is that of one element.
LEMMA PlacesDiffer ==
  ASSUME NEW E, NEW seqs \in Pieces(E), NEW off, AreOffsets(off, seqs),
         NEW n \in 1 .. Len(seqs), NEW m \in 1 .. Len(seqs),
         NEW i \in 1 .. Len(seqs[n]), NEW j \in 1 .. Len(seqs[m]),
         off[n - 1] + i = off[m - 1] + j
  PROVE  n = m /\ i = j
<1>1. /\ seqs[n] \in Seq(E) /\ seqs[m] \in Seq(E)
      /\ Len(seqs) \in Nat /\ Len(seqs[n]) \in Nat /\ Len(seqs[m]) \in Nat
  BY PiecesAre
<1>2. /\ n - 1 \in 0 .. Len(seqs) /\ n \in 0 .. Len(seqs) /\ Len(seqs[n]) \in Nat
      /\ m - 1 \in 0 .. Len(seqs) /\ m \in 0 .. Len(seqs) /\ Len(seqs[m]) \in Nat
  BY <1>1
<1>3. /\ off[n - 1] \in Nat /\ off[n] \in Nat /\ off[n] = off[n - 1] + Len(seqs[n])
      /\ off[m - 1] \in Nat /\ off[m] \in Nat /\ off[m] = off[m - 1] + Len(seqs[m])
  BY <1>2 DEF AreOffsets
<1>4. /\ i \in Nat /\ i <= Len(seqs[n]) /\ i >= 1
      /\ j \in Nat /\ j <= Len(seqs[m]) /\ j >= 1
      /\ n \in Int /\ m \in Int
  BY <1>2
<1>5. n < m => off[n] <= off[m - 1]
  <2>1. n < m => n <= m - 1
    BY <1>4
  <2> QED  BY <1>2, <2>1, OffsetsGrow
<1>6. m < n => off[m] <= off[n - 1]
  <2>1. m < n => m <= n - 1
    BY <1>4
  <2> QED  BY <1>2, <2>1, OffsetsGrow
<1> DEFINE from == off[n - 1]
           to == off[n]
           len == Len(seqs[n])
           fromM == off[m - 1]
           toM == off[m]
           lenM == Len(seqs[m])
<1>7. /\ from \in Nat /\ to \in Nat /\ len \in Nat /\ to = from + len
      /\ fromM \in Nat /\ toM \in Nat /\ lenM \in Nat /\ toM = fromM + lenM
      /\ i \in Nat /\ i <= len /\ i >= 1 /\ j \in Nat /\ j <= lenM /\ j >= 1
      /\ from + i = fromM + j
      /\ n < m => to <= fromM
      /\ m < n => toM <= from
  BY <1>1, <1>3, <1>4, <1>5, <1>6
<1>8. n = m => from = fromM
  OBVIOUS
<1> HIDE DEF from, to, len, fromM, toM, lenM
<1>9. ~(n < m) /\ ~(m < n)
  BY <1>7
<1>10. n = m
  BY <1>4, <1>9
<1> QED  BY <1>7, <1>8, <1>10

\* The place of an element is in the stream, with the element.
LEMMA PlaceInView ==
  ASSUME NEW E, NEW seqs \in Pieces(E), NEW flat \in Seq(E), NEW off,
         IsView(flat, off, seqs),
         NEW n \in 1 .. Len(seqs), NEW j \in 1 .. Len(seqs[n])
  PROVE  /\ off[n - 1] \in Nat /\ off[n - 1] + j \in 1 .. Len(flat)
         /\ flat[off[n - 1] + j] = seqs[n][j]
<1>1. off[n - 1] + j \in 1 .. off[Len(seqs)] /\ flat[off[n - 1] + j] = seqs[n][j]
  BY DEF IsView, AreAt
<1>2. off[Len(seqs)] = Len(flat)
  BY DEF IsView
<1>3. n - 1 \in 0 .. Len(seqs)
  OBVIOUS
<1>4. off[n - 1] \in Nat
  BY <1>3 DEF IsView, AreOffsets
<1> QED  BY <1>1, <1>2, <1>4

\* Another sequence is read.
LEMMA ViewGrows ==
  ASSUME NEW E, NEW seqs \in Pieces(E), NEW flat \in Seq(E), NEW off,
         IsView(flat, off, seqs), NEW x \in Seq(E)
  PROVE  \E more : /\ IsView(flat \o x, more, Append(seqs, x))
                   /\ \A w \in 0 .. Len(seqs) : more[w] = off[w]
<1> DEFINE N == Len(seqs)
           L == Len(x)
           all == Append(seqs, x)
           longer == flat \o x
           more == [w \in 0 .. N + 1 |-> IF w = N + 1 THEN off[N] + L ELSE off[w]]
<1>1. N \in Nat /\ L \in Nat /\ Len(flat) \in Nat
  BY PiecesAre
<1>2. /\ all \in Pieces(E) /\ Len(all) = N + 1 /\ all[N + 1] = x
      /\ \A n \in 1 .. N : all[n] = seqs[n]
  BY OnePieceMore
<1>3. /\ off[0] = 0 /\ \A w \in 0 .. N : off[w] \in Nat
      /\ \A w \in 1 .. N : off[w] = off[w - 1] + Len(seqs[w])
      /\ Len(flat) = off[N]
  BY DEF IsView, AreOffsets
<1>4. /\ Len(longer) = off[N] + L
      /\ \A i \in 1 .. off[N] : longer[i] = flat[i]
      /\ \A j \in 1 .. L : longer[off[N] + j] = x[j]
  <2> HIDE DEF longer
  <2>1. longer = flat \o x
    BY DEF longer
  <2>2. /\ Len(longer) = Len(flat) + Len(x)
        /\ \A i \in 1 .. Len(flat) : longer[i] = flat[i]
        /\ \A j \in 1 .. Len(x) : longer[Len(flat) + j] = x[j]
    BY <2>1, ConcatenationIs
  <2>3. Len(flat) = off[N]
    BY <1>3
  <2> HIDE DEF N
  <2> QED  BY <2>2, <2>3
<1>5. /\ \A w \in 0 .. N : more[w] = off[w]
      /\ more[N + 1] = off[N] + L
      /\ more[N + 1] \in Nat /\ DOMAIN more = 0 .. N + 1
      /\ more = [w \in 0 .. N + 1 |-> more[w]]
  <2>1. N + 1 \in 0 .. N + 1 /\ \A w \in 0 .. N : w \in 0 .. N + 1 /\ w # N + 1
    BY <1>1
  <2>2. off[N] + L \in Nat
    <3>1. N \in 0 .. N
      BY <1>1
    <3> HIDE DEF N, L
    <3> QED  BY <1>1, <1>3, <3>1
  <2> HIDE DEF N, L
  <2> QED  BY <2>1, <2>2
<1> HIDE DEF more, longer, all, N, L
<1> DEFINE last == N + 1
<1>6. /\ last \in Nat /\ last # 0 /\ last - 1 = N /\ N \in 0 .. N
      /\ \A w \in 1 .. last : w # last => w \in 1 .. N /\ w - 1 \in 0 .. N /\ w \in 0 .. N
      /\ \A w \in 0 .. last : w # last => w \in 0 .. N
      /\ \A w \in 1 .. N : w \in 1 .. last
      /\ last \in 1 .. last
  BY <1>1
<1>7. /\ more[last] = off[N] + L /\ more[last - 1] = off[N] /\ off[N] \in Nat
      /\ all[last] = x /\ Len(all[last]) = L
  BY <1>2, <1>3, <1>5, <1>6 DEF L
<1>8. \A w \in 0 .. N + 1 : more[w] \in Nat
  BY <1>1, <1>3, <1>5, <1>6, <1>7
<1>9. ASSUME NEW w \in 1 .. N + 1
      PROVE  more[w] = more[w - 1] + Len(all[w])
  <2>1. CASE w = N + 1
    BY <1>7, <2>1
  <2>2. CASE w # N + 1
    <3>1. w \in 1 .. N /\ w \in 0 .. N /\ w - 1 \in 0 .. N
      BY <1>1, <2>2
    <3> QED  BY <1>2, <1>3, <1>5, <3>1
  <2> QED  BY <2>1, <2>2
<1>10. AreOffsets(more, all)
  <2>1. more \in [0 .. N + 1 -> Nat]
    BY <1>5, <1>8
  <2>2. more[0] = 0
    <3>1. 0 \in 0 .. N
      BY <1>1
    <3> QED  BY <1>3, <1>5, <3>1
  <2> QED  BY <1>2, <1>9, <2>1, <2>2 DEF AreOffsets
<1>11. off[N] \in Nat
  BY <1>1, <1>3
<1>12. AreAt(flat, off, seqs, N)
  BY DEF IsView, N
<1>13. ASSUME NEW w \in 1 .. N + 1, NEW j \in 1 .. Len(all[w])
       PROVE  more[w - 1] + j \in 1 .. more[N + 1] /\ longer[more[w - 1] + j] = all[w][j]
  <2>1. CASE w = N + 1
    <3>1. more[w - 1] = off[N] /\ all[w] = x /\ j \in 1 .. L
      BY <1>7, <2>1
    <3>2. off[N] + j \in 1 .. off[N] + L
      BY <1>1, <1>7, <3>1
    <3> QED  BY <1>4, <1>7, <3>1, <3>2
  <2>2. CASE w # N + 1
    <3>1. w \in 1 .. N /\ w - 1 \in 0 .. N
      BY <1>1, <2>2
    <3>2. all[w] = seqs[w] /\ more[w - 1] = off[w - 1]
      BY <1>2, <1>5, <3>1
    <3>3. off[w - 1] + j \in 1 .. off[N] /\ flat[off[w - 1] + j] = seqs[w][j]
      BY <1>12, <3>1, <3>2 DEF AreAt
    <3> DEFINE i == off[w - 1] + j
    <3>4. i \in 1 .. off[N] /\ flat[i] = seqs[w][j] /\ more[w - 1] + j = i
      BY <3>2, <3>3
    <3> HIDE DEF i
    <3>5. i \in 1 .. more[N + 1] /\ longer[i] = all[w][j]
      BY <1>1, <1>4, <1>5, <1>11, <3>2, <3>4
    <3> QED  BY <3>4, <3>5
  <2> QED  BY <2>1, <2>2
<1>14. ASSUME NEW i \in 1 .. more[N + 1]
       PROVE  \E w \in 1 .. N + 1 : \E j \in 1 .. Len(all[w]) : i = more[w - 1] + j
  <2>1. CASE i <= off[N]
    <3>1. i \in 1 .. off[N]
      BY <1>11, <2>1
    <3>2. PICK w \in 1 .. N : \E j \in 1 .. Len(seqs[w]) : i = off[w - 1] + j
      BY <1>12, <3>1 DEF AreAt
    <3>3. w \in 1 .. N + 1 /\ w - 1 \in 0 .. N
      BY <1>1
    <3>4. more[w - 1] = off[w - 1] /\ all[w] = seqs[w]
      BY <1>2, <1>5, <3>3
    <3> QED  BY <3>2, <3>3, <3>4
  <2>2. CASE ~(i <= off[N])
    <3>1. i - off[N] \in 1 .. L /\ i = off[N] + (i - off[N])
      BY <1>1, <1>7, <2>2
    <3>2. \E j \in 1 .. Len(all[last]) : i = more[last - 1] + j
      BY <1>7, <3>1
    <3> QED  BY <1>6, <3>2
  <2> QED  BY <2>1, <2>2
<1>15. AreAt(longer, more, all, N + 1)
  BY <1>13, <1>14 DEF AreAt
<1>16. IsView(longer, more, all)
  BY <1>2, <1>4, <1>5, <1>10, <1>15 DEF IsView
<1>17. \A w \in 0 .. Len(seqs) : more[w] = off[w]
  BY <1>5 DEF N
<1> QED  BY <1>16, <1>17 DEF longer, all

\* One entry is written.
LEMMA ViewChanges ==
  ASSUME NEW E, NEW seqs \in Pieces(E), NEW flat \in Seq(E), NEW off,
         IsView(flat, off, seqs),
         NEW n \in 1 .. Len(seqs), NEW i \in 1 .. Len(seqs[n]), NEW e \in E,
         NEW other \in Pieces(E), Len(other) = Len(seqs),
         \A m \in 1 .. Len(seqs) :
            /\ Len(other[m]) = Len(seqs[m])
            /\ \A j \in 1 .. Len(seqs[m]) :
                 other[m][j] = IF m = n /\ j = i THEN e ELSE seqs[m][j]
  PROVE  IsView([flat EXCEPT ![off[n - 1] + i] = e], off, other)
<1> DEFINE N == Len(seqs)
           p == off[n - 1] + i
           new == [flat EXCEPT ![p] = e]
<1>1. AreOffsets(off, seqs) /\ Len(flat) = off[N] /\ AreAt(flat, off, seqs, N)
  BY DEF IsView
<1>2. AreOffsets(off, other)
  BY <1>1 DEF AreOffsets
<1>3. p \in 1 .. Len(flat)
  BY PlaceInView
<1>4. Len(flat) \in Nat
  OBVIOUS
<1>5. Len(new) = Len(flat) /\ \A w \in 1 .. Len(flat) : new[w] = IF w = p THEN e ELSE flat[w]
  <2> HIDE DEF p
  <2> QED  BY <1>3, <1>4
<1> HIDE DEF new
<1>6. ASSUME NEW m \in 1 .. N, NEW j \in 1 .. Len(other[m])
      PROVE  off[m - 1] + j \in 1 .. off[N] /\ new[off[m - 1] + j] = other[m][j]
  <2>1. j \in 1 .. Len(seqs[m])
    OBVIOUS
  <2> DEFINE q == off[m - 1] + j
  <2>2. q \in 1 .. off[N] /\ flat[q] = seqs[m][j]
    BY <1>1, <2>1 DEF AreAt
  <2>3. q = p <=> (m = n /\ j = i)
    <3>1. ASSUME q = p
          PROVE  m = n /\ j = i
      <4>1. AreOffsets(off, seqs) /\ m \in 1 .. Len(seqs) /\ off[n - 1] + i = off[m - 1] + j
        BY <1>1, <3>1
      <4> QED  BY <2>1, <4>1, PlacesDiffer
    <3>2. (m = n /\ j = i) => q = p
      OBVIOUS
    <3> HIDE DEF q, p
    <3> QED  BY <3>1, <3>2
  <2>4. other[m][j] = IF m = n /\ j = i THEN e ELSE seqs[m][j]
    BY <2>1
  <2> HIDE DEF q, p
  <2>5. new[q] = IF q = p THEN e ELSE flat[q]
    BY <1>1, <1>5, <2>2
  <2> QED  BY <2>2, <2>3, <2>4, <2>5 DEF q
<1>7. ASSUME NEW w \in 1 .. off[N]
      PROVE  \E m \in 1 .. N : \E j \in 1 .. Len(other[m]) : w = off[m - 1] + j
  <2>1. PICK m \in 1 .. N : \E j \in 1 .. Len(seqs[m]) : w = off[m - 1] + j
    BY <1>1 DEF AreAt
  <2>2. Len(other[m]) = Len(seqs[m])
    OBVIOUS
  <2> QED  BY <2>1, <2>2
<1>8. AreAt(new, off, other, N)
  BY <1>6, <1>7 DEF AreAt
<1> QED  BY <1>1, <1>2, <1>5, <1>8 DEF IsView, new, p

\* The last sequence goes out up to an entry, and the stream is as long.
IsCutShort(out, seqs, len) ==
  /\ Len(out) = Len(seqs)
  /\ \A m \in 1 .. Len(seqs) :
       /\ Len(out[m]) = IF m = Len(seqs) THEN len ELSE Len(seqs[m])
       /\ \A j \in 1 .. Len(out[m]) : out[m][j] = seqs[m][j]

LEMMA ViewStops ==
  ASSUME NEW E, NEW seqs \in Pieces(E), NEW flat \in Seq(E), NEW off,
         IsView(flat, off, seqs), Len(seqs) > 0,
         NEW len \in Nat, len <= Len(seqs[Len(seqs)]),
         NEW out \in Pieces(E), IsCutShort(out, seqs, len)
  PROVE  FlattenSeq(out) = SubSeq(flat, 1, off[Len(seqs) - 1] + len)
<1> USE DEF IsCutShort
<1> DEFINE N == Len(seqs)
           end == off[N - 1] + len
           F == FlattenSeq(out)
<1>1. N \in Nat /\ N > 0 /\ \A m \in 1 .. N : Len(seqs[m]) \in Nat
  BY PiecesAre
<1>2. /\ AreOffsets(off, seqs) /\ Len(flat) = off[N] /\ AreAt(flat, off, seqs, N)
      /\ off[0] = 0 /\ \A w \in 0 .. N : off[w] \in Nat
      /\ \A w \in 1 .. N : off[w] = off[w - 1] + Len(seqs[w])
  BY DEF IsView, AreOffsets
<1>3. PICK o : /\ AreOffsets(o, out) /\ F \in Seq(E) /\ Len(F) = o[N] /\ AreAt(F, o, out, N)
  <2>1. out \in Seq(Seq(E))
    BY DEF Pieces
  <2> QED  BY <2>1, FlattenedAt
<1>4. /\ o[0] = 0 /\ \A w \in 0 .. N : o[w] \in Nat
      /\ \A w \in 1 .. N : o[w] = o[w - 1] + Len(out[w])
  BY <1>3 DEF AreOffsets
<1> HIDE DEF N, F
<1>5. \A w \in 0 .. N : w < N => o[w] = off[w]
  <2> DEFINE good == {w \in 0 .. N : w < N => o[w] = off[w]}
  <2>1. 0 \in good
    BY <1>1, <1>2, <1>4
  <2>2. ASSUME NEW w \in 1 .. N, w - 1 \in good
        PROVE  w \in good
    <3>1. w < N => o[w - 1] = off[w - 1] /\ Len(out[w]) = Len(seqs[w])
      <4>1. w < N => w - 1 < N /\ w # N
        BY <1>1
      <4> QED  BY <2>2, <4>1 DEF N
    <3>2. w < N => o[w] = off[w]
      BY <1>2, <1>4, <3>1
    <3> QED  BY <1>1, <3>2
  <2>3. \A w \in 0 .. N : w \in good
    <3> HIDE DEF good
    <3> QED  BY <1>1, <2>1, <2>2, UpTo
  <2> QED  BY <2>3
<1>6. o[N - 1] = off[N - 1] /\ N - 1 \in 0 .. N /\ off[N - 1] \in Nat
  <2> DEFINE n == N - 1
  <2>1. n \in 0 .. N /\ n < N
    BY <1>1
  <2> HIDE DEF n
  <2>2. o[n] = off[n] /\ off[n] \in Nat
    BY <1>2, <1>5, <2>1
  <2> QED  BY <2>1, <2>2 DEF n
<1>7. o[N] = end
  <2>1. N \in 1 .. N
    BY <1>1
  <2>2. Len(out[N]) = len
    BY <2>1 DEF N
  <2> QED  BY <1>4, <1>6, <2>1, <2>2
<1>8. end \in Nat /\ end <= Len(flat) /\ Len(flat) \in Nat
  <2>1. N \in 1 .. N /\ N \in 0 .. N
    BY <1>1
  <2>2. off[N] = off[N - 1] + Len(seqs[N]) /\ Len(seqs[N]) \in Nat
    BY <1>1, <1>2, <2>1
  <2>3. len <= Len(seqs[N])
    BY DEF N
  <2> QED  BY <1>2, <1>6, <2>2, <2>3
<1>9. ASSUME NEW i \in 1 .. end
      PROVE  F[i] = flat[i]
  <2>1. PICK w \in 1 .. N : \E j \in 1 .. Len(out[w]) : i = o[w - 1] + j
    <3>1. i \in 1 .. o[N]
      BY <1>7
    <3> HIDE DEF end
    <3> QED  BY <1>3, <3>1 DEF AreAt
  <2>2. PICK j \in 1 .. Len(out[w]) : i = o[w - 1] + j
    BY <2>1
  <2>3. F[i] = out[w][j]
    BY <1>3, <2>2 DEF AreAt
  <2>4. o[w - 1] = off[w - 1]
    BY <1>1, <1>5
  <2>5. j \in 1 .. Len(seqs[w])
    <3>1. Len(out[w]) <= Len(seqs[w]) /\ Len(out[w]) \in Nat /\ Len(seqs[w]) \in Nat
      <4>1. Len(seqs[w]) \in Nat
        BY <1>1
      <4>2. Len(out[w]) = IF w = N THEN len ELSE Len(seqs[w])
        BY DEF N
      <4>3. len <= Len(seqs[N])
        BY DEF N
      <4> QED  BY <4>1, <4>2, <4>3
    <3> QED  BY <3>1
  <2>6. flat[off[w - 1] + j] = seqs[w][j]
    BY <1>2, <2>5 DEF AreAt
  <2>7. out[w][j] = seqs[w][j]
    BY DEF N
  <2> QED  BY <2>2, <2>3, <2>4, <2>6, <2>7
<1> HIDE DEF end
<1>10. F = SubSeq(flat, 1, end)
  <2>1. F \in Seq(E) /\ Len(F) = end
    BY <1>3, <1>7
  <2>2. SubSeq(flat, 1, end) = [i \in 1 .. end |-> flat[i]]
    BY <1>8
  <2>3. F = [i \in 1 .. end |-> F[i]]
    BY <1>8, <2>1
  <2> QED  BY <1>9, <2>2, <2>3
<1> QED  BY <1>10 DEF F, end, N

LEMMA PiecesEqual ==
  ASSUME NEW E, NEW a \in Pieces(E), NEW b \in Pieces(E), Len(a) = Len(b),
         \A n \in 1 .. Len(a) : a[n] = b[n]
  PROVE  a = b
<1> DEFINE X == Seq(E)
<1>1. a \in Seq(X) /\ b \in Seq(X)
  BY DEF Pieces
<1> HIDE DEF X
<1>2. a = [n \in 1 .. Len(a) |-> a[n]] /\ b = [n \in 1 .. Len(a) |-> b[n]]
  BY <1>1
<1> QED  BY <1>2

\* Two sequences of pieces, one after the other.
AreTogether(E, ab, a, b) ==
  /\ ab \in Pieces(E) /\ Len(ab) = Len(a) + Len(b)
  /\ \A n \in 1 .. Len(a) : ab[n] = a[n]
  /\ \A n \in 1 .. Len(b) : ab[Len(a) + n] = b[n]

LEMMA PiecesTogether ==
  ASSUME NEW E, NEW a \in Pieces(E), NEW b \in Pieces(E), NEW ab, ab = a \o b
  PROVE  AreTogether(E, ab, a, b)
<1> DEFINE X == Seq(E)
<1>1. a \in Seq(X) /\ b \in Seq(X)
  BY DEF Pieces
<1> HIDE DEF X
<1>2. ab \in Seq(X)
  BY <1>1
<1>3. /\ Len(ab) = Len(a) + Len(b)
      /\ \A n \in 1 .. Len(a) : ab[n] = a[n]
      /\ \A n \in 1 .. Len(b) : ab[Len(a) + n] = b[n]
  BY <1>1, ConcatenationIs
<1> QED  BY <1>2, <1>3 DEF X, Pieces, AreTogether

\* What went out, then what is in the blocks.
IsHeld(E, h, out, mem, blocks) ==
  /\ h \in Pieces(E)
  /\ Len(h) = Len(out) + Len(blocks)
  /\ \A n \in 1 .. Len(out) : h[n] = out[n]
  /\ \A n \in 1 .. Len(blocks) : h[Len(out) + n] = BlockContents(mem, blocks[n])

LEMMA HeldIs ==
  ASSUME NEW E, StreamsOf(E), NEW out \in Pieces(E), NEW mem \in [1 .. LastCell -> E],
         NEW blocks \in Seq(StreamBlocks)
  PROVE  IsHeld(E, HeldBack(out, mem, blocks), out, mem, blocks)
<1> DEFINE c == StreamContents(mem, blocks)
           h == HeldBack(out, mem, blocks)
<1>1. /\ c \in Pieces(E) /\ Len(c) = Len(blocks)
      /\ \A n \in 1 .. Len(blocks) : c[n] = BlockContents(mem, blocks[n])
  BY ContentsIs
<1>2. h = out \o c
  BY DEF HeldBack
<1> HIDE DEF c, h
<1>3. AreTogether(E, h, out, c)
  BY <1>1, <1>2, PiecesTogether
<1>4. IsHeld(E, h, out, mem, blocks)
  BY <1>1, <1>3 DEF AreTogether, IsHeld
<1> QED  BY <1>4 DEF h

\* What is where a kept block is, in the memory and in the stream.
IsHeldBlock(h, out, mem, blocks, n) ==
  /\ Len(out) + n \in 1 .. Len(h)
  /\ Len(h[Len(out) + n]) = blocks[n].valid
  /\ \A j \in 1 .. blocks[n].valid :
       /\ blocks[n].start + j - 1 \in 1 .. LastCell
       /\ h[Len(out) + n][j] = mem[blocks[n].start + j - 1]

LEMMA HeldBlock ==
  ASSUME NEW E, StreamsOf(E), NEW out \in Pieces(E), NEW mem \in [1 .. LastCell -> E],
         NEW blocks \in Seq(StreamBlocks), NEW n \in 1 .. Len(blocks)
  PROVE  IsHeldBlock(HeldBack(out, mem, blocks), out, mem, blocks, n)
<1>1. blocks[n] \in StreamBlocks
  OBVIOUS
<1>2. /\ Len(HeldBack(out, mem, blocks)) = Len(out) + Len(blocks)
      /\ HeldBack(out, mem, blocks)[Len(out) + n] = BlockContents(mem, blocks[n])
  BY HeldIs DEF IsHeld
<1>3. Len(out) \in Nat
  BY PiecesAre
<1>4. Len(out) + n \in 1 .. Len(out) + Len(blocks)
  BY <1>3
<1>5. /\ Len(BlockContents(mem, blocks[n])) = blocks[n].valid
      /\ \A j \in 1 .. blocks[n].valid :
           /\ blocks[n].start + j - 1 \in 1 .. LastCell
           /\ BlockContents(mem, blocks[n])[j] = mem[blocks[n].start + j - 1]
  BY <1>1, BlockContentsIs
<1>6. Len(out) + n \in 1 .. Len(HeldBack(out, mem, blocks))
  BY <1>2, <1>4
<1> QED  BY <1>2, <1>5, <1>6 DEF IsHeldBlock

\* The first n blocks go out, and all that was read is as before.
FlushesTo(E, out, mem, blocks, n, gone, rest) ==
  /\ gone \in Pieces(E) /\ Len(gone) = Len(out) + n
  /\ rest \in Seq(StreamBlocks) /\ Len(rest) = Len(blocks) - n
  /\ \A i \in 1 .. Len(rest) : n + i \in 1 .. Len(blocks) /\ rest[i] = blocks[n + i]
  /\ HeldBack(gone, mem, rest) = HeldBack(out, mem, blocks)

LEMMA FlushKeeps ==
  ASSUME NEW E, StreamsOf(E), NEW out \in Pieces(E), NEW mem \in [1 .. LastCell -> E],
         NEW blocks \in Seq(StreamBlocks), NEW n \in 0 .. Len(blocks),
         NEW gone, gone = out \o [b \in 1 .. n |-> BlockContents(mem, blocks[b])],
         NEW rest, rest = SubSeq(blocks, n + 1, Len(blocks))
  PROVE  FlushesTo(E, out, mem, blocks, n, gone, rest)
<1> DEFINE c == [b \in 1 .. n |-> BlockContents(mem, blocks[b])]
           X == Seq(E)
           L == Len(blocks)
           O == Len(out)
<1>1. L \in Nat /\ n \in Nat /\ n <= L /\ O \in Nat
  BY PiecesAre
<1>2. \A b \in 1 .. L : blocks[b] \in StreamBlocks
  OBVIOUS
<1>3. \A b \in 1 .. L : BlockContents(mem, blocks[b]) \in X
  BY <1>2, BlockContentsIs
<1> HIDE DEF X, L, O
<1>4. c \in Pieces(E) /\ Len(c) = n /\ \A b \in 1 .. n : c[b] = BlockContents(mem, blocks[b])
  <2>1. \A b \in 1 .. n : BlockContents(mem, blocks[b]) \in X
    BY <1>1, <1>3
  <2>2. c \in Seq(X) /\ Len(c) = n /\ \A b \in 1 .. n : c[b] = BlockContents(mem, blocks[b])
    BY <1>1, <2>1
  <2> QED  BY <2>2 DEF X, Pieces
<1> HIDE DEF c
<1>5. gone = out \o c
  BY DEF c
<1>6. /\ gone \in Pieces(E) /\ Len(gone) = O + n
      /\ \A m \in 1 .. O : gone[m] = out[m]
      /\ \A m \in 1 .. n : gone[O + m] = c[m]
  <2>1. AreTogether(E, gone, out, c)
    BY <1>4, <1>5, PiecesTogether
  <2> QED  BY <1>4, <2>1 DEF O, AreTogether
<1>7. /\ rest \in Seq(StreamBlocks) /\ Len(rest) = L - n
      /\ \A i \in 1 .. L - n : n + i \in 1 .. L /\ rest[i] = blocks[n + i]
  <2> DEFINE from == n + 1
  <2>1. from \in Int /\ L \in Int /\ \A i \in from .. L : blocks[i] \in StreamBlocks
    BY <1>1, <1>2
  <2>2. rest = SubSeq(blocks, from, L)
    BY DEF L
  <2>3. (IF from <= L THEN L - from + 1 ELSE 0) = L - n
    BY <1>1
  <2>4. \A i \in 1 .. L - n : i \in 1 .. L - from + 1 /\ from + i - 1 = n + i /\ n + i \in 1 .. L
    BY <1>1
  <2> HIDE DEF from
  <2>5. /\ SubSeq(blocks, from, L) \in Seq(StreamBlocks)
        /\ Len(SubSeq(blocks, from, L)) = IF from <= L THEN L - from + 1 ELSE 0
        /\ \A i \in 1 .. L - from + 1 : SubSeq(blocks, from, L)[i] = blocks[from + i - 1]
    BY <2>1, SubSeqProperties
  <2> QED  BY <2>2, <2>3, <2>4, <2>5
<1> DEFINE h == HeldBack(out, mem, blocks)
           g == HeldBack(gone, mem, rest)
<1>8. /\ h \in Pieces(E) /\ Len(h) = O + L
      /\ \A m \in 1 .. O : h[m] = out[m]
      /\ \A m \in 1 .. L : h[O + m] = BlockContents(mem, blocks[m])
  <2>1. IsHeld(E, h, out, mem, blocks)
    BY HeldIs
  <2> HIDE DEF h
  <2> QED  BY <2>1 DEF O, L, IsHeld
<1>9. /\ g \in Pieces(E) /\ Len(g) = O + n + (L - n)
      /\ \A m \in 1 .. O + n : g[m] = gone[m]
      /\ \A m \in 1 .. L - n : g[O + n + m] = BlockContents(mem, rest[m])
  <2>1. IsHeld(E, g, gone, mem, rest)
    <3>1. gone \in Pieces(E) /\ rest \in Seq(StreamBlocks)
      BY <1>6, <1>7
    <3> QED  BY <3>1, HeldIs
  <2> HIDE DEF g
  <2> QED  BY <1>6, <1>7, <2>1 DEF IsHeld
<1> HIDE DEF g, h
<1>10. ASSUME NEW m \in 1 .. O + L
       PROVE  g[m] = h[m]
  <2>1. CASE m <= O
    <3>1. m \in 1 .. O /\ m \in 1 .. O + n
      BY <1>1, <2>1
    <3> QED  BY <1>6, <1>8, <1>9, <3>1
  <2>2. CASE O < m /\ m <= O + n
    <3> DEFINE b == m - O
    <3>1. b \in 1 .. n /\ b \in 1 .. L /\ m = O + b /\ m \in 1 .. O + n
      BY <1>1, <2>2
    <3> HIDE DEF b
    <3>2. g[m] = gone[m] /\ gone[O + b] = c[b] /\ c[b] = BlockContents(mem, blocks[b])
      BY <1>4, <1>6, <1>9, <3>1
    <3>3. h[O + b] = BlockContents(mem, blocks[b])
      BY <1>8, <3>1
    <3> QED  BY <3>1, <3>2, <3>3
  <2>3. CASE O + n < m
    <3> DEFINE b == m - O - n
    <3>1. b \in 1 .. L - n /\ m = O + n + b /\ m = O + (n + b) /\ n + b \in 1 .. L
      BY <1>1, <2>3
    <3> HIDE DEF b
    <3>2. g[m] = BlockContents(mem, rest[b]) /\ rest[b] = blocks[n + b]
      BY <1>7, <1>9, <3>1
    <3>3. h[m] = BlockContents(mem, blocks[n + b])
      BY <1>8, <3>1
    <3> QED  BY <3>2, <3>3
  <2> QED  BY <1>1, <2>1, <2>2, <2>3
<1>11. Len(g) = Len(h) /\ Len(h) = O + L
  BY <1>1, <1>8, <1>9
<1>12. g = h
  BY <1>8, <1>9, <1>10, <1>11, PiecesEqual
<1> QED  BY <1>6, <1>7, <1>12 DEF g, h, O, L, FlushesTo

\* Entries outside of the blocks do not matter.
LEMMA StreamContentsStay ==
  ASSUME NEW E, StreamsOf(E), NEW out \in Pieces(E), NEW mem \in [1 .. LastCell -> E],
         NEW other \in [1 .. LastCell -> E], NEW blocks \in Seq(StreamBlocks),
         \A n \in 1 .. Len(blocks) : \A a \in Nat : IsIn(a, blocks[n]) => other[a] = mem[a]
  PROVE  HeldBack(out, other, blocks) = HeldBack(out, mem, blocks)
<1>1. ASSUME NEW n \in 1 .. Len(blocks)
      PROVE  BlockContents(other, blocks[n]) = BlockContents(mem, blocks[n])
  <2> DEFINE b == blocks[n]
             c == BlockContents(mem, b)
             d == BlockContents(other, b)
  <2>1. b \in StreamBlocks
    OBVIOUS
  <2>2. /\ b.start \in Nat \ {0} /\ b.valid \in Nat /\ EndOf(b) = b.start + b.valid
    BY <2>1, BlockIs
  <2>3. /\ c \in Seq(E) /\ Len(c) = b.valid /\ d \in Seq(E) /\ Len(d) = b.valid
        /\ \A j \in 1 .. b.valid : c[j] = mem[b.start + j - 1] /\ d[j] = other[b.start + j - 1]
    BY <2>1, BlockContentsIs
  <2>4. ASSUME NEW j \in 1 .. b.valid
        PROVE  c[j] = d[j]
    <3> DEFINE a == b.start + j - 1
    <3>1. a \in Nat /\ b.start <= a /\ a < EndOf(b)
      <4> HIDE DEF b
      <4> QED  BY <2>2
    <3>2. IsIn(a, b)
      <4> HIDE DEF a, b
      <4> QED  BY <3>1 DEF IsIn
    <3>3. other[a] = mem[a]
      <4> HIDE DEF a
      <4> QED  BY <3>1, <3>2
    <3> QED  BY <2>3, <3>3
  <2> HIDE DEF b, c, d
  <2>5. c = [j \in 1 .. b.valid |-> c[j]] /\ d = [j \in 1 .. b.valid |-> d[j]]
    BY <2>3
  <2>6. c = d
    BY <2>4, <2>5
  <2> QED  BY <2>6 DEF b, c, d
<1>2. StreamContents(other, blocks) = StreamContents(mem, blocks)
  BY <1>1 DEF StreamContents
<1> QED  BY <1>2 DEF HeldBack

-----------------------------------------------------------------------------
(* Where the blocks are *)

\* No block of a queue begins there.
AwayFrom(q, start) == \A i \in 1 .. Len(q) : q[i].start = start => start = 0

LEMMA AwayBoth == ASSUME NEW q, NEW u, Away(q, u) PROVE Away(u, q)
BY DEF Away

LEMMA BlocksAreQueued ==
  ASSUME NEW q \in Seq(StreamBlocks)
  PROVE  q \in Seq(Queued)
<1>1. StreamBlocks \subseteq Queued
  BY DEF Queued
<1> QED  BY <1>1

LEMMA AppendIsApart ==
  ASSUME NEW T, NEW q \in Seq(T), NEW b \in T
  PROVE  /\ Append(q, b) \in Seq(T) /\ Len(Append(q, b)) = Len(q) + 1
         /\ Once(q) /\ AwayFrom(q, b.start) => Once(Append(q, b))
         /\ \A u : Away(q, u) /\ AwayFrom(u, b.start) => Away(Append(q, b), u)
<1> DEFINE N == Len(q)
           more == Append(q, b)
<1>1. /\ more \in Seq(T) /\ Len(more) = N + 1 /\ more[N + 1] = b /\ N \in Nat
      /\ \A i \in 1 .. N : more[i] = q[i]
  OBVIOUS
<1>2. \A i \in 1 .. N + 1 : i \in 1 .. N \/ i = N + 1
  BY <1>1
<1> HIDE DEF more
<1>3. ASSUME Once(q), AwayFrom(q, b.start),
             NEW i \in 1 .. N + 1, NEW j \in 1 .. N + 1,
             more[i].start = more[j].start, more[i].start # 0
      PROVE  i = j
  <2>1. CASE i \in 1 .. N /\ j \in 1 .. N
    BY <1>1, <1>3, <2>1 DEF Once
  <2>2. CASE i \in 1 .. N /\ j = N + 1
    <3>1. more[i] = q[i] /\ more[j] = b
      BY <1>1, <2>2
    <3> QED  BY <1>3, <2>2, <3>1 DEF AwayFrom
  <2>3. CASE j \in 1 .. N /\ i = N + 1
    <3>1. more[j] = q[j] /\ more[i] = b
      BY <1>1, <2>3
    <3> QED  BY <1>3, <2>3, <3>1 DEF AwayFrom
  <2> QED  BY <1>2, <2>1, <2>2, <2>3
<1>4. Once(q) /\ AwayFrom(q, b.start) => Once(more)
  BY <1>1, <1>3 DEF Once
<1>5. ASSUME NEW u, Away(q, u), AwayFrom(u, b.start),
             NEW i \in 1 .. N + 1, NEW j \in 1 .. Len(u), more[i].start = u[j].start
      PROVE  more[i].start = 0
  <2>1. CASE i \in 1 .. N
    <3>1. more[i] = q[i]
      BY <1>1, <2>1
    <3> QED  BY <1>5, <2>1, <3>1 DEF Away
  <2>2. CASE i = N + 1
    <3>1. more[i] = b
      BY <1>1, <2>2
    <3> QED  BY <1>5, <3>1 DEF AwayFrom
  <2> QED  BY <1>2, <2>1, <2>2
<1>6. \A u : Away(q, u) /\ AwayFrom(u, b.start) => Away(more, u)
  BY <1>1, <1>5 DEF Away
<1> QED  BY <1>1, <1>4, <1>6 DEF more

LEMMA TailIsApart ==
  ASSUME NEW T, NEW q \in Seq(T), q # <<>>
  PROVE  /\ Tail(q) \in Seq(T) /\ Len(Tail(q)) = Len(q) - 1 /\ Head(q) \in T
         /\ Once(q) => Once(Tail(q)) /\ AwayFrom(Tail(q), Head(q).start)
         /\ \A u : Away(q, u) => Away(Tail(q), u) /\ AwayFrom(u, Head(q).start)
<1> DEFINE N == Len(q)
           rest == Tail(q)
           first == Head(q)
<1>1. /\ rest \in Seq(T) /\ N \in Nat /\ N > 0 /\ Len(rest) = N - 1
      /\ first \in T /\ first = q[1]
      /\ \A i \in 1 .. N - 1 : rest[i] = q[i + 1]
  OBVIOUS
<1>2. \A i \in 1 .. N - 1 : i + 1 \in 1 .. N /\ i + 1 # 1
  BY <1>1
<1>3. 1 \in 1 .. N
  BY <1>1
<1> HIDE DEF N, rest, first
<1>4. ASSUME Once(q), NEW i \in 1 .. N - 1, NEW j \in 1 .. N - 1,
             rest[i].start = rest[j].start, rest[i].start # 0
      PROVE  i = j
  <2>1. i + 1 = j + 1
    BY <1>1, <1>2, <1>4 DEF Once, N
  <2> QED  BY <1>1, <2>1
<1>5. ASSUME Once(q), NEW i \in 1 .. N - 1, rest[i].start = first.start
      PROVE  first.start = 0
  BY <1>1, <1>2, <1>3, <1>5 DEF Once, N
<1>6. Once(q) => Once(rest) /\ AwayFrom(rest, first.start)
  BY <1>1, <1>4, <1>5 DEF Once, AwayFrom
<1>7. ASSUME NEW u, Away(q, u)
      PROVE  Away(rest, u) /\ AwayFrom(u, first.start)
  <2>1. Away(rest, u)
    BY <1>1, <1>2, <1>7 DEF Away, N
  <2>2. AwayFrom(u, first.start)
    BY <1>1, <1>3, <1>7 DEF Away, AwayFrom, N
  <2> QED  BY <2>1, <2>2
<1> QED  BY <1>1, <1>6, <1>7 DEF N, rest, first

\* The first n of a queue, and the others.
IsSplit(T, q, n, front, rest) ==
  /\ front \in Seq(T) /\ Len(front) = n
  /\ rest \in Seq(T) /\ Len(rest) = Len(q) - n
  /\ Once(q) => Once(front) /\ Once(rest) /\ Away(front, rest)
  /\ \A u : Away(q, u) => Away(front, u) /\ Away(rest, u)

LEMMA SplitIsApart ==
  ASSUME NEW T, NEW q \in Seq(T), NEW n \in 0 .. Len(q),
         NEW front, front = SubSeq(q, 1, n), NEW rest, rest = SubSeq(q, n + 1, Len(q))
  PROVE  IsSplit(T, q, n, front, rest)
<1> DEFINE N == Len(q)
           from == n + 1
<1>1. /\ n \in Nat /\ N \in Nat /\ n <= N /\ from = n + 1 /\ from \in Int
      /\ \A i \in 1 .. n : i \in 1 .. N /\ 1 + i - 1 = i
      /\ \A i \in 1 .. N - n : /\ n + i \in 1 .. N /\ i \in 1 .. N - from + 1
                               /\ from + i - 1 = n + i /\ n + i > n
      /\ \A i \in 1 .. N : q[i] \in T
  OBVIOUS
<1>2. \A i \in from .. N : q[i] \in T
  BY <1>1
<1>3. \A i \in 1 .. n : q[i] \in T
  BY <1>1
<1>4. rest = SubSeq(q, from, N)
  OBVIOUS
<1> HIDE DEF N, from
<1>5. /\ front \in Seq(T) /\ Len(front) = n /\ \A i \in 1 .. n : front[i] = q[i]
  <2>1. /\ front \in Seq(T) /\ Len(front) = (IF 1 <= n THEN n - 1 + 1 ELSE 0)
        /\ \A i \in 1 .. n - 1 + 1 : front[i] = q[1 + i - 1]
    BY <1>1, <1>3, SubSeqProperties
  <2>2. n - 1 + 1 = n /\ (IF 1 <= n THEN n - 1 + 1 ELSE 0) = n
    BY <1>1
  <2> QED  BY <1>1, <2>1, <2>2
<1>6. /\ rest \in Seq(T) /\ Len(rest) = N - n /\ \A i \in 1 .. N - n : rest[i] = q[n + i]
  <2>1. /\ rest \in Seq(T) /\ Len(rest) = (IF from <= N THEN N - from + 1 ELSE 0)
        /\ \A i \in 1 .. N - from + 1 : rest[i] = q[from + i - 1]
    BY <1>1, <1>2, <1>4, SubSeqProperties
  <2>2. (IF from <= N THEN N - from + 1 ELSE 0) = N - n
    BY <1>1
  <2> QED  BY <1>1, <2>1, <2>2
<1>7. ASSUME Once(q)
      PROVE  Once(front) /\ Once(rest) /\ Away(front, rest)
  <2>1. \A i, j \in 1 .. N : q[i].start = q[j].start /\ q[i].start # 0 => i = j
    BY <1>7 DEF Once, N
  <2>2. Once(front)
    BY <1>1, <1>5, <2>1 DEF Once
  <2>3. ASSUME NEW i \in 1 .. N - n, NEW j \in 1 .. N - n,
               rest[i].start = rest[j].start, rest[i].start # 0
        PROVE  i = j
    <3>1. n + i = n + j
      BY <1>1, <1>6, <2>1, <2>3
    <3> QED  BY <1>1, <3>1
  <2>4. Once(rest)
    BY <1>6, <2>3 DEF Once
  <2>5. ASSUME NEW i \in 1 .. n, NEW j \in 1 .. N - n, front[i].start = rest[j].start
        PROVE  front[i].start = 0
    <3>1. i # n + j /\ i \in 1 .. N /\ n + j \in 1 .. N
      BY <1>1
    <3>2. q[i].start = q[n + j].start
      BY <1>5, <1>6, <2>5
    <3> QED  BY <1>5, <2>1, <3>1, <3>2
  <2>6. Away(front, rest)
    BY <1>5, <1>6, <2>5 DEF Away
  <2> QED  BY <2>2, <2>4, <2>6
<1>8. ASSUME NEW u, Away(q, u)
      PROVE  Away(front, u) /\ Away(rest, u)
  <2>1. Away(front, u)
    BY <1>1, <1>5, <1>8 DEF Away, N
  <2>2. Away(rest, u)
    BY <1>1, <1>6, <1>8 DEF Away, N
  <2> QED  BY <2>1, <2>2
<1> QED  BY <1>5, <1>6, <1>7, <1>8 DEF N, IsSplit

LEMMA JoinIsApart ==
  ASSUME NEW T, NEW q \in Seq(T), NEW p \in Seq(T), NEW both, both = q \o p
  PROVE  /\ both \in Seq(T) /\ Len(both) = Len(q) + Len(p)
         /\ Once(q) /\ Once(p) /\ Away(q, p) => Once(both)
         /\ \A u : Away(q, u) /\ Away(p, u) => Away(both, u)
<1> DEFINE N == Len(q)
           M == Len(p)
<1>1. N \in Nat /\ M \in Nat /\ both \in Seq(T)
  OBVIOUS
<1>2. /\ Len(both) = N + M
      /\ \A i \in 1 .. N : both[i] = q[i]
      /\ \A i \in 1 .. M : both[N + i] = p[i]
  BY ConcatenationIs
<1> HIDE DEF N, M
<1>3. ASSUME NEW i \in 1 .. N + M
      PROVE  \/ i \in 1 .. N /\ both[i] = q[i]
             \/ \E w \in 1 .. M : i = N + w /\ both[i] = p[w]
  <2>1. CASE i <= N
    <3>1. i \in 1 .. N
      BY <1>1, <2>1
    <3> QED  BY <1>2, <3>1
  <2>2. CASE ~(i <= N)
    <3> DEFINE w == i - N
    <3>1. w \in 1 .. M /\ i = N + w
      BY <1>1, <2>2
    <3> HIDE DEF w
    <3> QED  BY <1>2, <3>1
  <2> QED  BY <2>1, <2>2
<1>4. ASSUME Once(q), Once(p), Away(q, p),
             NEW i \in 1 .. N + M, NEW j \in 1 .. N + M,
             both[i].start = both[j].start, both[i].start # 0
      PROVE  i = j
  <2>1. CASE i \in 1 .. N /\ both[i] = q[i] /\ j \in 1 .. N /\ both[j] = q[j]
    BY <1>4, <2>1 DEF Once, N
  <2>2. CASE /\ i \in 1 .. N /\ both[i] = q[i]
             /\ \E w \in 1 .. M : j = N + w /\ both[j] = p[w]
    BY <1>4, <2>2 DEF Away, N, M
  <2>3. CASE /\ j \in 1 .. N /\ both[j] = q[j]
             /\ \E w \in 1 .. M : i = N + w /\ both[i] = p[w]
    BY <1>4, <2>3 DEF Away, N, M
  <2>4. CASE /\ \E w \in 1 .. M : i = N + w /\ both[i] = p[w]
             /\ \E w \in 1 .. M : j = N + w /\ both[j] = p[w]
    <3>1. PICK w \in 1 .. M : i = N + w /\ both[i] = p[w]
      BY <2>4
    <3>2. PICK m \in 1 .. M : j = N + m /\ both[j] = p[m]
      BY <2>4
    <3>3. w = m
      BY <1>4, <3>1, <3>2 DEF Once, M
    <3> QED  BY <3>1, <3>2, <3>3
  <2> QED  BY <1>3, <2>1, <2>2, <2>3, <2>4
<1>5. Once(q) /\ Once(p) /\ Away(q, p) => Once(both)
  BY <1>2, <1>4 DEF Once
<1>6. ASSUME NEW u, Away(q, u), Away(p, u),
             NEW i \in 1 .. N + M, NEW j \in 1 .. Len(u), both[i].start = u[j].start
      PROVE  both[i].start = 0
  <2>1. CASE i \in 1 .. N /\ both[i] = q[i]
    BY <1>6, <2>1 DEF Away, N
  <2>2. CASE \E w \in 1 .. M : i = N + w /\ both[i] = p[w]
    BY <1>6, <2>2 DEF Away, M
  <2> QED  BY <1>3, <2>1, <2>2
<1>7. \A u : Away(q, u) /\ Away(p, u) => Away(both, u)
  BY <1>2, <1>6 DEF Away
<1> QED  BY <1>1, <1>2, <1>5, <1>7 DEF N, M

\* The rest of the chain takes a block, and fills it or makes it poison.
LEMMA RefillApart ==
  ASSUME NEW held \in Seq(StreamBlocks), NEW in \in Seq(Queued), NEW out \in Seq(Queued),
         AreApart(held, in, out), out # <<>>,
         NEW b \in Queued, b.start # 0 => b.start = Head(out).start
  PROVE  AreApart(held, Append(in, b), Tail(out))
<1> DEFINE more == Append(in, b)
           rest == Tail(out)
           first == Head(out)
<1>1. held \in Seq(Queued)
  BY BlocksAreQueued
<1>2. /\ rest \in Seq(Queued) /\ Len(rest) = Len(out) - 1
      /\ Once(out) => Once(rest) /\ AwayFrom(rest, first.start)
      /\ \A u : Away(out, u) => Away(rest, u) /\ AwayFrom(u, first.start)
  BY TailIsApart
<1>3. /\ more \in Seq(Queued) /\ Len(more) = Len(in) + 1
      /\ Once(in) /\ AwayFrom(in, b.start) => Once(more)
      /\ \A u : Away(in, u) /\ AwayFrom(u, b.start) => Away(more, u)
  BY AppendIsApart
<1>4. Away(out, held) /\ Away(out, in) /\ Away(in, held)
  BY AwayBoth DEF AreApart
<1>5. Once(rest) /\ Away(rest, held) /\ Away(rest, in)
  BY <1>2, <1>4 DEF AreApart
<1>6. /\ AwayFrom(rest, first.start) /\ AwayFrom(held, first.start)
      /\ AwayFrom(in, first.start)
  BY <1>2, <1>4 DEF AreApart
<1>7. AwayFrom(rest, b.start) /\ AwayFrom(held, b.start) /\ AwayFrom(in, b.start)
  <2>1. CASE b.start = 0
    BY <2>1 DEF AwayFrom
  <2>2. CASE b.start = first.start
    BY <1>6, <2>2
  <2> QED  BY <2>1, <2>2
<1>8. Away(in, rest)
  BY <1>5, AwayBoth
<1>9. Once(more) /\ Away(more, rest) /\ Away(more, held)
  BY <1>3, <1>4, <1>7, <1>8 DEF AreApart
<1>10. Away(held, more) /\ Away(held, rest)
  BY <1>5, <1>9, AwayBoth
<1>11. Len(held) + Len(more) + Len(rest) <= BlockCount
  <2>1. Len(held) + Len(in) + Len(out) <= BlockCount
    BY DEF AreApart
  <2>2. Len(held) \in Nat /\ Len(in) \in Nat /\ Len(out) \in Nat
    OBVIOUS
  <2>3. Len(held) + Len(more) + Len(rest) = Len(held) + Len(in) + Len(out)
    BY <1>2, <1>3, <2>2
  <2> QED  BY <2>1, <2>3
<1>12. Once(held)
  BY DEF AreApart
<1> HIDE DEF more, rest, first
<1>13. AreApart(held, more, rest)
  BY <1>5, <1>9, <1>10, <1>11, <1>12 DEF AreApart
<1> QED  BY <1>13 DEF more, rest

\* The stream takes a block, ...
LEMMA TakeApart ==
  ASSUME NEW held \in Seq(StreamBlocks), NEW in \in Seq(Queued), NEW out \in Seq(Queued),
         AreApart(held, in, out), in # <<>>
  PROVE  AreApart(Append(held, Head(in)), Tail(in), out)
<1> DEFINE more == Append(held, Head(in))
           rest == Tail(in)
           first == Head(in)
<1>1. held \in Seq(Queued)
  BY BlocksAreQueued
<1>2. /\ rest \in Seq(Queued) /\ Len(rest) = Len(in) - 1 /\ first \in Queued
      /\ Once(in) => Once(rest) /\ AwayFrom(rest, first.start)
      /\ \A u : Away(in, u) => Away(rest, u) /\ AwayFrom(u, first.start)
  BY TailIsApart
<1>3. /\ more \in Seq(Queued) /\ Len(more) = Len(held) + 1
      /\ Once(held) /\ AwayFrom(held, first.start) => Once(more)
      /\ \A u : Away(held, u) /\ AwayFrom(u, first.start) => Away(more, u)
  BY <1>1, <1>2, AppendIsApart
<1>4. Away(in, held)
  BY AwayBoth DEF AreApart
<1>5. /\ Once(rest) /\ Away(rest, held) /\ Away(rest, out)
      /\ AwayFrom(rest, first.start) /\ AwayFrom(held, first.start) /\ AwayFrom(out, first.start)
  BY <1>2, <1>4 DEF AreApart
<1>6. Away(held, rest)
  BY <1>5, AwayBoth
<1>7. Once(more) /\ Away(more, rest) /\ Away(more, out)
  BY <1>3, <1>5, <1>6 DEF AreApart
<1>8. Len(more) + Len(rest) + Len(out) <= BlockCount
  <2>1. Len(held) + Len(in) + Len(out) <= BlockCount
    BY DEF AreApart
  <2>2. Len(held) \in Nat /\ Len(in) \in Nat /\ Len(out) \in Nat
    OBVIOUS
  <2>3. Len(more) + Len(rest) + Len(out) = Len(held) + Len(in) + Len(out)
    BY <1>2, <1>3, <2>2
  <2> QED  BY <2>1, <2>3
<1>9. Once(out)
  BY DEF AreApart
<1> HIDE DEF more, rest, first
<1>10. AreApart(more, rest, out)
  BY <1>5, <1>7, <1>8, <1>9 DEF AreApart
<1> QED  BY <1>10 DEF more, rest

\* ... or the poison.
LEMMA PoisonApart ==
  ASSUME BlockCount \in Nat,
         NEW held \in Seq(StreamBlocks), NEW in \in Seq(Queued), NEW out \in Seq(Queued),
         AreApart(held, in, out), in # <<>>
  PROVE  AreApart(held, Tail(in), out)
<1> DEFINE rest == Tail(in)
<1>1. /\ rest \in Seq(Queued) /\ Len(rest) = Len(in) - 1
      /\ Once(in) => Once(rest)
      /\ \A u : Away(in, u) => Away(rest, u)
  BY TailIsApart
<1>2. Away(in, held)
  BY AwayBoth DEF AreApart
<1>3. Once(rest) /\ Away(rest, held) /\ Away(rest, out)
  BY <1>1, <1>2 DEF AreApart
<1>4. Away(held, rest)
  BY <1>3, AwayBoth
<1>5. Len(held) + Len(rest) + Len(out) <= BlockCount
  <2>1. Len(held) + Len(in) + Len(out) <= BlockCount
    BY DEF AreApart
  <2>2. Len(held) \in Nat /\ Len(in) \in Nat /\ Len(out) \in Nat
    OBVIOUS
  <2> DEFINE n == Len(held) + Len(in) + Len(out)
  <2>3. Len(held) + Len(rest) + Len(out) = n - 1 /\ n \in Nat
    BY <1>1, <2>2
  <2>4. n <= BlockCount
    BY <2>1
  <2> HIDE DEF n
  <2>5. n - 1 <= BlockCount
    BY <2>3, <2>4
  <2> QED  BY <2>3, <2>5
<1> HIDE DEF rest
<1>6. AreApart(held, rest, out)
  BY <1>3, <1>4, <1>5 DEF AreApart
<1> QED  BY <1>6 DEF rest

\* The first blocks that are kept go out.
LEMMA FlushApart ==
  ASSUME NEW held \in Seq(StreamBlocks), NEW in \in Seq(Queued), NEW out \in Seq(Queued),
         AreApart(held, in, out), NEW n \in 0 .. Len(held)
  PROVE  /\ AreApart(SubSeq(held, n + 1, Len(held)), in, out \o SubSeq(held, 1, n))
         /\ out \o SubSeq(held, 1, n) \in Seq(Queued)
<1> DEFINE front == SubSeq(held, 1, n)
           rest == SubSeq(held, n + 1, Len(held))
           more == out \o front
<1>1. held \in Seq(Queued) /\ front = SubSeq(held, 1, n) /\ rest = SubSeq(held, n + 1, Len(held))
  BY BlocksAreQueued
<1> HIDE DEF front, rest
<1>2. /\ front \in Seq(Queued) /\ Len(front) = n
      /\ rest \in Seq(Queued) /\ Len(rest) = Len(held) - n
      /\ Once(held) => Once(front) /\ Once(rest) /\ Away(front, rest)
      /\ \A u : Away(held, u) => Away(front, u) /\ Away(rest, u)
  <2>1. IsSplit(Queued, held, n, front, rest)
    BY <1>1, SplitIsApart
  <2> QED  BY <2>1 DEF IsSplit
<1>3. /\ more \in Seq(Queued) /\ Len(more) = Len(out) + Len(front)
      /\ Once(out) /\ Once(front) /\ Away(out, front) => Once(more)
      /\ \A u : Away(out, u) /\ Away(front, u) => Away(more, u)
  BY <1>2, JoinIsApart
<1> HIDE DEF more
<1>4. /\ Once(front) /\ Once(rest) /\ Away(front, rest)
      /\ Away(front, in) /\ Away(rest, in) /\ Away(front, out) /\ Away(rest, out)
  BY <1>2 DEF AreApart
<1>5. Away(out, front) /\ Away(out, rest) /\ Away(out, in)
  BY <1>4, AwayBoth DEF AreApart
<1>6. Once(more) /\ Away(more, rest) /\ Away(more, in)
  BY <1>3, <1>4, <1>5 DEF AreApart
<1>7. Away(rest, more) /\ Away(in, more)
  BY <1>6, AwayBoth
<1>8. Len(rest) + Len(in) + Len(more) <= BlockCount
  <2>1. Len(held) + Len(in) + Len(out) <= BlockCount
    BY DEF AreApart
  <2>2. Len(held) \in Nat /\ Len(in) \in Nat /\ Len(out) \in Nat
    OBVIOUS
  <2>3. Len(rest) + Len(in) + Len(more) = Len(held) + Len(in) + Len(out)
    BY <1>2, <1>3, <2>2
  <2> QED  BY <2>1, <2>3
<1>9. Once(in)
  BY DEF AreApart
<1>10. AreApart(rest, in, more)
  BY <1>4, <1>6, <1>7, <1>8, <1>9 DEF AreApart
<1> QED  BY <1>3, <1>10 DEF rest, more, front

-----------------------------------------------------------------------------
(* The stream begins *)

LEMMA StreamBegins ==
  ASSUME NEW E, StreamsOf(E), RewindInit
  PROVE  StreamInv(E)
<1>1. BlockCount \in Nat /\ PerBlock \in Nat /\ PerBlock > 0 /\ 0 \in E
  BY DEF StreamsOf
<1>2. CASE BlockCount < 2
  BY <1>2 DEF RewindInit, StreamInv, StreamIsOver
<1>3. CASE ~(BlockCount < 2)
  <2> DEFINE first(n) == 1 + PerBlock * (n - 1)
             block(n) == [start |-> first(n), valid |-> PerBlock]
  <2>1. client = "append" /\ BlockCount >= 2
    BY <1>1, <1>3 DEF RewindInit
  <2>2. ASSUME NEW n \in 1 .. BlockCount
        PROVE  block(n) \in StreamBlocks
    <3>1. first(n) \in Starts
      BY DEF Starts
    <3>2. PerBlock \in Sizes
      BY <1>1 DEF Sizes
    <3> QED  BY <3>1, <3>2 DEF StreamBlocks
  <2>3. outQueue = [n \in 1 .. BlockCount |-> block(n)]
    BY DEF RewindInit
  <2>4. Len(outQueue) = BlockCount /\ outQueue \in Seq(Queued)
    <3>1. \A n \in 1 .. BlockCount : block(n) \in Queued
      BY <2>2 DEF Queued
    <3> HIDE DEF block
    <3> QED  BY <1>1, <2>3, <3>1
  <2>5. arriving \in PiecesFor(E)
    <3>1. arriving \in Arrivals
      BY DEF RewindInit
    <3> QED  BY <3>1 DEF StreamsOf, PiecesFor, Pieces
  <2>6. cells \in [1 .. LastCell -> E] /\ LastCell \in Nat
    BY <1>1 DEF RewindInit, LastCell
  <2>7. <<>> \in Pieces(E) /\ <<>> \in Seq(E) /\ <<>> \in Seq(Queued) /\ <<>> \in Seq(StreamBlocks)
    BY DEF Pieces
  <2>8. StreamTyped(E)
    BY <2>4, <2>5, <2>6, <2>7 DEF StreamTyped, RewindInit, NoMark
  <2>9. ASSUME NEW i \in 1 .. BlockCount, NEW j \in 1 .. BlockCount, first(i) = first(j)
        PROVE  i = j
    <3>1. i - 1 \in Nat /\ j - 1 \in Nat
      OBVIOUS
    <3>2. PerBlock * (i - 1) \in Nat /\ PerBlock * (j - 1) \in Nat
      BY <1>1, <3>1
    <3>3. PerBlock * (i - 1) = PerBlock * (j - 1)
      BY <2>9, <3>2
    <3>4. ~(i - 1 < j - 1)
      <4>1. i - 1 < j - 1 => PerBlock * (i - 1) + PerBlock <= PerBlock * (j - 1)
        BY <1>1, <3>1, BlocksFollow
      <4> QED  BY <1>1, <3>2, <3>3, <4>1
    <3>5. ~(j - 1 < i - 1)
      <4>1. j - 1 < i - 1 => PerBlock * (j - 1) + PerBlock <= PerBlock * (i - 1)
        BY <1>1, <3>1, BlocksFollow
      <4> QED  BY <1>1, <3>2, <3>3, <4>1
    <3> QED  BY <3>1, <3>4, <3>5
  <2>10. Once(outQueue)
    <3> SUFFICES ASSUME NEW i \in 1 .. BlockCount, NEW j \in 1 .. BlockCount,
                        outQueue[i].start = outQueue[j].start
                 PROVE  i = j
      BY <2>4 DEF Once
    <3>1. outQueue[i].start = first(i) /\ outQueue[j].start = first(j)
      BY <2>3
    <3> QED  BY <2>9, <3>1
  <2>11. kept = <<>> /\ inQueue = <<>> /\ sent = <<>> /\ view = <<>>
    BY DEF RewindInit
  <2>12. AreApart(kept, inQueue, outQueue)
    <3>1. Len(<<>>) = 0
      OBVIOUS
    <3>2. Len(kept) + Len(inQueue) + Len(outQueue) <= BlockCount
      BY <1>1, <2>4, <2>11, <3>1
    <3> QED  BY <2>10, <2>11, <3>1, <3>2 DEF AreApart, Once, Away
  <2> DEFINE off == [w \in 0 .. 0 |-> 0]
  <2>13. PlacedBack(off)
    <3>1. HeldBack(sent, cells, kept) = <<>>
      <4>1. IsHeld(E, HeldBack(sent, cells, kept), sent, cells, kept)
        BY <2>6, <2>7, <2>11, HeldIs
      <4>2. HeldBack(sent, cells, kept) \in Pieces(E) /\ Len(HeldBack(sent, cells, kept)) = 0
        BY <2>11, <4>1 DEF IsHeld
      <4> QED  BY <2>7, <4>2, PiecesEqual
    <3>2. off[0] = 0 /\ off \in [0 .. 0 -> Nat]
      OBVIOUS
    <3> HIDE DEF off
    <3>3. IsView(<<>>, off, <<>>)
      BY <3>2 DEF IsView, AreOffsets, AreAt
    <3>4. ~Usable /\ marked = NoMark
      BY <2>1 DEF Usable, RewindInit
    <3> QED  BY <2>11, <3>1, <3>3, <3>4 DEF PlacedBack
  <2>14. AtEnd /\ InBlock /\ KeptWithoutMark /\ KeptWithMark
    BY <2>1, <2>11 DEF AtEnd, InBlock, KeptWithoutMark, KeptWithMark, Usable, RewindInit
  <2> HIDE DEF off
  <2>15. StreamGoes(E)
    BY <2>1, <2>8, <2>12, <2>13, <2>14 DEF StreamGoes
  <2> QED  BY <2>15 DEF StreamInv
<1> QED  BY <1>2, <1>3

-----------------------------------------------------------------------------
(* The rest of the chain *)

\* What the chain does behind the stream.
LEMMA ChainKeepsStream ==
  ASSUME NEW E, StreamsOf(E), StreamGoes(E),
         StreamTyped(E)', AreApart(kept, inQueue, outQueue)',
         UNCHANGED <<kept, keptIt, marked, current, blockEnd, hitPoison, poisoned, sent,
                     view, place, markPlace, client>>,
         HeldBack(sent, cells', kept) = HeldBack(sent, cells, kept)
  PROVE  StreamGoes(E)'
<1>1. /\ BlockCount >= 2
      /\ client \in {"append", "append more", "out", "left", "assertion", "abort"}
      /\ AtEnd /\ InBlock /\ KeptWithoutMark /\ KeptWithMark
      /\ client = "abort" => marked # NoMark
  BY DEF StreamGoes
<1>2. PICK off : PlacedBack(off)
  BY DEF StreamGoes
<1>3. Usable' <=> Usable
  BY DEF Usable
<1>4. PlacedBack(off)'
  BY <1>2, <1>3 DEF PlacedBack, IsPlace
<1>5. AtEnd' /\ InBlock' /\ KeptWithoutMark' /\ KeptWithMark'
  BY <1>1, <1>3 DEF AtEnd, InBlock, KeptWithoutMark, KeptWithMark
<1> QED  BY <1>1, <1>4, <1>5 DEF StreamGoes

LEMMA RefillKeeps ==
  ASSUME NEW E, StreamsOf(E), StreamGoes(E), Refill
  PROVE  StreamGoes(E)'
<1> DEFINE first == Head(outQueue)
           entries == Head(arriving)
           b == [start |-> first.start, valid |-> Len(entries)]
<1>1. StreamTyped(E) /\ AreApart(kept, inQueue, outQueue)
  BY DEF StreamGoes
<1>2. /\ outQueue # <<>> /\ arriving # <<>> /\ first.start # 0
      /\ inQueue' = Append(inQueue, b)
      /\ cells' = [a \in DOMAIN cells |-> IF a \in first.start .. (first.start + Len(entries) - 1)
                                          THEN entries[a - first.start + 1] ELSE cells[a]]
      /\ outQueue' = Tail(outQueue)
      /\ arriving' = Tail(arriving)
  BY DEF Refill
<1>3. UNCHANGED <<kept, keptIt, marked, current, blockEnd, hitPoison, poisoned, sent,
                  view, place, markPlace, client>>
  BY DEF Refill
<1>4. /\ outQueue \in Seq(Queued) /\ inQueue \in Seq(Queued) /\ kept \in Seq(StreamBlocks)
      /\ arriving \in PiecesFor(E) /\ cells \in [1 .. LastCell -> E] /\ sent \in Pieces(E)
  BY <1>1 DEF StreamTyped
<1>5. first \in Queued /\ outQueue' \in Seq(Queued) /\ first = outQueue[1] /\ Len(outQueue) > 0
  BY <1>2, <1>4
<1>6. first \in StreamBlocks
  BY <1>2, <1>5 DEF Queued, PoisonBlock
<1>7. entries \in Seq(E) /\ Len(entries) \in Sizes /\ arriving' \in PiecesFor(E)
  <2> DEFINE X == Seq(E)
             L == Len(arriving)
  <2>1. arriving \in Seq(X) /\ \A n \in 1 .. L : Len(arriving[n]) \in Sizes
    BY <1>4 DEF PiecesFor, Pieces
  <2> HIDE DEF X
  <2>2. /\ L \in Nat /\ L > 0 /\ entries \in X /\ entries = arriving[1] /\ Tail(arriving) \in Seq(X)
        /\ Len(Tail(arriving)) = L - 1
        /\ \A n \in 1 .. L - 1 : Tail(arriving)[n] = arriving[n + 1]
    BY <1>2, <2>1
  <2>3. 1 \in 1 .. L /\ \A n \in 1 .. L - 1 : n + 1 \in 1 .. L
    BY <2>2
  <2>4. Len(entries) \in Sizes
    BY <2>1, <2>2, <2>3
  <2>5. \A n \in 1 .. Len(Tail(arriving)) : Len(Tail(arriving)[n]) \in Sizes
    BY <2>1, <2>2, <2>3
  <2>6. arriving' \in PiecesFor(E)
    BY <1>2, <2>2, <2>5 DEF PiecesFor, Pieces, X
  <2> QED  BY <2>2, <2>4, <2>6 DEF X
<1>8. /\ first.start \in Starts /\ first.start \in Nat \ {0}
      /\ first.start + PerBlock - 1 <= LastCell
  BY <1>6, BlockIs, StartsApart
<1>9. b \in StreamBlocks /\ b \in Queued
  BY <1>7, <1>8 DEF StreamBlocks, Queued
<1>10. b.start = first.start /\ b.valid = Len(entries)
  OBVIOUS
<1>11. Len(entries) \in 0 .. PerBlock
  BY <1>9, <1>10, BlockIs
<1>12. PerBlock \in Nat /\ LastCell \in Nat
  BY DEF StreamsOf, LastCell
<1>13. cells' \in [1 .. LastCell -> E]
  <2> DEFINE f == first.start
             n == Len(entries)
  <2>1. f \in Nat /\ n \in Nat
    BY <1>8, <1>11, <1>12
  <2>2. \A a \in 1 .. LastCell : a \in f .. (f + n - 1) => entries[a - f + 1] \in E
    <3> SUFFICES ASSUME NEW a \in 1 .. LastCell, a \in f .. (f + n - 1)
                 PROVE  entries[a - f + 1] \in E
      OBVIOUS
    <3> HIDE DEF f
    <3>1. a - f + 1 \in 1 .. n
      BY <2>1
    <3> QED  BY <1>7, <3>1
  <2>3. \A a \in 1 .. LastCell : cells[a] \in E /\ DOMAIN cells = 1 .. LastCell
    BY <1>4
  <2>4. cells' = [a \in 1 .. LastCell |-> IF a \in f .. (f + n - 1) THEN entries[a - f + 1]
                                          ELSE cells[a]]
    BY <1>2, <1>4
  <2> HIDE DEF f, n, entries, first
  <2> QED  BY <2>2, <2>3, <2>4
<1> HIDE DEF b
<1>14. inQueue' \in Seq(Queued)
  BY <1>2, <1>4, <1>9
<1>15. StreamTyped(E)'
  BY <1>1, <1>3, <1>5, <1>7, <1>13, <1>14 DEF StreamTyped
<1>16. AreApart(kept, inQueue, outQueue)'
  <2>1. AreApart(kept, Append(inQueue, b), Tail(outQueue))
    BY <1>1, <1>2, <1>4, <1>9, <1>10, RefillApart
  <2> QED  BY <1>2, <1>3, <2>1
<1>17. ASSUME NEW n \in 1 .. Len(kept), NEW a \in Nat, IsIn(a, kept[n])
       PROVE  cells'[a] = cells[a]
  <2> DEFINE s == kept[n].start
             v == kept[n].valid
             f == first.start
             len == Len(entries)
  <2>1. kept[n] \in StreamBlocks
    BY <1>4
  <2>2. /\ s \in Starts /\ s \in Nat \ {0} /\ v \in 0 .. PerBlock
        /\ EndOf(kept[n]) = s + v /\ EndOf(kept[n]) - 1 <= LastCell
    BY <2>1, BlockIs
  <2>3. s # f
    <3>1. 1 \in 1 .. Len(outQueue)
      BY <1>4, <1>5
    <3>2. Away(kept, outQueue)
      BY <1>1 DEF AreApart
    <3>3. kept[n].start = outQueue[1].start => kept[n].start = 0
      BY <3>1, <3>2 DEF Away
    <3> QED  BY <1>5, <2>2, <3>3
  <2>4. s + PerBlock <= f \/ f + PerBlock <= s
    BY <1>8, <2>2, <2>3, StartsApart
  <2>5. s <= a /\ a < s + v
    BY <1>17, <2>2 DEF IsIn
  <2>6. a \in 1 .. LastCell /\ a \notin f .. (f + len - 1)
    <3>1. f \in Nat /\ len \in 0 .. PerBlock
      BY <1>8, <1>11
    <3>2. s \in Nat /\ s > 0 /\ v \in Nat /\ v <= PerBlock /\ s + v - 1 <= LastCell
      BY <1>12, <2>2
    <3> HIDE DEF s, v, f, len
    <3> QED  BY <1>12, <2>4, <2>5, <3>1, <3>2
  <2> HIDE DEF f, len, first, entries
  <2>7. DOMAIN cells = 1 .. LastCell
    BY <1>4
  <2> QED  BY <1>2, <2>6, <2>7 DEF f, len
<1>18. HeldBack(sent, cells', kept) = HeldBack(sent, cells, kept)
  BY <1>4, <1>13, <1>17, StreamContentsStay
<1> QED  BY <1>3, <1>15, <1>16, <1>18, ChainKeepsStream

LEMMA RefillPoisonKeeps ==
  ASSUME NEW E, StreamsOf(E), StreamGoes(E), RefillPoison
  PROVE  StreamGoes(E)'
<1>1. StreamTyped(E) /\ AreApart(kept, inQueue, outQueue)
  BY DEF StreamGoes
<1>2. /\ outQueue # <<>>
      /\ inQueue' = Append(inQueue, PoisonBlock)
      /\ outQueue' = Tail(outQueue)
  BY DEF RefillPoison
<1>3. UNCHANGED <<arriving, cells, kept, keptIt, marked, current, blockEnd, hitPoison,
                  poisoned, sent, view, place, markPlace, client>>
  BY DEF RefillPoison
<1>4. outQueue \in Seq(Queued) /\ inQueue \in Seq(Queued) /\ kept \in Seq(StreamBlocks)
  BY <1>1 DEF StreamTyped
<1>5. PoisonBlock \in Queued /\ PoisonBlock.start = 0
  BY DEF Queued, PoisonBlock
<1>6. inQueue' \in Seq(Queued) /\ outQueue' \in Seq(Queued)
  BY <1>2, <1>4, <1>5
<1>7. StreamTyped(E)'
  BY <1>1, <1>3, <1>6 DEF StreamTyped
<1>8. AreApart(kept, inQueue, outQueue)'
  <2>1. AreApart(kept, Append(inQueue, PoisonBlock), Tail(outQueue))
    BY <1>1, <1>2, <1>4, <1>5, RefillApart
  <2> QED  BY <1>2, <1>3, <2>1
<1>9. HeldBack(sent, cells', kept) = HeldBack(sent, cells, kept)
  BY <1>3
<1>10. UNCHANGED <<kept, keptIt, marked, current, blockEnd, hitPoison, poisoned, sent,
                   view, place, markPlace, client>>
  BY <1>3
<1> QED  BY <1>7, <1>8, <1>9, <1>10, ChainKeepsStream

-----------------------------------------------------------------------------
(* AppendBlock *)

LEMMA TooManyBlocksKeeps ==
  ASSUME NEW E, StreamsOf(E), StreamGoes(E), TooManyBlocks
  PROVE  StreamGoes(E)'
<1>1. /\ client = "append" /\ Len(kept) >= BlockCount /\ client' = "abort"
      /\ UNCHANGED <<arriving, inQueue, outQueue, cells, kept, keptIt, marked, current,
                     blockEnd, hitPoison, poisoned, sent, view, place, markPlace>>
  BY DEF TooManyBlocks
<1>2. /\ BlockCount >= 2 /\ StreamTyped(E) /\ AreApart(kept, inQueue, outQueue)
      /\ KeptWithoutMark /\ KeptWithMark
  BY DEF StreamGoes
<1>3. PICK off : PlacedBack(off)
  BY DEF StreamGoes
<1>4. StreamTyped(E)' /\ AreApart(kept, inQueue, outQueue)'
  BY <1>1, <1>2 DEF StreamTyped
<1>5. ~Usable'
  BY <1>1 DEF Usable
<1>6. PlacedBack(off)'
  BY <1>1, <1>3, <1>5 DEF PlacedBack, IsPlace
<1>7. marked # NoMark
  <2>1. Len(<<>>) = 0 /\ BlockCount \in Nat
    BY DEF StreamsOf
  <2>2. kept # <<>>
    BY <1>1, <1>2, <2>1
  <2> QED  BY <1>1, <1>2, <2>2 DEF KeptWithoutMark
<1>8. AtEnd' /\ InBlock' /\ KeptWithoutMark' /\ KeptWithMark'
  BY <1>1, <1>2, <1>5, <1>7 DEF AtEnd, InBlock, KeptWithoutMark, KeptWithMark
<1> QED  BY <1>1, <1>2, <1>4, <1>6, <1>7, <1>8 DEF StreamGoes

LEMMA NoRoomLeft ==
  ASSUME NEW S, NEW T, NEW held \in Seq(S), NEW in \in Seq(T), NEW out \in Seq(T),
         in # <<>>, Len(held) + Len(in) + Len(out) <= BlockCount
  PROVE  ~(BlockCount = 2 /\ Len(held) = 2)
<1>1. Len(in) \in Nat /\ Len(in) # 0 /\ Len(out) \in Nat
  OBVIOUS
<1> DEFINE i == Len(in)
           o == Len(out)
<1>2. i \in Nat /\ i # 0 /\ o \in Nat
  BY <1>1
<1>3. Len(held) + i + o <= BlockCount
  OBVIOUS
<1> HIDE DEF i, o
<1>4. SUFFICES ASSUME BlockCount = 2, Len(held) = 2
               PROVE  FALSE
  OBVIOUS
<1>5. 2 + i + o <= 2
  BY <1>3, <1>4
<1> QED  BY <1>2, <1>5

\* A client that waits for a third block of two waits for ever.
LEMMA NoThirdBlock ==
  ASSUME NEW E, StreamsOf(E), StreamGoes(E), client = "append more", inQueue # <<>>
  PROVE  marked = NoMark
<1>1. StreamTyped(E) /\ AreApart(kept, inQueue, outQueue) /\ KeptWithMark
  BY DEF StreamGoes
<1>2. inQueue \in Seq(Queued) /\ outQueue \in Seq(Queued) /\ kept \in Seq(StreamBlocks)
  BY <1>1 DEF StreamTyped
<1>3. Len(kept) + Len(inQueue) + Len(outQueue) <= BlockCount
  BY <1>1 DEF AreApart
<1>4. ~(BlockCount = 2 /\ Len(kept) = 2)
  BY <1>2, <1>3, NoRoomLeft
<1>5. marked # NoMark => BlockCount = 2 /\ Len(kept) = 2
  BY <1>1 DEF KeptWithMark
<1> QED  BY <1>4, <1>5

LEMMA NoMoreBlocksKeeps ==
  ASSUME NEW E, StreamsOf(E), StreamGoes(E), NoMoreBlocks
  PROVE  StreamGoes(E)'
<1>1. /\ client \in {"append", "append more"} /\ client' = "out" /\ poisoned'
      /\ \/ client = "append" /\ UNCHANGED inQueue
         \/ inQueue # <<>> /\ inQueue' = Tail(inQueue)
      /\ UNCHANGED <<arriving, outQueue, cells, kept, keptIt, marked, current, blockEnd,
                     sent, view, place, markPlace>>
  BY DEF NoMoreBlocks
<1>2. /\ BlockCount >= 2 /\ StreamTyped(E) /\ AreApart(kept, inQueue, outQueue)
      /\ KeptWithMark
  BY DEF StreamGoes
<1>3. PICK off : PlacedBack(off)
  BY DEF StreamGoes
<1>4. inQueue \in Seq(Queued) /\ outQueue \in Seq(Queued) /\ kept \in Seq(StreamBlocks)
  BY <1>2 DEF StreamTyped
<1>5. inQueue' \in Seq(Queued) /\ AreApart(kept, inQueue', outQueue)
  <2>1. CASE UNCHANGED inQueue
    BY <1>2, <1>4, <2>1
  <2>2. CASE inQueue # <<>> /\ inQueue' = Tail(inQueue)
    <3>1. BlockCount \in Nat
      BY DEF StreamsOf
    <3>2. AreApart(kept, Tail(inQueue), outQueue)
      BY <1>2, <1>4, <2>2, <3>1, PoisonApart
    <3> QED  BY <1>4, <2>2, <3>2
  <2> QED  BY <1>1, <2>1, <2>2
<1>6. StreamTyped(E)' /\ AreApart(kept, inQueue, outQueue)'
  BY <1>1, <1>2, <1>5 DEF StreamTyped
<1>7. ~Usable'
  BY <1>1 DEF Usable
<1>8. PlacedBack(off)'
  BY <1>1, <1>3, <1>7 DEF PlacedBack, IsPlace
<1>9. client = "append more" => marked = NoMark
  BY <1>1, NoThirdBlock
<1>10. AtEnd' /\ InBlock' /\ KeptWithoutMark' /\ KeptWithMark'
  BY <1>1, <1>2, <1>7, <1>9 DEF AtEnd, InBlock, KeptWithoutMark, KeptWithMark
<1> QED  BY <1>1, <1>2, <1>6, <1>8, <1>10 DEF StreamGoes

LEMMA NextBlockKeeps ==
  ASSUME NEW E, StreamsOf(E), StreamGoes(E), NextBlock
  PROVE  StreamGoes(E)'
<1> DEFINE b == Head(inQueue)
           c == BlockContents(cells, b)
           K == Len(kept)
           O == Len(sent)
<1>1. /\ \/ client = "append" /\ K < BlockCount /\ ~hitPoison
         \/ client = "append more"
      /\ inQueue # <<>> /\ b.start # 0
      /\ kept' = Append(kept, b)
      /\ inQueue' = Tail(inQueue)
      /\ UNCHANGED <<arriving, outQueue, cells, marked, hitPoison, poisoned, sent, place,
                     markPlace>>
  BY DEF NextBlock, IsPoisonBlock
<1>2. \/ /\ b.valid = 0 /\ client' = "append more"
         /\ UNCHANGED <<current, blockEnd, keptIt, view>>
      \/ /\ b.valid > 0 /\ client' = "out" /\ current' = b.start /\ blockEnd' = EndOf(b)
         /\ keptIt' = K + 1 /\ view' = view \o c
  BY DEF NextBlock
<1>3. /\ BlockCount >= 2 /\ StreamTyped(E) /\ AreApart(kept, inQueue, outQueue)
      /\ AtEnd /\ KeptWithoutMark /\ KeptWithMark
  BY DEF StreamGoes
<1>4. PICK off : PlacedBack(off)
  BY DEF StreamGoes
<1>5. /\ inQueue \in Seq(Queued) /\ outQueue \in Seq(Queued) /\ kept \in Seq(StreamBlocks)
      /\ cells \in [1 .. LastCell -> E] /\ sent \in Pieces(E) /\ view \in Seq(E)
  BY <1>3 DEF StreamTyped
<1>6. b \in Queued /\ inQueue' \in Seq(Queued)
  <2>1. inQueue # <<>> /\ inQueue' = Tail(inQueue)
    BY <1>1
  <2>2. Head(inQueue) \in Queued /\ Tail(inQueue) \in Seq(Queued)
    BY <1>5, <2>1
  <2> QED  BY <2>1, <2>2
<1>7. b \in StreamBlocks
  <2>1. b.start # 0
    BY <1>1
  <2> HIDE DEF b
  <2> QED  BY <1>6, <2>1 DEF Queued, PoisonBlock
<1>8. /\ b.start \in Nat \ {0} /\ b.valid \in Nat /\ EndOf(b) = b.start + b.valid
      /\ BlockCount # 2 => b.valid > 0
  BY <1>7, BlockIs
<1>9. c \in Seq(E) /\ Len(c) = b.valid
  BY <1>5, <1>7, BlockContentsIs
<1>10. K \in Nat /\ O \in Nat /\ Len(view) \in Nat
  BY <1>5, PiecesAre
<1> HIDE DEF b, c, K, O
<1>11. /\ kept' \in Seq(StreamBlocks) /\ Len(kept') = K + 1 /\ kept'[K + 1] = b
       /\ \A n \in 1 .. K : kept'[n] = kept[n]
  <2>1. kept' = Append(kept, b)
    BY <1>1
  <2> QED  BY <1>5, <1>7, <2>1 DEF K
<1>12. view' = view \o c /\ view' \in Seq(E)
  <2>1. b.valid = 0 => c = <<>>
    BY <1>9
  <2>2. view \o c \in Seq(E)
    BY <1>5, <1>9
  <2>3. view \o <<>> = view
    BY <1>5
  <2> QED  BY <1>2, <2>1, <2>2, <2>3
<1>13. StreamTyped(E)'
  <2>1. UNCHANGED <<arriving, outQueue, cells, marked, sent, place, markPlace>>
    BY <1>1
  <2>2. keptIt' \in Nat /\ current' \in Nat /\ blockEnd' \in Nat
    <3>1. keptIt \in Nat /\ current \in Nat /\ blockEnd \in Nat
      BY <1>3 DEF StreamTyped
    <3>2. K + 1 \in Nat /\ b.start \in Nat /\ EndOf(b) \in Nat
      BY <1>8, <1>10
    <3> QED  BY <1>2, <3>1, <3>2
  <2> QED  BY <1>3, <1>6, <1>11, <1>12, <2>1, <2>2 DEF StreamTyped
<1>14. AreApart(kept, inQueue, outQueue)'
  <2>1. AreApart(Append(kept, b), Tail(inQueue), outQueue)
    BY <1>1, <1>3, <1>5, TakeApart DEF b
  <2> QED  BY <1>1, <2>1
<1> DEFINE h == HeldBack(sent, cells, kept)
           g == HeldBack(sent, cells, kept')
<1>15. h \in Pieces(E) /\ Len(h) = O + K
  BY <1>5, HeldIs DEF IsHeld, O, K
<1>16. g = Append(h, c)
  <2>1. /\ IsHeld(E, h, sent, cells, kept)
        /\ IsHeld(E, g, sent, cells, kept')
    <3>1. IsHeld(E, h, sent, cells, kept)
      BY <1>5, HeldIs
    <3>2. IsHeld(E, g, sent, cells, kept')
      <4>1. kept' \in Seq(StreamBlocks)
        BY <1>11
      <4> QED  BY <1>5, <4>1, HeldIs
    <3> QED  BY <3>1, <3>2
  <2> HIDE DEF h, g
  <2>2. /\ g \in Pieces(E) /\ Len(g) = O + K + 1
        /\ \A n \in 1 .. O : g[n] = sent[n] /\ h[n] = sent[n]
    BY <1>10, <1>11, <2>1 DEF IsHeld, O
  <2>3. \A n \in 1 .. K : g[O + n] = h[O + n]
    <3> SUFFICES ASSUME NEW n \in 1 .. K
                 PROVE  g[O + n] = h[O + n]
      OBVIOUS
    <3>1. n \in 1 .. K + 1
      BY <1>10
    <3>2. g[O + n] = BlockContents(cells, kept'[n]) /\ h[O + n] = BlockContents(cells, kept[n])
      BY <1>11, <2>1, <3>1 DEF IsHeld, O, K
    <3> QED  BY <1>11, <3>2
  <2>4. g[O + K + 1] = c
    <3>1. K + 1 \in 1 .. K + 1
      BY <1>10
    <3>2. g[O + (K + 1)] = BlockContents(cells, kept'[K + 1])
      BY <1>11, <2>1, <3>1 DEF IsHeld, O
    <3>3. O + (K + 1) = O + K + 1
      BY <1>10
    <3> QED  BY <1>11, <3>2, <3>3 DEF c
  <2> DEFINE more == Append(h, c)
  <2>5. /\ more \in Pieces(E) /\ Len(more) = O + K + 1 /\ more[O + K + 1] = c
        /\ \A n \in 1 .. O + K : more[n] = h[n]
    BY <1>9, <1>15, OnePieceMore
  <2> HIDE DEF more
  <2>6. ASSUME NEW n \in 1 .. O + K + 1
        PROVE  g[n] = more[n]
    <3>1. CASE n <= O
      <4>1. n \in 1 .. O /\ n \in 1 .. O + K
        BY <1>10, <3>1
      <4> QED  BY <2>2, <2>5, <4>1
    <3>2. CASE O < n /\ n <= O + K
      <4> DEFINE m == n - O
      <4>1. m \in 1 .. K /\ n = O + m /\ n \in 1 .. O + K
        BY <1>10, <3>2
      <4> HIDE DEF m
      <4> QED  BY <2>3, <2>5, <4>1
    <3>3. CASE n = O + K + 1
      BY <2>4, <2>5, <3>3
    <3> QED  BY <1>10, <3>1, <3>2, <3>3
  <2>7. g = more
    BY <2>2, <2>5, <2>6, PiecesEqual
  <2> QED  BY <2>7 DEF more
<1> HIDE DEF h, g
<1>17. IsView(view, off, h)
  BY <1>4 DEF PlacedBack, h
<1>18. PICK more : /\ IsView(view \o c, more, Append(h, c))
                   /\ \A w \in 0 .. Len(h) : more[w] = off[w]
  BY <1>5, <1>9, <1>15, <1>17, ViewGrows
<1>19. IsView(view', more, HeldBack(sent, cells, kept)')
  <2>1. HeldBack(sent, cells, kept)' = g
    BY <1>1 DEF g
  <2> QED  BY <1>12, <1>16, <1>18, <2>1
<1>20. off[O + K] = Len(view) /\ more[O + K] = Len(view) /\ off[O] = more[O]
  <2>1. off[O + K] = Len(view)
    BY <1>15, <1>17 DEF IsView
  <2>2. O + K \in 0 .. Len(h) /\ O \in 0 .. Len(h)
    BY <1>10, <1>15
  <2> QED  BY <1>18, <2>1, <2>2
<1>21. place' = Len(view) + 1
  BY <1>1, <1>3 DEF AtEnd
<1>22. Usable' => b.valid > 0 /\ current' = b.start /\ keptIt' = K + 1 /\ blockEnd' = EndOf(b)
  BY <1>2 DEF Usable
<1>23. Usable' => IsPlace(place, more, sent, kept, keptIt, current)'
  <2>1. O + (K + 1) - 1 = O + K /\ Len(view) + (b.start - b.start) + 1 = Len(view) + 1
    BY <1>8, <1>10
  <2>2. sent' = sent
    BY <1>1
  <2> QED  BY <1>11, <1>20, <1>21, <1>22, <2>1, <2>2 DEF IsPlace, O
<1>24. marked # NoMark => /\ K > 0 /\ kept'[1] = kept[1] /\ IsIn(marked, kept[1])
                          /\ client = "append"
                          /\ \A n \in 1 .. K : kept[n].valid > 0
  <2>1. marked # NoMark => client = "append"
    <3>1. client = "append more" => marked = NoMark
      BY <1>1, NoThirdBlock
    <3> QED  BY <1>1, <3>1
  <2>2. marked # NoMark => kept # <<>> /\ IsIn(marked, kept[1]) /\ \A n \in 1 .. K : kept[n].valid > 0
    BY <1>3, <2>1 DEF KeptWithMark, K
  <2>3. kept # <<>> => K > 0 /\ 1 \in 1 .. K
    BY <1>5 DEF K
  <2> QED  BY <1>11, <2>1, <2>2, <2>3
<1>25. marked' # NoMark => IsPlace(markPlace, more, sent, kept, 1, marked)'
  <2>1. marked # NoMark => IsPlace(markPlace, off, sent, kept, 1, marked)
    BY <1>4 DEF PlacedBack
  <2>2. O + 1 - 1 = O
    BY <1>10
  <2> QED  BY <1>1, <1>20, <1>24, <2>1, <2>2 DEF IsPlace, O
<1>26. PlacedBack(more)'
  BY <1>19, <1>23, <1>25 DEF PlacedBack
<1>27. AtEnd'
  <2>1. client' \in {"append", "append more"} => view' = view
    BY <1>2
  <2> QED  BY <1>21, <2>1 DEF AtEnd
<1>28. InBlock'
  <2>1. K + 1 \in 1 .. K + 1
    BY <1>10
  <2>2. b.valid > 0 => IsIn(b.start, b)
    BY <1>8 DEF IsIn
  <2> QED  BY <1>11, <1>22, <2>1, <2>2 DEF InBlock
<1>29. KeptWithoutMark'
  BY <1>2, <1>11, <1>22 DEF KeptWithoutMark
<1>30. KeptWithMark'
  <2> SUFFICES ASSUME marked # NoMark
               PROVE  KeptWithMark'
    BY <1>1 DEF KeptWithMark
  <2>1. kept' # <<>> /\ IsIn(marked', kept'[1])
    <3>1. Len(<<>>) = 0 /\ Len(kept') > 0
      BY <1>10, <1>11
    <3> QED  BY <1>1, <1>24, <3>1
  <2>2. CASE client' = "append more"
    <3>1. b.valid = 0
      BY <1>2, <2>2
    <3>2. BlockCount = 2
      BY <1>8, <3>1
    <3>3. client = "append"
      BY <1>24
    <3>4. K < BlockCount
      BY <1>1, <3>3
    <3>5. K + 1 = 2
      BY <1>10, <1>24, <3>2, <3>4
    <3> QED  BY <1>11, <2>1, <2>2, <3>2, <3>5 DEF KeptWithMark
  <2>3. CASE client' # "append more"
    <3>1. b.valid > 0
      BY <1>2, <2>3
    <3>2. ASSUME NEW n \in 1 .. K + 1
          PROVE  kept'[n].valid > 0
      <4>1. n \in 1 .. K \/ n = K + 1
        BY <1>10
      <4> QED  BY <1>11, <1>24, <3>1, <4>1
    <3> QED  BY <1>11, <2>1, <2>3, <3>2 DEF KeptWithMark
  <2> QED  BY <2>2, <2>3
<1>31. client' \in {"append more", "out"}
  BY <1>2
<1> QED  BY <1>3, <1>13, <1>14, <1>26, <1>27, <1>28, <1>29, <1>30, <1>31 DEF StreamGoes

-----------------------------------------------------------------------------
(* Flush *)

\* What is so when the first n blocks have gone out.
Flushed(E, n) ==
  /\ outQueue' \in Seq(Queued)
  /\ AreApart(kept', inQueue, outQueue')
  /\ FlushesTo(E, sent, cells, kept, n, sent', kept')

LEMMA FlushStep ==
  ASSUME NEW E, StreamsOf(E), StreamTyped(E), AreApart(kept, inQueue, outQueue),
         NEW n \in 0 .. Len(kept), Flush(kept, n)
  PROVE  Flushed(E, n)
<1>1. /\ inQueue \in Seq(Queued) /\ outQueue \in Seq(Queued) /\ kept \in Seq(StreamBlocks)
      /\ cells \in [1 .. LastCell -> E] /\ sent \in Pieces(E)
  BY DEF StreamTyped
<1>2. /\ outQueue' = outQueue \o SubSeq(kept, 1, n)
      /\ sent' = sent \o [b \in 1 .. n |-> BlockContents(cells, kept[b])]
      /\ kept' = SubSeq(kept, n + 1, Len(kept))
  BY DEF Flush
<1>3. /\ AreApart(SubSeq(kept, n + 1, Len(kept)), inQueue, outQueue \o SubSeq(kept, 1, n))
      /\ outQueue \o SubSeq(kept, 1, n) \in Seq(Queued)
  BY <1>1, FlushApart
<1>4. FlushesTo(E, sent, cells, kept, n, sent', kept')
  BY <1>1, <1>2, FlushKeeps
<1> QED  BY <1>2, <1>3, <1>4 DEF Flushed

\* The place of an entry is that of before.
LEMMA PlaceAfterFlush ==
  ASSUME NEW E, sent \in Pieces(E), NEW n \in Nat, Flushed(E, n),
         NEW i \in 1 .. Len(kept'), NEW p, NEW off, NEW a,
         IsPlace(p, off, sent, kept, n + i, a)
  PROVE  IsPlace(p, off, sent', kept', i, a)
<1>1. Len(sent) \in Nat
  BY PiecesAre
<1>2. Len(sent') = Len(sent) + n /\ kept'[i] = kept[n + i]
  BY DEF Flushed, FlushesTo
<1>3. Len(sent) + n + i - 1 = Len(sent) + (n + i) - 1
  BY <1>1
<1> QED  BY <1>2, <1>3 DEF IsPlace

-----------------------------------------------------------------------------
(* The client goes forward *)

\* What a client that is in the stream knows of the block that it is in.
InStream(E, off) ==
  /\ StreamTyped(E) /\ AreApart(kept, inQueue, outQueue)
  /\ PlacedBack(off)
  /\ keptIt \in 1 .. Len(kept) /\ kept[keptIt] \in StreamBlocks
  /\ IsIn(current, kept[keptIt]) /\ blockEnd = EndOf(kept[keptIt])
  /\ IsPlace(place, off, sent, kept, keptIt, current)

LEMMA UsableIs ==
  ASSUME NEW E, StreamGoes(E), Usable
  PROVE  \E off : InStream(E, off)
<1>1. StreamTyped(E) /\ AreApart(kept, inQueue, outQueue) /\ InBlock
  BY DEF StreamGoes
<1>2. PICK off : PlacedBack(off)
  BY DEF StreamGoes
<1>3. IsPlace(place, off, sent, kept, keptIt, current)
  BY <1>2 DEF PlacedBack
<1>4. /\ keptIt \in 1 .. Len(kept)
      /\ IsIn(current, kept[keptIt]) /\ blockEnd = EndOf(kept[keptIt])
  BY <1>1 DEF InBlock
<1>5. kept[keptIt] \in StreamBlocks
  BY <1>1, <1>4 DEF StreamTyped
<1> QED  BY <1>1, <1>2, <1>3, <1>4, <1>5 DEF InStream

\* The last entry of a block is before the first of the next one.
LEMMA PlaceAtEnd ==
  ASSUME NEW E, StreamsOf(E), NEW off, InStream(E, off), current + 1 = blockEnd
  PROVE  place = off[Len(sent) + keptIt]
<1> DEFINE b == kept[keptIt]
           h == HeldBack(sent, cells, kept)
           O == Len(sent)
           before == off[O + keptIt - 1]
<1>1. /\ kept \in Seq(StreamBlocks) /\ cells \in [1 .. LastCell -> E] /\ sent \in Pieces(E)
      /\ keptIt \in Nat /\ current \in Nat
  BY DEF InStream, StreamTyped
<1>2. /\ keptIt \in 1 .. Len(kept) /\ b \in StreamBlocks /\ blockEnd = EndOf(b)
      /\ place = before + (current - b.start) + 1
  BY DEF InStream, IsPlace
<1>3. b.start \in Nat /\ b.valid \in Nat /\ EndOf(b) = b.start + b.valid
  BY <1>2, BlockIs
<1>4. O \in Nat
  BY <1>1, PiecesAre
<1>5. O + keptIt \in 1 .. Len(h) /\ Len(h[O + keptIt]) = b.valid
  BY <1>1, <1>2, HeldBlock DEF IsHeldBlock
<1>6. AreOffsets(off, h)
  BY DEF InStream, PlacedBack, IsView
<1> HIDE DEF b, h, O
<1>7. off[O + keptIt] = before + b.valid
  <2> DEFINE n == O + keptIt
  <2>1. n \in 1 .. Len(h) /\ Len(h[n]) = b.valid
    BY <1>5
  <2> HIDE DEF n
  <2>2. off[n] = off[n - 1] + b.valid
    BY <1>6, <2>1 DEF AreOffsets
  <2>3. n - 1 = O + keptIt - 1
    BY <1>1, <1>4 DEF n
  <2> QED  BY <2>2, <2>3 DEF n
<1>8. before \in Nat
  <2>1. h \in Pieces(E)
    BY <1>1, HeldIs DEF h, IsHeld
  <2>2. Len(h) \in Nat
    BY <2>1, PiecesAre
  <2>3. O + keptIt - 1 \in 0 .. Len(h)
    BY <1>1, <1>4, <1>5, <2>2
  <2> QED  BY <1>6, <2>3 DEF AreOffsets
<1> HIDE DEF before
<1>9. current + 1 = b.start + b.valid
  BY <1>2, <1>3
<1>10. before + (current - b.start) + 1 = before + b.valid
  BY <1>1, <1>3, <1>8, <1>9
<1> QED  BY <1>2, <1>7, <1>10 DEF O

LEMMA AdvanceInBlock ==
  ASSUME NEW E, StreamsOf(E), StreamGoes(E), Advance, current + 1 # blockEnd
  PROVE  StreamGoes(E)'
<1> DEFINE b == kept[keptIt]
<1>1. /\ Usable /\ place' = place + 1 /\ current' = current + 1
      /\ UNCHANGED <<outQueue, kept, keptIt, blockEnd, sent, client, arriving, inQueue, cells,
                     marked, hitPoison, poisoned, view, markPlace>>
  BY DEF Advance
<1>2. PICK off : InStream(E, off)
  BY <1>1, UsableIs
<1>3. /\ StreamTyped(E) /\ AreApart(kept, inQueue, outQueue) /\ PlacedBack(off)
      /\ keptIt \in 1 .. Len(kept) /\ b \in StreamBlocks /\ IsIn(current, b) /\ blockEnd = EndOf(b)
      /\ IsPlace(place, off, sent, kept, keptIt, current)
  BY <1>2 DEF InStream
<1>4. /\ BlockCount >= 2 /\ KeptWithoutMark /\ KeptWithMark
      /\ client \in {"append", "append more", "out", "left", "assertion", "abort"}
      /\ client = "abort" => marked # NoMark
  BY DEF StreamGoes
<1>5. current \in Nat /\ place \in Nat /\ sent \in Pieces(E) /\ kept \in Seq(StreamBlocks)
      /\ cells \in [1 .. LastCell -> E] /\ keptIt \in Nat
  BY <1>3 DEF StreamTyped
<1>6. b.start \in Nat /\ EndOf(b) \in Nat
  BY <1>3, BlockIs
<1>7. StreamTyped(E)' /\ AreApart(kept, inQueue, outQueue)'
  <2>1. place + 1 \in Nat /\ current + 1 \in Nat
    BY <1>5
  <2> QED  BY <1>1, <1>3, <2>1 DEF StreamTyped
<1>8. IsIn(current + 1, b)
  <2> HIDE DEF b
  <2> QED  BY <1>3, <1>5, <1>6 DEF IsIn
<1>9. IsPlace(place + 1, off, sent, kept, keptIt, current + 1)
  <2> DEFINE before == off[Len(sent) + keptIt - 1]
             s == b.start
  <2>1. place = before + (current - s) + 1
    BY <1>3 DEF IsPlace
  <2>2. before \in Nat
    <3> DEFINE h == HeldBack(sent, cells, kept)
    <3>1. h \in Pieces(E) /\ Len(sent) + keptIt \in 1 .. Len(h)
      BY <1>3, <1>5, HeldIs, HeldBlock DEF IsHeld, IsHeldBlock
    <3>2. Len(h) \in Nat /\ Len(sent) \in Nat
      BY <1>5, <3>1, PiecesAre
    <3>3. AreOffsets(off, h)
      BY <1>3 DEF PlacedBack, IsView
    <3> HIDE DEF h
    <3>4. Len(sent) + keptIt - 1 \in 0 .. Len(h)
      BY <1>5, <3>1, <3>2
    <3> QED  BY <3>3, <3>4 DEF AreOffsets
  <2>3. s \in Nat
    BY <1>6
  <2> HIDE DEF before, s
  <2>4. place + 1 = before + ((current + 1) - s) + 1
    BY <1>5, <2>1, <2>2, <2>3
  <2>5. place + 1 = off[Len(sent) + keptIt - 1] + ((current + 1) - kept[keptIt].start) + 1
    BY <2>4 DEF before, s
  <2> HIDE DEF b
  <2> QED  BY <2>5 DEF IsPlace
<1>10. PlacedBack(off)'
  BY <1>1, <1>3, <1>9 DEF PlacedBack, IsPlace
<1>11. AtEnd' /\ InBlock' /\ KeptWithoutMark' /\ KeptWithMark'
  BY <1>1, <1>3, <1>4, <1>8 DEF AtEnd, InBlock, KeptWithoutMark, KeptWithMark, Usable
<1> QED  BY <1>1, <1>4, <1>7, <1>10, <1>11 DEF StreamGoes

LEMMA AdvanceToKept ==
  ASSUME NEW E, StreamsOf(E), StreamGoes(E), Advance,
         current + 1 = blockEnd, keptIt < Len(kept)
  PROVE  StreamGoes(E)'
<1> DEFINE next == kept[keptIt + 1]
<1>1. PICK off : InStream(E, off)
  BY UsableIs DEF Advance
<1>2. /\ StreamTyped(E) /\ AreApart(kept, inQueue, outQueue) /\ PlacedBack(off)
      /\ keptIt \in 1 .. Len(kept)
  BY <1>1 DEF InStream
<1>3. /\ current \in Nat /\ place \in Nat /\ sent \in Pieces(E) /\ kept \in Seq(StreamBlocks)
      /\ keptIt \in Nat /\ blockEnd \in Nat
  BY <1>2 DEF StreamTyped
<1>4. ~(current + 1 # blockEnd) /\ ~(keptIt = Len(kept))
  BY <1>3
<1>5. /\ Usable /\ place' = place + 1 /\ keptIt' = keptIt + 1
      /\ current' = next.start /\ blockEnd' = EndOf(next)
      /\ UNCHANGED <<outQueue, kept, sent, client, arriving, inQueue, cells,
                     marked, hitPoison, poisoned, view, markPlace>>
  BY <1>4 DEF Advance
<1>6. /\ BlockCount >= 2 /\ KeptWithoutMark /\ KeptWithMark
      /\ client \in {"append", "append more", "out", "left", "assertion", "abort"}
      /\ client = "abort" => marked # NoMark
  BY DEF StreamGoes
<1>7. keptIt + 1 \in 1 .. Len(kept) /\ next \in StreamBlocks
  BY <1>2, <1>3
<1>8. next.start \in Nat /\ next.valid \in Nat /\ EndOf(next) = next.start + next.valid
  BY <1>7, BlockIs
<1>9. marked # NoMark
  BY <1>4, <1>5, <1>6 DEF KeptWithoutMark
<1>10. next.valid > 0
  BY <1>5, <1>6, <1>7, <1>9 DEF KeptWithMark, Usable
<1> HIDE DEF next
<1>11. StreamTyped(E)' /\ AreApart(kept, inQueue, outQueue)'
  <2>1. place + 1 \in Nat /\ keptIt + 1 \in Nat /\ EndOf(next) \in Nat
    BY <1>3, <1>8
  <2> QED  BY <1>2, <1>5, <1>8, <2>1 DEF StreamTyped
<1>12. IsIn(next.start, next)
  BY <1>8, <1>10 DEF IsIn
<1>13. IsPlace(place + 1, off, sent, kept, keptIt + 1, next.start)
  <2>1. place = off[Len(sent) + keptIt]
    BY <1>1, PlaceAtEnd
  <2>2. Len(sent) \in Nat
    BY <1>3, PiecesAre
  <2>3. Len(sent) + (keptIt + 1) - 1 = Len(sent) + keptIt
    BY <1>3, <2>2
  <2>4. place + 1 = place + (next.start - next.start) + 1
    BY <1>3, <1>8
  <2> QED  BY <2>1, <2>3, <2>4 DEF IsPlace, next
<1>14. PlacedBack(off)'
  BY <1>2, <1>5, <1>13 DEF PlacedBack, IsPlace
<1>15. AtEnd' /\ KeptWithoutMark' /\ KeptWithMark'
  BY <1>5, <1>6, <1>9 DEF AtEnd, KeptWithoutMark, KeptWithMark, Usable
<1>16. InBlock'
  BY <1>5, <1>7, <1>12 DEF InBlock, next
<1> QED  BY <1>5, <1>6, <1>11, <1>14, <1>15, <1>16 DEF StreamGoes

LEMMA AdvanceToEnd ==
  ASSUME NEW E, StreamsOf(E), StreamGoes(E), Advance,
         current + 1 = blockEnd, keptIt = Len(kept)
  PROVE  StreamGoes(E)'
<1>1. PICK off : InStream(E, off)
  BY UsableIs DEF Advance
<1>2. /\ StreamTyped(E) /\ AreApart(kept, inQueue, outQueue) /\ PlacedBack(off)
      /\ keptIt \in 1 .. Len(kept)
  BY <1>1 DEF InStream
<1>3. /\ current \in Nat /\ place \in Nat /\ sent \in Pieces(E) /\ kept \in Seq(StreamBlocks)
      /\ keptIt \in Nat /\ blockEnd \in Nat /\ cells \in [1 .. LastCell -> E]
  BY <1>2 DEF StreamTyped
<1>4. ~(current + 1 # blockEnd) /\ ~(keptIt < Len(kept))
  BY <1>3
<1>5. /\ Usable /\ place' = place + 1 /\ current' = current + 1 /\ client' = "append"
      /\ IF marked = NoMark THEN Flush(kept, keptIt) /\ keptIt' = 1
         ELSE keptIt' = keptIt + 1 /\ UNCHANGED <<outQueue, kept, sent>>
      /\ UNCHANGED <<blockEnd, arriving, inQueue, cells, marked, hitPoison, poisoned, view,
                     markPlace>>
  BY <1>4 DEF Advance
<1>6. BlockCount >= 2 /\ KeptWithMark
  BY DEF StreamGoes
<1>7. place = Len(view)
  <2> DEFINE h == HeldBack(sent, cells, kept)
  <2>1. place = off[Len(sent) + keptIt]
    BY <1>1, PlaceAtEnd
  <2>2. Len(h) = Len(sent) + keptIt
    BY <1>3, HeldIs DEF IsHeld
  <2>3. Len(view) = off[Len(h)]
    BY <1>2 DEF PlacedBack, IsView
  <2> HIDE DEF h
  <2> QED  BY <2>1, <2>2, <2>3
<1>8. ~Usable' /\ InBlock'
  BY <1>5 DEF Usable, InBlock
<1>9. AtEnd'
  BY <1>5, <1>7 DEF AtEnd
<1>10. place' \in Nat /\ current' \in Nat /\ keptIt' \in Nat
  <2>1. place + 1 \in Nat /\ current + 1 \in Nat /\ keptIt + 1 \in Nat /\ 1 \in Nat
    BY <1>3
  <2> QED  BY <1>5, <2>1
<1>11. CASE marked = NoMark
  <2>1. Flush(kept, keptIt)
    BY <1>5, <1>11
  <2>2. keptIt \in 0 .. Len(kept)
    BY <1>2
  <2>3. Flushed(E, keptIt)
    BY <1>2, <2>1, <2>2, FlushStep
  <2>4. /\ outQueue' \in Seq(Queued) /\ sent' \in Pieces(E) /\ kept' \in Seq(StreamBlocks)
        /\ AreApart(kept', inQueue, outQueue') /\ Len(kept') = Len(kept) - keptIt
        /\ HeldBack(sent', cells, kept') = HeldBack(sent, cells, kept)
    BY <2>3 DEF Flushed, FlushesTo
  <2>5. kept' = <<>>
    <3>1. Len(kept') = 0
      BY <1>3, <2>4
    <3> QED  BY <2>4, <3>1
  <2>6. StreamTyped(E)' /\ AreApart(kept, inQueue, outQueue)'
    BY <1>2, <1>5, <1>10, <2>4 DEF StreamTyped
  <2>7. PlacedBack(off)'
    BY <1>2, <1>5, <1>8, <1>11, <2>4 DEF PlacedBack
  <2>8. KeptWithoutMark' /\ KeptWithMark'
    BY <1>5, <1>8, <1>11, <2>5 DEF KeptWithoutMark, KeptWithMark
  <2> QED  BY <1>5, <1>6, <1>8, <1>9, <2>6, <2>7, <2>8 DEF StreamGoes
<1>12. CASE marked # NoMark
  <2>1. UNCHANGED <<outQueue, kept, sent>>
    BY <1>5, <1>12
  <2>2. StreamTyped(E)' /\ AreApart(kept, inQueue, outQueue)'
    BY <1>2, <1>5, <1>10, <2>1 DEF StreamTyped
  <2>3. PlacedBack(off)'
    BY <1>2, <1>5, <1>8, <2>1 DEF PlacedBack, IsPlace
  <2>4. KeptWithoutMark' /\ KeptWithMark'
    BY <1>5, <1>6, <1>12, <2>1 DEF KeptWithoutMark, KeptWithMark, Usable
  <2> QED  BY <1>5, <1>6, <1>8, <1>9, <2>2, <2>3, <2>4 DEF StreamGoes
<1> QED  BY <1>11, <1>12

LEMMA AdvanceKeeps ==
  ASSUME NEW E, StreamsOf(E), StreamGoes(E), Advance
  PROVE  StreamGoes(E)'
<1>1. \/ current + 1 # blockEnd
      \/ current + 1 = blockEnd /\ keptIt < Len(kept)
      \/ current + 1 = blockEnd /\ keptIt = Len(kept)
  BY DEF Advance
<1> QED  BY <1>1, AdvanceInBlock, AdvanceToKept, AdvanceToEnd

-----------------------------------------------------------------------------
(* The client marks, and goes back *)

LEMMA MarkKeeps ==
  ASSUME NEW E, StreamsOf(E), StreamGoes(E), Mark
  PROVE  StreamGoes(E)'
<1> DEFINE n == keptIt - 1
           b == kept[keptIt]
<1>1. /\ Usable /\ marked' = current /\ Flush(kept, n) /\ keptIt' = 1 /\ markPlace' = place
      /\ UNCHANGED <<arriving, inQueue, cells, current, blockEnd, hitPoison, poisoned, view,
                     place, client>>
  BY DEF Mark
<1>2. PICK off : InStream(E, off)
  BY <1>1, UsableIs
<1>3. /\ StreamTyped(E) /\ AreApart(kept, inQueue, outQueue) /\ PlacedBack(off)
      /\ keptIt \in 1 .. Len(kept) /\ b \in StreamBlocks /\ IsIn(current, b) /\ blockEnd = EndOf(b)
      /\ IsPlace(place, off, sent, kept, keptIt, current)
  BY <1>2 DEF InStream
<1>4. /\ BlockCount >= 2 /\ KeptWithoutMark /\ KeptWithMark
      /\ client \in {"append", "append more", "out", "left", "assertion", "abort"}
  BY DEF StreamGoes
<1>5. /\ current \in Nat /\ place \in Nat /\ sent \in Pieces(E) /\ kept \in Seq(StreamBlocks)
      /\ keptIt \in Nat
  BY <1>3 DEF StreamTyped
<1>6. n \in 0 .. Len(kept) /\ n \in Nat /\ n + 1 = keptIt /\ Len(kept) - n > 0
  BY <1>3, <1>5
<1>7. /\ b.start \in Nat /\ b.start > 0 /\ b.valid \in Nat
      /\ EndOf(b) = b.start + b.valid
  BY <1>3, BlockIs
<1> HIDE DEF n, b
<1>8. current # NoMark /\ b.valid > 0
  BY <1>3, <1>5, <1>7 DEF NoMark, IsIn
<1>9. Flushed(E, n)
  BY <1>1, <1>3, <1>6, FlushStep
<1>10. /\ outQueue' \in Seq(Queued) /\ sent' \in Pieces(E) /\ kept' \in Seq(StreamBlocks)
       /\ AreApart(kept', inQueue, outQueue') /\ Len(kept') = Len(kept) - n
       /\ \A i \in 1 .. Len(kept') : n + i \in 1 .. Len(kept) /\ kept'[i] = kept[n + i]
       /\ HeldBack(sent', cells, kept') = HeldBack(sent, cells, kept)
  BY <1>9 DEF Flushed, FlushesTo
<1>11. 1 \in 1 .. Len(kept') /\ kept'[1] = b
  <2>1. 1 \in 1 .. Len(kept')
    BY <1>6, <1>10
  <2> QED  BY <1>6, <1>10, <2>1 DEF b
<1>12. StreamTyped(E)' /\ AreApart(kept, inQueue, outQueue)'
  BY <1>1, <1>3, <1>5, <1>10 DEF StreamTyped
<1>13. IsPlace(place, off, sent', kept', 1, current)
  BY <1>3, <1>5, <1>6, <1>9, <1>11, PlaceAfterFlush
<1>14. PlacedBack(off)'
  BY <1>1, <1>3, <1>10, <1>13 DEF PlacedBack
<1>15. AtEnd' /\ InBlock' /\ KeptWithoutMark'
  BY <1>1, <1>3, <1>8, <1>11 DEF AtEnd, InBlock, KeptWithoutMark, Usable
<1>16. ASSUME NEW i \in 1 .. Len(kept')
       PROVE  kept'[i].valid > 0
  <2>1. n + i \in 1 .. Len(kept) /\ kept'[i] = kept[n + i]
    BY <1>10
  <2>2. CASE marked # NoMark
    BY <1>1, <1>4, <2>1, <2>2 DEF KeptWithMark, Usable
  <2>3. CASE marked = NoMark
    <3>1. keptIt = Len(kept)
      BY <1>1, <1>4, <2>3 DEF KeptWithoutMark
    <3>2. n + i = keptIt
      BY <1>5, <1>6, <2>1, <3>1
    <3> QED  BY <1>8, <2>1, <3>2 DEF b
  <2> QED  BY <2>2, <2>3
<1>17. KeptWithMark'
  <2>1. Len(<<>>) = 0 /\ Len(kept') > 0
    BY <1>6, <1>10
  <2>2. kept' # <<>>
    BY <2>1
  <2>3. client' # "append more"
    BY <1>1 DEF Usable
  <2> QED  BY <1>1, <1>3, <1>11, <1>16, <2>2, <2>3 DEF KeptWithMark
<1>18. client' = "out"
  BY <1>1 DEF Usable
<1> QED  BY <1>4, <1>12, <1>14, <1>15, <1>17, <1>18 DEF StreamGoes

LEMMA RewindKeeps ==
  ASSUME NEW E, StreamsOf(E), StreamGoes(E), Rewind
  PROVE  StreamGoes(E)'
<1>1. /\ client = "out" /\ marked # NoMark /\ keptIt' = 1 /\ current' = marked
      /\ blockEnd' = EndOf(kept[1]) /\ place' = markPlace
      /\ UNCHANGED <<arriving, inQueue, outQueue, cells, kept, marked, hitPoison, sent, view,
                     markPlace, client>>
  BY DEF Rewind
<1>2. /\ BlockCount >= 2 /\ StreamTyped(E) /\ AreApart(kept, inQueue, outQueue) /\ KeptWithMark
  BY DEF StreamGoes
<1>3. PICK off : PlacedBack(off)
  BY DEF StreamGoes
<1>4. kept # <<>> /\ IsIn(marked, kept[1])
  BY <1>1, <1>2 DEF KeptWithMark
<1>5. 1 \in 1 .. Len(kept) /\ kept[1] \in StreamBlocks
  <2>1. kept \in Seq(StreamBlocks)
    BY <1>2 DEF StreamTyped
  <2>2. Len(kept) \in Nat /\ Len(kept) # 0
    BY <1>4, <2>1
  <2>3. 1 \in 1 .. Len(kept)
    BY <2>2
  <2> QED  BY <2>1, <2>3
<1>6. EndOf(kept[1]) \in Nat
  <2>1. /\ kept[1].start \in Nat /\ kept[1].valid \in Nat
        /\ EndOf(kept[1]) = kept[1].start + kept[1].valid
    BY <1>5, BlockIs
  <2> QED  BY <2>1
<1>7. StreamTyped(E)' /\ AreApart(kept, inQueue, outQueue)'
  BY <1>1, <1>2, <1>6 DEF StreamTyped
<1>8. PlacedBack(off)'
  BY <1>1, <1>3 DEF PlacedBack, IsPlace
<1>9. AtEnd' /\ InBlock' /\ KeptWithoutMark' /\ KeptWithMark'
  BY <1>1, <1>2, <1>4, <1>5 DEF AtEnd, InBlock, KeptWithoutMark, KeptWithMark
<1> QED  BY <1>1, <1>2, <1>7, <1>8, <1>9 DEF StreamGoes

LEMMA DestroyKeeps ==
  ASSUME NEW E, StreamsOf(E), StreamGoes(E), Destroy
  PROVE  StreamGoes(E)'
<1>1. /\ client = "out" /\ client' \in {"left", "assertion"}
      /\ UNCHANGED <<arriving, inQueue, outQueue, cells, kept, keptIt, marked, current,
                     blockEnd, hitPoison, poisoned, sent, view, place, markPlace>>
  BY DEF Destroy
<1>2. /\ BlockCount >= 2 /\ StreamTyped(E) /\ AreApart(kept, inQueue, outQueue) /\ KeptWithMark
  BY DEF StreamGoes
<1>3. PICK off : PlacedBack(off)
  BY DEF StreamGoes
<1>4. StreamTyped(E)' /\ AreApart(kept, inQueue, outQueue)' /\ ~Usable'
  BY <1>1, <1>2 DEF StreamTyped, Usable
<1>5. PlacedBack(off)'
  BY <1>1, <1>3, <1>4 DEF PlacedBack, IsPlace
<1>6. AtEnd' /\ InBlock' /\ KeptWithoutMark' /\ KeptWithMark'
  BY <1>1, <1>2, <1>4 DEF AtEnd, InBlock, KeptWithoutMark, KeptWithMark
<1> QED  BY <1>1, <1>2, <1>4, <1>5, <1>6 DEF StreamGoes

-----------------------------------------------------------------------------
(* The client writes *)

\* What is read of a kept block, when an entry of another or of it is written.
LEMMA WrittenBlock ==
  ASSUME NEW E, StreamsOf(E), NEW held \in Seq(StreamBlocks), Once(held),
         NEW w \in 1 .. Len(held), NEW a \in Nat, IsIn(a, held[w]),
         NEW m \in 1 .. Len(held), NEW j \in 1 .. held[m].valid
  PROVE  held[m].start + j - 1 = a <=> m = w /\ j = a - held[w].start + 1
<1> DEFINE s == held[w].start
           t == held[m].start
<1>1. held[w] \in StreamBlocks /\ held[m] \in StreamBlocks
  OBVIOUS
<1>2. /\ s \in Starts /\ s \in Nat /\ s > 0 /\ held[w].valid \in 0 .. PerBlock
      /\ EndOf(held[w]) = s + held[w].valid
  BY <1>1, BlockIs
<1>3. t \in Starts /\ t \in Nat /\ held[m].valid \in 0 .. PerBlock
  BY <1>1, BlockIs
<1>4. PerBlock \in Nat
  BY DEF StreamsOf
<1>5. s <= a /\ a < s + held[w].valid
  BY <1>2 DEF IsIn
<1>6. j \in Nat /\ 1 <= j /\ j <= PerBlock /\ a < s + PerBlock
  BY <1>2, <1>3, <1>4, <1>5
<1>7. m # w => s # t
  BY <1>2 DEF Once
<1>8. s # t => s + PerBlock <= t \/ t + PerBlock <= s
  BY <1>2, <1>3, StartsApart
<1>9. m = w => s = t
  OBVIOUS
<1> HIDE DEF s, t
<1>10. s # t => t + j - 1 # a
  BY <1>2, <1>3, <1>4, <1>5, <1>6, <1>8
<1>11. s = t => (t + j - 1 = a <=> j = a - s + 1)
  BY <1>2, <1>6
<1>12. t + j - 1 = a <=> m = w /\ j = a - s + 1
  BY <1>7, <1>9, <1>10, <1>11
<1> QED  BY <1>12 DEF s, t

LEMMA PutKeeps ==
  ASSUME NEW E, StreamsOf(E), StreamGoes(E), Put
  PROVE  StreamGoes(E)'
<1> DEFINE b == kept[keptIt]
           O == Len(sent)
           h == HeldBack(sent, cells, kept)
           g == HeldBack(sent, cells', kept)
           n == O + keptIt
           i == current - b.start + 1
<1>1. /\ Usable
      /\ cells' = [cells EXCEPT ![current] = NewEntry]
      /\ view' = [view EXCEPT ![place] = NewEntry]
      /\ UNCHANGED <<arriving, inQueue, outQueue, kept, keptIt, marked, current, blockEnd,
                     hitPoison, poisoned, sent, place, markPlace, client>>
  BY DEF Put
<1>2. PICK off : InStream(E, off)
  BY <1>1, UsableIs
<1>3. /\ StreamTyped(E) /\ AreApart(kept, inQueue, outQueue) /\ PlacedBack(off)
      /\ keptIt \in 1 .. Len(kept) /\ b \in StreamBlocks /\ IsIn(current, b)
      /\ IsPlace(place, off, sent, kept, keptIt, current)
  BY <1>2 DEF InStream
<1>4. /\ BlockCount >= 2 /\ AtEnd /\ InBlock /\ KeptWithoutMark /\ KeptWithMark
      /\ client \in {"append", "append more", "out", "left", "assertion", "abort"}
      /\ client = "abort" => marked # NoMark
  BY DEF StreamGoes
<1>5. /\ current \in Nat /\ place \in Nat /\ sent \in Pieces(E) /\ kept \in Seq(StreamBlocks)
      /\ cells \in [1 .. LastCell -> E] /\ view \in Seq(E) /\ keptIt \in Nat
  BY <1>3 DEF StreamTyped
<1>6. NewEntry \in E
  BY DEF StreamsOf
<1>7. cells' \in [1 .. LastCell -> E] /\ view' \in Seq(E)
  <2>1. [cells EXCEPT ![current] = NewEntry] \in [1 .. LastCell -> E]
    BY <1>5, <1>6
  <2>2. [view EXCEPT ![place] = NewEntry] \in Seq(E)
    <3> DEFINE L == Len(view)
    <3>1. L \in Nat /\ view \in [1 .. L -> E]
      BY <1>5
    <3> HIDE DEF L
    <3>2. [view EXCEPT ![place] = NewEntry] \in [1 .. L -> E]
      BY <1>6, <3>1
    <3> QED  BY <3>1, <3>2
  <2> QED  BY <1>1, <2>1, <2>2
<1>8. StreamTyped(E)' /\ AreApart(kept, inQueue, outQueue)'
  BY <1>1, <1>3, <1>7 DEF StreamTyped
<1>9. h \in Pieces(E) /\ g \in Pieces(E) /\ Len(h) = O + Len(kept) /\ Len(g) = Len(h)
      /\ \A m \in 1 .. O : g[m] = sent[m] /\ h[m] = sent[m]
  <2>1. IsHeld(E, h, sent, cells, kept)
    BY <1>5, HeldIs
  <2>2. IsHeld(E, g, sent, cells', kept)
    BY <1>5, <1>7, HeldIs
  <2> HIDE DEF h, g
  <2> QED  BY <2>1, <2>2 DEF IsHeld
<1>10. O \in Nat
  BY <1>5, PiecesAre
<1>11. b.start \in Nat /\ b.valid \in Nat /\ EndOf(b) = b.start + b.valid
  BY <1>3, BlockIs
<1>12. n \in 1 .. Len(h) /\ Len(h[n]) = b.valid
  <2>1. IsHeldBlock(h, sent, cells, kept, keptIt)
    BY <1>3, <1>5, HeldBlock
  <2> QED  BY <2>1 DEF IsHeldBlock
<1>13. i \in 1 .. b.valid
  <2> HIDE DEF b
  <2> QED  BY <1>3, <1>5, <1>11 DEF IsIn
<1>14. off[n - 1] \in Nat
  <2>1. IsView(view, off, h)
    BY <1>3 DEF PlacedBack
  <2>2. n - 1 \in 0 .. Len(h)
    BY <1>12
  <2> HIDE DEF h, n
  <2> QED  BY <2>1, <2>2 DEF IsView, AreOffsets
<1>15. place = off[n - 1] + i
  <2> DEFINE before == off[n - 1]
             s == b.start
  <2>1. place = before + (current - s) + 1
    BY <1>3, <1>5, <1>10 DEF IsPlace
  <2>2. before \in Nat /\ s \in Nat
    BY <1>11, <1>14
  <2> HIDE DEF before, s
  <2>3. place = before + (current - s + 1)
    BY <1>5, <2>1, <2>2
  <2> QED  BY <2>3 DEF before, s
<1>16. ASSUME NEW m \in 1 .. Len(h)
       PROVE  /\ Len(g[m]) = Len(h[m])
              /\ \A j \in 1 .. Len(h[m]) :
                   g[m][j] = IF m = n /\ j = i THEN NewEntry ELSE h[m][j]
  <2>1. CASE m <= O
    <3>1. m \in 1 .. O /\ m # n
      BY <1>3, <1>5, <1>10, <2>1
    <3> QED  BY <1>9, <3>1
  <2>2. CASE O < m
    <3> DEFINE w == m - O
    <3>1. w \in 1 .. Len(kept) /\ m = O + w /\ (m = n <=> w = keptIt)
      BY <1>3, <1>5, <1>9, <1>10, <2>2
    <3> HIDE DEF w
    <3> DEFINE s == kept[w].start
               v == kept[w].valid
    <3>2. /\ Len(h[m]) = v /\ Len(g[m]) = v
          /\ \A j \in 1 .. v : /\ s + j - 1 \in 1 .. LastCell
                               /\ h[m][j] = cells[s + j - 1] /\ g[m][j] = cells'[s + j - 1]
      <4>1. IsHeldBlock(h, sent, cells, kept, w) /\ IsHeldBlock(g, sent, cells', kept, w)
        BY <1>5, <1>7, <3>1, HeldBlock
      <4> HIDE DEF h, g
      <4> QED  BY <3>1, <4>1 DEF IsHeldBlock
    <3>3. Once(kept)
      BY <1>3 DEF AreApart
    <3>4. \A j \in 1 .. v : s + j - 1 = current <=> w = keptIt /\ j = i
      BY <1>3, <1>5, <3>1, <3>3, WrittenBlock
    <3>5. \A a \in 1 .. LastCell : cells'[a] = IF a = current THEN NewEntry ELSE cells[a]
      BY <1>1, <1>5
    <3> HIDE DEF s, v, b, i, n, g, h
    <3> QED  BY <3>1, <3>2, <3>4, <3>5
  <2> QED  BY <1>9, <1>10, <2>1, <2>2
<1>17. IsView(view, off, h)
  BY <1>3 DEF PlacedBack
<1> HIDE DEF b, O, h, g, n, i
<1>18. IsView(view', off, g)
  <2> DEFINE p == off[n - 1] + i
  <2>1. i \in 1 .. Len(h[n])
    BY <1>12, <1>13
  <2>2. IsView([view EXCEPT ![p] = NewEntry], off, g)
    BY <1>5, <1>6, <1>9, <1>12, <1>16, <1>17, <2>1, ViewChanges
  <2>3. view' = [view EXCEPT ![p] = NewEntry]
    BY <1>1, <1>15
  <2> QED  BY <2>2, <2>3
<1>19. PlacedBack(off)'
  BY <1>1, <1>3, <1>18 DEF PlacedBack, IsPlace, Usable, g
<1>20. AtEnd' /\ InBlock' /\ KeptWithoutMark' /\ KeptWithMark'
  BY <1>1, <1>4 DEF AtEnd, InBlock, KeptWithoutMark, KeptWithMark, Usable
<1> QED  BY <1>1, <1>4, <1>8, <1>19, <1>20 DEF StreamGoes

-----------------------------------------------------------------------------
(* The client stops *)

\* The first entries of a block, as they go out.
LEMMA TruncatedContents ==
  ASSUME NEW E, StreamsOf(E), NEW mem \in [1 .. LastCell -> E], NEW b \in StreamBlocks,
         NEW len \in Nat, len <= b.valid,
         NEW c, c = BlockContents(mem, Truncated(b, b.start + len))
  PROVE  /\ c \in Seq(E) /\ Len(c) = len
         /\ \A j \in 1 .. len : c[j] = BlockContents(mem, b)[j]
<1> DEFINE s == b.start
           d == BlockContents(mem, b)
           t == Truncated(b, b.start + len)
<1>1. /\ s \in Nat /\ s > 0 /\ b.valid \in Nat
      /\ \A j \in 1 .. b.valid : s + j - 1 \in 1 .. LastCell /\ d[j] = mem[s + j - 1]
  <2>1. s \in Nat /\ s > 0 /\ b.valid \in Nat
    BY BlockIs
  <2>2. \A j \in 1 .. b.valid : /\ b.start + j - 1 \in 1 .. LastCell
                                /\ BlockContents(mem, b)[j] = mem[b.start + j - 1]
    BY BlockContentsIs
  <2> QED  BY <2>1, <2>2
<1>2. t.start = s /\ t.valid = len
  <2>1. t.start = s /\ t.valid = (b.start + len) - b.start
    BY DEF Truncated, StreamBlocks
  <2>2. (b.start + len) - b.start = len
    <3> HIDE DEF t, d
    <3> QED  BY <1>1
  <2> QED  BY <2>1, <2>2
<1>3. LastCell \in Nat
  BY DEF StreamsOf, LastCell
<1> HIDE DEF s, d, t
<1>4. EndOf(t) - 1 = s + len - 1
  BY <1>1, <1>2 DEF EndOf
<1>5. c = SubSeq(mem, s, s + len - 1)
  BY <1>2, <1>4 DEF BlockContents, t
<1> DEFINE from == s
           to == s + len - 1
<1>6. from \in Int /\ to \in Int /\ to - from + 1 = len
  BY <1>1
<1>7. SubSeq(mem, from, to) = [i \in 1 .. (to - from + 1) |-> mem[i + from - 1]]
  <2>1. mem \in Seq(E)
    BY <1>3
  <2> HIDE DEF from, to
  <2> QED  BY <1>6, <2>1
<1>8. c = [i \in 1 .. len |-> mem[i + s - 1]]
  <2> HIDE DEF to
  <2>1. c = SubSeq(mem, from, to)
    BY <1>5 DEF to
  <2> QED  BY <1>6, <1>7, <2>1
<1>9. \A j \in 1 .. len : /\ j \in 1 .. b.valid /\ j + s - 1 = s + j - 1
                          /\ mem[s + j - 1] \in E /\ mem[s + j - 1] = d[j]
  <2> SUFFICES ASSUME NEW j \in 1 .. len
               PROVE  /\ j \in 1 .. b.valid /\ j + s - 1 = s + j - 1
                      /\ mem[s + j - 1] \in E /\ mem[s + j - 1] = d[j]
    OBVIOUS
  <2>1. j \in 1 .. b.valid /\ j + s - 1 = s + j - 1
    BY <1>1
  <2>2. s + j - 1 \in 1 .. LastCell /\ d[j] = mem[s + j - 1]
    BY <1>1, <2>1
  <2> QED  BY <2>1, <2>2
<1>10. c \in Seq(E) /\ Len(c) = len /\ \A j \in 1 .. len : c[j] = d[j]
  BY <1>8, <1>9
<1> QED  BY <1>10 DEF d

LEMMA PoisonStreamStops ==
  ASSUME NEW E, StreamsOf(E), StreamGoes(E), PoisonStream
  PROVE  StreamIsOver'
<1> DEFINE K == Len(kept)
           O == Len(sent)
           h == HeldBack(sent, cells, kept)
           b == kept[K]
           len == current - b.start
           blocks == [kept EXCEPT ![keptIt] = Truncated(@, current)]
           part == [n \in 1 .. K |-> BlockContents(cells, blocks[n])]
<1>1. /\ Usable /\ keptIt = K /\ client' = "poison"
      /\ sent' = sent \o [n \in 1 .. keptIt |-> BlockContents(cells, blocks[n])]
      /\ UNCHANGED <<view, place>>
  BY DEF PoisonStream, Flush
<1>2. PICK off : InStream(E, off)
  BY <1>1, UsableIs
<1>3. /\ StreamTyped(E) /\ PlacedBack(off)
      /\ K \in 1 .. K /\ b \in StreamBlocks /\ IsIn(current, b)
      /\ IsPlace(place, off, sent, kept, K, current)
  BY <1>1, <1>2 DEF InStream
<1>4. /\ current \in Nat /\ place \in Nat /\ sent \in Pieces(E) /\ kept \in Seq(StreamBlocks)
      /\ cells \in [1 .. LastCell -> E] /\ view \in Seq(E)
  BY <1>3 DEF StreamTyped
<1>5. K \in Nat /\ K > 0 /\ O \in Nat
  BY <1>3, <1>4, PiecesAre
<1>6. b.start \in Nat /\ b.valid \in Nat /\ EndOf(b) = b.start + b.valid
  BY <1>3, BlockIs
<1>7. len \in Nat /\ len <= b.valid /\ current = b.start + len
  <2> HIDE DEF b
  <2> QED  BY <1>3, <1>4, <1>6 DEF IsIn
<1>8. \A n \in 1 .. K : kept[n] \in StreamBlocks
  BY <1>4
<1>9. \A n \in 1 .. K : blocks[n] = IF n = K THEN Truncated(b, b.start + len) ELSE kept[n]
  <2>1. \A n \in 1 .. K : blocks[n] = IF n = K THEN Truncated(b, current) ELSE kept[n]
    BY <1>1, <1>4
  <2> HIDE DEF blocks, b, len
  <2> QED  BY <1>7, <2>1
<1>10. IsHeld(E, h, sent, cells, kept)
  BY <1>4, HeldIs
<1>11. /\ h \in Pieces(E) /\ Len(h) = O + K
       /\ \A n \in 1 .. O : h[n] = sent[n]
       /\ \A n \in 1 .. K : h[O + n] = BlockContents(cells, kept[n])
  <2> HIDE DEF h
  <2> QED  BY <1>10 DEF IsHeld
<1> HIDE DEF h, blocks, len
<1>12. ASSUME NEW n \in 1 .. K
       PROVE  /\ part[n] \in Seq(E)
              /\ Len(part[n]) = IF n = K THEN len ELSE Len(h[O + n])
              /\ \A j \in 1 .. Len(part[n]) : part[n][j] = h[O + n][j]
  <2>1. part[n] = BlockContents(cells, blocks[n])
    OBVIOUS
  <2>2. h[O + n] = BlockContents(cells, kept[n])
    BY <1>11
  <2> HIDE DEF part
  <2>3. CASE n = K
    <3>1. part[n] = BlockContents(cells, Truncated(b, b.start + len))
      BY <1>9, <2>1, <2>3
    <3>2. /\ part[n] \in Seq(E) /\ Len(part[n]) = len
          /\ \A j \in 1 .. len : part[n][j] = BlockContents(cells, b)[j]
      BY <1>3, <1>4, <1>7, <3>1, TruncatedContents
    <3> QED  BY <2>2, <2>3, <3>2
  <2>4. CASE n # K
    <3>1. part[n] = h[O + n]
      BY <1>9, <2>1, <2>2, <2>4
    <3>2. BlockContents(cells, kept[n]) \in Seq(E)
      BY <1>4, <1>8, BlockContentsIs
    <3> QED  BY <2>2, <2>4, <3>1, <3>2
  <2> QED  BY <2>3, <2>4
<1>13. part \in Pieces(E) /\ Len(part) = K
  <2> DEFINE X == Seq(E)
  <2>1. \A n \in 1 .. K : BlockContents(cells, blocks[n]) \in X
    BY <1>12
  <2> HIDE DEF X, K
  <2>2. part \in Seq(X) /\ Len(part) = K
    BY <1>5, <2>1
  <2> QED  BY <2>2 DEF X, Pieces
<1>14. sent' = sent \o part
  BY <1>1
<1> HIDE DEF part, b, K, O
<1>15. AreTogether(E, sent', sent, part)
  BY <1>4, <1>13, <1>14, PiecesTogether
<1>16. /\ sent' \in Pieces(E) /\ Len(sent') = O + K
       /\ \A n \in 1 .. O : sent'[n] = sent[n]
       /\ \A n \in 1 .. K : sent'[O + n] = part[n]
  BY <1>13, <1>15 DEF AreTogether, O
<1>17. ASSUME NEW m \in 1 .. O + K
       PROVE  /\ Len(sent'[m]) = IF m = O + K THEN len ELSE Len(h[m])
              /\ \A j \in 1 .. Len(sent'[m]) : sent'[m][j] = h[m][j]
  <2>1. CASE m <= O
    <3>1. m \in 1 .. O /\ m # O + K
      BY <1>5, <2>1
    <3> QED  BY <1>11, <1>16, <3>1
  <2>2. CASE O < m
    <3> DEFINE n == m - O
    <3>1. n \in 1 .. K /\ m = O + n /\ (m = O + K <=> n = K)
      BY <1>5, <2>2
    <3> HIDE DEF n
    <3> QED  BY <1>12, <1>16, <3>1
  <2> QED  BY <1>5, <2>1, <2>2
<1>18. IsView(view, off, h)
  BY <1>3 DEF PlacedBack, h
<1>19. Len(h) > 0 /\ len <= Len(h[Len(h)])
  <2>1. K \in 1 .. K
    BY <1>5
  <2>2. h[O + K] = BlockContents(cells, b)
    BY <1>11, <2>1 DEF b
  <2>3. Len(BlockContents(cells, b)) = b.valid
    BY <1>3, <1>4, BlockContentsIs
  <2> QED  BY <1>5, <1>7, <1>11, <2>2, <2>3
<1>20. FlattenSeq(sent') = SubSeq(view, 1, off[O + K - 1] + len)
  <2>1. Len(sent') = Len(h)
    BY <1>11, <1>16
  <2>2. IsCutShort(sent', h, len)
    BY <1>11, <1>17, <2>1 DEF IsCutShort
  <2>3. FlattenSeq(sent') = SubSeq(view, 1, off[Len(h) - 1] + len)
    <3>1. PICK out : out = sent'
      OBVIOUS
    <3>2. /\ view \in Seq(E) /\ len \in Nat /\ h \in Pieces(E) /\ out \in Pieces(E)
          /\ IsCutShort(out, h, len)
      BY <1>4, <1>7, <1>11, <1>16, <2>2, <3>1
    <3>3. FlattenSeq(out) = SubSeq(view, 1, off[Len(h) - 1] + len)
      BY <1>18, <1>19, <3>2, ViewStops
    <3> QED  BY <3>1, <3>3
  <2>4. Len(h) - 1 = O + K - 1
    BY <1>5, <1>11
  <2> QED  BY <2>3, <2>4
<1>21. off[O + K - 1] + len = place - 1
  <2> DEFINE before == off[O + K - 1]
  <2>1. place = before + (current - b.start) + 1
    BY <1>3 DEF IsPlace, O, b
  <2>2. before \in Nat
    <3>1. O + K - 1 \in 0 .. Len(h)
      BY <1>5, <1>11
    <3> QED  BY <1>18, <3>1 DEF IsView, AreOffsets
  <2>3. current - b.start = len
    BY DEF len
  <2> HIDE DEF before
  <2>4. before + len = place - 1
    BY <1>7, <2>1, <2>2, <2>3
  <2> QED  BY <2>4 DEF before
<1>22. FlattenSeq(sent') = SubSeq(view', 1, place' - 1)
  BY <1>1, <1>20, <1>21
<1>23. FlattenSeq(sent)' = FlattenSeq(sent')
  OBVIOUS
<1> QED  BY <1>1, <1>22, <1>23 DEF StreamIsOver

\* What is still to do then leaves what went out, and where the client is.
LEMMA OverStays ==
  ASSUME StreamIsOver, [RewindNext]_rewindVars
  PROVE  StreamIsOver'
<1>1. client \in {"refused", "poison", "done"} /\ ~Usable
  BY DEF StreamIsOver, Usable
<1>2. \/ UNCHANGED rewindVars
      \/ Refill \/ RefillPoison \/ SendPoisonBlock
  <2>1. ~(TooManyBlocks \/ NoMoreBlocks \/ NextBlock)
    BY <1>1 DEF TooManyBlocks, NoMoreBlocks, NextBlock
  <2>2. ~(Advance \/ Put \/ Mark \/ PoisonStream)
    BY <1>1 DEF Advance, Put, Mark, PoisonStream
  <2>3. ~(Rewind \/ Destroy)
    BY <1>1 DEF Rewind, Destroy
  <2> QED  BY <2>1, <2>2, <2>3 DEF RewindNext
<1>3. /\ UNCHANGED <<sent, view, place>>
      /\ \/ UNCHANGED client
         \/ client = "poison" /\ client' = "done"
  BY <1>2 DEF rewindVars, Refill, RefillPoison, SendPoisonBlock
<1>4. FlattenSeq(sent)' = FlattenSeq(sent)
  BY <1>3
<1> QED  BY <1>3, <1>4 DEF StreamIsOver

-----------------------------------------------------------------------------
(* The theorem *)

LEMMA StreamStep ==
  ASSUME NEW E, StreamsOf(E), StreamInv(E), [RewindNext]_rewindVars
  PROVE  StreamInv(E)'
<1>1. CASE StreamIsOver
  BY <1>1, OverStays DEF StreamInv
<1>2. CASE StreamGoes(E)
  <2>1. client # "poison"
    BY <1>2 DEF StreamGoes
  <2>2. CASE Refill
    BY <1>2, <2>2, RefillKeeps DEF StreamInv
  <2>3. CASE RefillPoison
    BY <1>2, <2>3, RefillPoisonKeeps DEF StreamInv
  <2>4. CASE TooManyBlocks
    BY <1>2, <2>4, TooManyBlocksKeeps DEF StreamInv
  <2>5. CASE NoMoreBlocks
    BY <1>2, <2>5, NoMoreBlocksKeeps DEF StreamInv
  <2>6. CASE NextBlock
    BY <1>2, <2>6, NextBlockKeeps DEF StreamInv
  <2>7. CASE Advance
    BY <1>2, <2>7, AdvanceKeeps DEF StreamInv
  <2>8. CASE Put
    BY <1>2, <2>8, PutKeeps DEF StreamInv
  <2>9. CASE Mark
    BY <1>2, <2>9, MarkKeeps DEF StreamInv
  <2>10. CASE Rewind
    BY <1>2, <2>10, RewindKeeps DEF StreamInv
  <2>11. CASE PoisonStream
    BY <1>2, <2>11, PoisonStreamStops DEF StreamInv
  <2>12. CASE SendPoisonBlock
    BY <2>1, <2>12 DEF SendPoisonBlock
  <2>13. CASE Destroy
    BY <1>2, <2>13, DestroyKeeps DEF StreamInv
  <2>14. CASE UNCHANGED rewindVars
    <3>1. StreamTyped(E) /\ AreApart(kept, inQueue, outQueue)
      BY <1>2 DEF StreamGoes
    <3>2. StreamTyped(E)' /\ AreApart(kept, inQueue, outQueue)'
      BY <2>14, <3>1 DEF StreamTyped, rewindVars
    <3>3. UNCHANGED <<cells, kept, keptIt, marked, current, blockEnd, hitPoison, poisoned, sent,
                      view, place, markPlace, client>>
      BY <2>14 DEF rewindVars
    <3>4. StreamGoes(E)'
      BY <1>2, <3>2, <3>3, ChainKeepsStream
    <3> QED  BY <3>4 DEF StreamInv
  <2> QED  BY <2>2, <2>3, <2>4, <2>5, <2>6, <2>7, <2>8, <2>9, <2>10, <2>11, <2>12, <2>13,
              <2>14 DEF RewindNext
<1> QED  BY <1>1, <1>2 DEF StreamInv

\* The entry of the memory that the client is at is that of its place.
LEMMA PlaceIsKept ==
  ASSUME NEW E, StreamsOf(E), NEW off, InStream(E, off)
  PROVE  cells[current] = view[place]
<1> DEFINE b == kept[keptIt]
           n == Len(sent) + keptIt
           h == HeldBack(sent, cells, kept)
           j == current - b.start + 1
           before == off[n - 1]
<1>1. /\ kept \in Seq(StreamBlocks) /\ cells \in [1 .. LastCell -> E] /\ sent \in Pieces(E)
      /\ keptIt \in Nat /\ current \in Nat /\ view \in Seq(E) /\ place \in Nat
  BY DEF InStream, StreamTyped
<1>2. /\ keptIt \in 1 .. Len(kept) /\ b \in StreamBlocks /\ IsIn(current, b)
      /\ place = off[Len(sent) + keptIt - 1] + (current - b.start) + 1
      /\ IsView(view, off, h)
  BY DEF InStream, PlacedBack, IsPlace
<1>3. b.start \in Nat /\ b.valid \in Nat /\ EndOf(b) = b.start + b.valid
  BY <1>2, BlockIs
<1>4. IsHeldBlock(h, sent, cells, kept, keptIt)
  BY <1>1, <1>2, HeldBlock
<1>5. h \in Pieces(E)
  BY <1>1, HeldIs DEF IsHeld
<1>6. Len(sent) \in Nat
  BY <1>1, PiecesAre
<1> HIDE DEF b, h
<1>7. j \in 1 .. b.valid /\ b.start + j - 1 = current
  BY <1>1, <1>2, <1>3 DEF IsIn
<1>8. n \in 1 .. Len(h) /\ Len(h[n]) = b.valid /\ h[n][j] = cells[current]
  <2> HIDE DEF j
  <2> QED  BY <1>4, <1>7 DEF IsHeldBlock, b
<1>9. n - 1 = Len(sent) + keptIt - 1
  BY <1>1, <1>6
<1> HIDE DEF n, j
<1>10. before \in Nat /\ view[before + j] = h[n][j]
  <2>1. j \in 1 .. Len(h[n])
    BY <1>7, <1>8
  <2> QED  BY <1>1, <1>2, <1>5, <1>8, <2>1, PlaceInView
<1>11. place = before + (current - b.start) + 1
  BY <1>2, <1>9
<1> HIDE DEF before
<1>12. place = before + j
  BY <1>1, <1>3, <1>10, <1>11 DEF j
<1> QED  BY <1>8, <1>10, <1>12

LEMMA StreamInvKeepsPlace ==
  ASSUME NEW E, StreamsOf(E), StreamInv(E)
  PROVE  RewindKeepsPlace
<1>1. CASE StreamIsOver
  BY <1>1 DEF StreamIsOver, RewindKeepsPlace, Usable
<1>2. CASE StreamGoes(E)
  <2>1. Usable => cells[current] = view[place]
    BY <1>2, UsableIs, PlaceIsKept
  <2>2. client # "done" /\ (client = "abort" => marked # NoMark)
    BY <1>2 DEF StreamGoes
  <2>3. marked # NoMark => markPlace # 0
    <3> SUFFICES ASSUME marked # NoMark
                 PROVE  markPlace # 0
      OBVIOUS
    <3>1. PICK off : PlacedBack(off)
      BY <1>2 DEF StreamGoes
    <3>2. /\ kept # <<>> /\ IsIn(marked, kept[1])
          /\ StreamTyped(E)
      BY <1>2 DEF StreamGoes, KeptWithMark
    <3>3. /\ kept \in Seq(StreamBlocks) /\ cells \in [1 .. LastCell -> E] /\ sent \in Pieces(E)
          /\ marked \in Nat
      BY <3>2 DEF StreamTyped
    <3> DEFINE s == kept[1].start
               before == off[Len(sent)]
               h == HeldBack(sent, cells, kept)
    <3>4. Len(sent) \in Nat
      BY <3>3, PiecesAre
    <3>5. markPlace = before + (marked - s) + 1
      <4>1. Len(sent) + 1 - 1 = Len(sent)
        BY <3>4
      <4>2. IsPlace(markPlace, off, sent, kept, 1, marked)
        BY <3>1 DEF PlacedBack
      <4> QED  BY <4>1, <4>2 DEF IsPlace
    <3>6. s \in Nat /\ s <= marked
      <4>1. 1 \in 1 .. Len(kept)
        BY <3>2, <3>3
      <4>2. kept[1] \in StreamBlocks
        BY <3>3, <4>1
      <4>3. kept[1].start \in Nat
        BY <4>2, BlockIs
      <4> QED  BY <3>2, <4>3 DEF IsIn
    <3>7. before \in Nat
      <4>1. Len(h) = Len(sent) + Len(kept)
        BY <3>3, HeldIs DEF IsHeld
      <4>2. AreOffsets(off, h)
        BY <3>1 DEF PlacedBack, IsView
      <4> HIDE DEF h
      <4>3. Len(kept) \in Nat
        BY <3>3
      <4>4. Len(sent) \in 0 .. Len(h)
        BY <3>4, <4>1, <4>3
      <4> QED  BY <4>2, <4>4 DEF AreOffsets
    <3> HIDE DEF s, before
    <3> QED  BY <3>3, <3>5, <3>6, <3>7
  <2> QED  BY <2>1, <2>2, <2>3 DEF RewindKeepsPlace
<1> QED  BY <1>1, <1>2 DEF StreamInv

\* Whatever the client does, and whatever it is that arrives, the entry that
\* the client is at is the one of its place in the stream, with what it last
\* wrote there; what has gone out when it stops is the stream up to there; and
\* it fails for want of a block only with a mark (rewindable_stream.cc:30-131).
\* This is so with two blocks, or when no block that arrives is empty.
THEOREM StreamKeepsPlace ==
  ASSUME NEW E, StreamsOf(E)
  PROVE  RewindSpec => []RewindKeepsPlace
<1>1. RewindInit => StreamInv(E)
  BY StreamBegins
<1>2. StreamInv(E) /\ [RewindNext]_rewindVars => StreamInv(E)'
  BY StreamStep
<1>3. StreamInv(E) => RewindKeepsPlace
  BY StreamInvKeepsPlace
<1> QED  BY <1>1, <1>2, <1>3, PTL DEF RewindSpec

\* Under the same conditions the assertion of operator++ and of Rewind holds:
\* the client never stands at the end of a block
\* (rewindable_stream.cc:53, 74).  Without them it can fail.
THEOREM StreamStaysInBlock ==
  ASSUME NEW E, StreamsOf(E)
  PROVE  RewindSpec => []StreamInBlock
<1>1. RewindInit => StreamInv(E)
  BY StreamBegins
<1>2. StreamInv(E) /\ [RewindNext]_rewindVars => StreamInv(E)'
  BY StreamStep
<1>3. StreamInv(E) => StreamInBlock
  <2> SUFFICES ASSUME StreamInv(E), Usable
               PROVE  current < blockEnd
    BY DEF StreamInBlock
  <2>1. StreamGoes(E)
    BY DEF StreamInv, StreamIsOver, Usable
  <2> QED  BY <2>1 DEF StreamGoes, InBlock, IsIn
<1> QED  BY <1>1, <1>2, <1>3, PTL DEF RewindSpec

=============================================================================
