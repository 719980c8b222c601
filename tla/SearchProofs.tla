---------------------------- MODULE SearchProofs ----------------------------
(***************************************************************************)
(* Lemmas about coverage vectors, spans and the guards of ProcessStack;    *)
(* the theorems about a chain of hypotheses, for every sentence length,    *)
(* every distortion limit and every set of spans the phrase table covers;  *)
(* then, on the same lemmas, the proofs about the whole search, for every  *)
(* phrase table, language model and stack size too.                        *)
(***************************************************************************)
EXTENDS Search, Derivation, TLAPS, FiniteSetTheorems, WellFoundedInduction,
        SequenceTheorems

-----------------------------------------------------------------------------
(* Arithmetic and sets. *)

\* All that the proofs use of the value of the sentinel.
LEMMA NotFoundIsPastTheSentence ==
  /\ NotFound \in Nat
  /\ InputSize \in Nat \ {0}
  /\ InputSize < NotFound
<1>1. NotFound \in Nat
  BY SMT DEF NotFound
<1> QED  BY <1>1, InputSizeAssumption

\* Every nonempty set of naturals has the minimum that Min chooses.
LEMMA MinOfNaturals ==
  ASSUME NEW S \in SUBSET Nat, S # {}
  PROVE  Min(S) \in S /\ \A n \in S : Min(S) <= n
<1> DEFINE R == {ss \in Nat \X Nat : ss[1] < ss[2]}
<1>1. IsWellFoundedOn(R, Nat)
  BY NatLessThanWellFounded DEF OpToRel
<1>2. \E x \in S : \A y \in S : x <= y
  <2>1. PICK x \in S : \A y \in S : ~ (<<y, x>> \in R)
    BY <1>1, WFMin
  <2>2. ASSUME NEW y \in S
        PROVE  x <= y
    <3>1. <<y, x>> \in Nat \X Nat /\ <<y, x>> \notin R
      BY <2>1
    <3>2. ~ (<<y, x>>[1] < <<y, x>>[2])
      BY <3>1
    <3> QED  BY <3>2
  <2> QED  BY <2>2
<1> QED  BY <1>2 DEF Min

\* What the scan of SetValueNonOverlap finds: NotFound when every later
\* position is covered, else the first later position that is not.
LEMMA FirstGapAfterFinds ==
  ASSUME NEW covered \in SUBSET Positions, NEW pos \in Positions
  PROVE  LET gap == FirstGapAfter(covered, pos)
         IN  /\ gap \in Positions \union {NotFound}
             /\ gap > pos
             /\ gap \notin covered
             /\ \A p \in Positions : pos < p /\ p < gap => p \in covered
<1> DEFINE gaps == {p \in Positions : p > pos /\ p \notin covered}
<1>1. gaps \in SUBSET Nat
  BY NotFoundIsPastTheSentence DEF Positions
<1>2. CASE gaps = {}
  BY <1>2, NotFoundIsPastTheSentence DEF FirstGapAfter, Positions
<1>3. CASE gaps # {}
  <2>1. FirstGapAfter(covered, pos) = Min(gaps)
    BY <1>3 DEF FirstGapAfter
  <2>2. Min(gaps) \in gaps /\ \A n \in gaps : Min(gaps) <= n
    BY <1>1, <1>3, MinOfNaturals
  <2>3. ASSUME NEW p \in Positions, pos < p, p < Min(gaps)
        PROVE  p \in covered
    BY <2>2, <2>3, NotFoundIsPastTheSentence DEF Positions
  <2> QED  BY <2>1, <2>2, <2>3
<1> QED  BY <1>2, <1>3

LEMMA PositionsFinite ==
  /\ IsFiniteSet(Positions)
  /\ Cardinality(Positions) = InputSize
  /\ \A S \in SUBSET Positions :
       IsFiniteSet(S) /\ Cardinality(S) \in 0 .. InputSize
<1>1. IsFiniteSet(Positions) /\ Cardinality(Positions) = InputSize
  BY FS_Interval, NotFoundIsPastTheSentence DEF Positions
<1>2. ASSUME NEW S \in SUBSET Positions
      PROVE  IsFiniteSet(S) /\ Cardinality(S) \in 0 .. InputSize
  <2>1. IsFiniteSet(S) /\ Cardinality(S) <= InputSize
    BY <1>1, FS_Subset
  <2>2. Cardinality(S) \in Nat
    BY <2>1, FS_CardinalityType
  <2> QED  BY <2>1, <2>2, NotFoundIsPastTheSentence
<1> QED  BY <1>1, <1>2

\* A span that does not overlap adds exactly its number of words.
LEMMA SpanAddsItsWords ==
  ASSUME NEW covered \in SUBSET Positions, NEW r \in Spans,
         Words(r) \intersect covered = {}
  PROVE  /\ covered \union Words(r) \in SUBSET Positions
         /\ Cardinality(covered \union Words(r))
              = Cardinality(covered) + GetNumWordsCovered(r)
         /\ GetNumWordsCovered(r) \in Nat \ {0}
<1>1. /\ r.startPos \in Positions /\ r.endPos \in Positions
      /\ r.startPos <= r.endPos
  BY DEF Spans
<1>2. Words(r) \in SUBSET Positions
  BY <1>1, NotFoundIsPastTheSentence DEF Words, Positions
<1>3. IsFiniteSet(Words(r)) /\ IsFiniteSet(covered)
  BY <1>2, PositionsFinite
<1>4. Cardinality(Words(r)) = GetNumWordsCovered(r)
  <2>1. r.startPos \in Int /\ r.endPos \in Int /\ r.startPos # NotFound
    BY <1>1, NotFoundIsPastTheSentence DEF Positions
  <2>2. Cardinality(r.startPos .. r.endPos) = r.endPos - r.startPos + 1
    BY <1>1, <2>1, FS_Interval
  <2> QED  BY <2>1, <2>2 DEF Words, GetNumWordsCovered
<1>5. Cardinality(covered \union Words(r))
        = Cardinality(covered) + Cardinality(Words(r)) - Cardinality({})
  <2>1. covered \intersect Words(r) = {}
    OBVIOUS
  <2> QED  BY <1>3, <2>1, FS_Union
<1>6. Cardinality(covered) \in Nat /\ Cardinality(Words(r)) \in Nat
  BY <1>3, FS_CardinalityType
<1>7. GetNumWordsCovered(r) \in Nat \ {0}
  BY <1>1, NotFoundIsPastTheSentence DEF GetNumWordsCovered, Positions
<1> QED  BY <1>2, <1>4, <1>5, <1>6, <1>7, FS_EmptySet

\* The distance between positions, without the conditionals.
LEMMA DistanceBetweenPositions ==
  ASSUME NEW prev \in Positions, NEW curr \in Int, NEW d \in Int
  PROVE  /\ ComputeDistortionDistance(prev, curr) \in Nat
         /\ ComputeDistortionDistance(prev, curr) <= d
              <=> prev - curr + 1 <= d /\ curr - prev - 1 <= d
<1>1. prev # NotFound /\ prev \in Int
  BY NotFoundIsPastTheSentence DEF Positions
<1> QED  BY <1>1 DEF ComputeDistortionDistance

\* Laying a span over a bitmap whose caches are exact keeps them exact.
LEMMA SetValueKeepsCaches ==
  ASSUME NEW bm \in Bitmaps, CountIsExact(bm), GapIsFirst(bm),
         NEW r \in Spans, ~Overlap(bm, r)
  PROVE  LET new == SetValueNonOverlap(bm, r)
         IN  new \in Bitmaps /\ CountIsExact(new) /\ GapIsFirst(new)
<1> DEFINE new == SetValueNonOverlap(bm, r)
<1>1. /\ bm.covered \in SUBSET Positions
      /\ bm.numWordsCovered \in Nat
      /\ bm.firstGap \in Positions \union {NotFound}
      /\ Words(r) \intersect bm.covered = {}
      /\ r.startPos \in Positions /\ r.endPos \in Positions
      /\ r.startPos <= r.endPos
  BY DEF Bitmaps, Overlap, Spans
<1>2. /\ new.covered = bm.covered \union Words(r)
      /\ new.numWordsCovered = bm.numWordsCovered + GetNumWordsCovered(r)
  BY DEF SetValueNonOverlap
<1>3. /\ new.covered \in SUBSET Positions
      /\ Cardinality(new.covered) = Cardinality(bm.covered) + GetNumWordsCovered(r)
      /\ GetNumWordsCovered(r) \in Nat \ {0}
  BY <1>1, <1>2, SpanAddsItsWords
<1>4. new.numWordsCovered \in Nat /\ CountIsExact(new)
  BY <1>1, <1>2, <1>3 DEF CountIsExact
<1>5. new.firstGap \in Positions \union {NotFound} /\ GapIsFirst(new)
  <2>1. CASE bm.firstGap \in Words(r)
    <3>1. new.firstGap = FirstGapAfter(new.covered, r.endPos)
      BY <2>1 DEF SetValueNonOverlap
    <3>2. /\ new.firstGap \in Positions \union {NotFound}
          /\ new.firstGap \notin new.covered
          /\ \A p \in Positions :
               r.endPos < p /\ p < new.firstGap => p \in new.covered
      BY <1>1, <1>3, <3>1, FirstGapAfterFinds
    <3>3. ASSUME NEW p \in Positions, p < new.firstGap
          PROVE  p \in new.covered
      <4>1. CASE p > r.endPos
        BY <1>1, <3>2, <3>3, <4>1
      <4>2. CASE p <= r.endPos /\ p >= bm.firstGap
        BY <1>1, <1>2, <2>1, <4>2, NotFoundIsPastTheSentence DEF Words, Positions
      <4>3. CASE p < bm.firstGap
        BY <1>2, <4>3 DEF GapIsFirst
      <4> QED  BY <1>1, <4>1, <4>2, <4>3, NotFoundIsPastTheSentence DEF Positions
    <3> QED  BY <3>2, <3>3 DEF GapIsFirst
  <2>2. CASE bm.firstGap \notin Words(r)
    <3>1. new.firstGap = bm.firstGap
      BY <2>2 DEF SetValueNonOverlap
    <3> QED  BY <1>1, <1>2, <2>2, <3>1 DEF GapIsFirst
  <2> QED  BY <2>1, <2>2
<1>6. new \in Bitmaps
  BY <1>3, <1>4, <1>5 DEF Bitmaps, SetValueNonOverlap
<1> QED  BY <1>4, <1>5, <1>6

-----------------------------------------------------------------------------
(* What the guards preserve. *)

\* What is translated ahead of the first gap stays within the limit of it.
Window(bm) ==
  MaxDistortion >= 0 => \A p \in bm.covered : p < bm.firstGap + MaxDistortion

\* The jump from the last span to the first gap is within the limit.
GapWithin(bm, prevEndPos) ==
  MaxDistortion >= 0 /\ bm.firstGap # NotFound =>
    ComputeDistortionDistance(prevEndPos, bm.firstGap) <= MaxDistortion

\* What the search keeps of the bitmap of a hypothesis and the end of its span.
WellPlaced(bm, prevEndPos) ==
  /\ bm \in Bitmaps
  /\ CountIsExact(bm)
  /\ GapIsFirst(bm)
  /\ Window(bm)
  /\ GapWithin(bm, prevEndPos)

LEMMA EmptyIsWellPlaced == WellPlaced(InitialBitmap, NotFound)
<1>1. 0 \in Positions /\ 0 # NotFound
  BY NotFoundIsPastTheSentence DEF Positions
<1>2. InitialBitmap \in Bitmaps
  BY <1>1 DEF InitialBitmap, Bitmaps
<1>3. CountIsExact(InitialBitmap) /\ GapIsFirst(InitialBitmap)
  BY FS_EmptySet DEF InitialBitmap, CountIsExact, GapIsFirst, Positions
<1>4. Window(InitialBitmap)
  BY DEF InitialBitmap, Window
<1>5. GapWithin(InitialBitmap, NotFound)
  BY MaxDistortionAssumption
  DEF InitialBitmap, GapWithin, ComputeDistortionDistance
<1> QED  BY <1>2, <1>3, <1>4, <1>5 DEF WellPlaced

\* An extension that the guards allow: the caches stay exact, and so do the two
\* facts about the limit, whichever of the two guards let the span in.
LEMMA ExtensionIsWellPlaced ==
  ASSUME NEW bm, NEW prevEndPos, WellPlaced(bm, prevEndPos),
         NEW r \in Spans, CanExtend(bm, prevEndPos, r)
  PROVE  WellPlaced(SetValueNonOverlap(bm, r), r.endPos)
<1> DEFINE gap == bm.firstGap
           new == SetValueNonOverlap(bm, r)
<1>1. /\ r.startPos \in Positions /\ r.endPos \in Positions
      /\ r.startPos <= r.endPos
      /\ bm \in Bitmaps /\ CountIsExact(bm) /\ GapIsFirst(bm) /\ Window(bm)
      /\ bm.covered \in SUBSET Positions
      /\ gap \in Positions \union {NotFound}
  BY DEF Spans, Bitmaps, WellPlaced
<1>2. ~Overlap(bm, r) /\ ReturnAllowed(bm, r)
  BY DEF CanExtend
<1>3. new \in Bitmaps /\ CountIsExact(new) /\ GapIsFirst(new)
  BY <1>1, <1>2, SetValueKeepsCaches
<1>4. /\ new.covered = bm.covered \union Words(r)
      /\ new.covered \in SUBSET Positions
      /\ new.firstGap \in Positions \union {NotFound}
  BY <1>3 DEF SetValueNonOverlap, Bitmaps
\* A span that starts before the gap would overlap.
<1>5. r.startPos >= gap
  BY <1>1, <1>2, NotFoundIsPastTheSentence
  DEF GapIsFirst, Overlap, Words, Positions
<1>6. CASE r.startPos = gap
  <2>1. gap \in Words(r) /\ new.firstGap = FirstGapAfter(new.covered, r.endPos)
    BY <1>1, <1>6, NotFoundIsPastTheSentence
    DEF Words, SetValueNonOverlap, Positions
  <2>2. /\ new.firstGap > r.endPos
        /\ \A p \in Positions :
             r.endPos < p /\ p < new.firstGap => p \in new.covered
    BY <1>1, <1>4, <2>1, FirstGapAfterFinds
  <2>3. Window(new)
    <3> SUFFICES ASSUME MaxDistortion >= 0, NEW p \in new.covered
                 PROVE  p < new.firstGap + MaxDistortion
      BY DEF Window
    <3>1. CASE p \in bm.covered
      BY <1>1, <1>4, <1>6, <2>2, <3>1, MaxDistortionAssumption,
         NotFoundIsPastTheSentence DEF Window, Positions
    <3>2. CASE p \in Words(r)
      BY <1>1, <1>4, <2>2, <3>2, MaxDistortionAssumption,
         NotFoundIsPastTheSentence DEF Words, Positions
    <3> QED  BY <1>4, <3>1, <3>2
  <2>4. GapWithin(new, r.endPos)
    <3> SUFFICES ASSUME MaxDistortion >= 0, new.firstGap # NotFound
                 PROVE  ComputeDistortionDistance(r.endPos, new.firstGap)
                          <= MaxDistortion
      BY DEF GapWithin
    <3>1. new.firstGap \in Positions /\ new.firstGap \in Int
          /\ r.endPos \in Int /\ gap \in Int
      BY <1>1, <1>4, NotFoundIsPastTheSentence DEF Positions
    <3>2. new.firstGap - r.endPos - 1 <= MaxDistortion
      <4>1. CASE new.firstGap = r.endPos + 1
        BY <3>1, <4>1, MaxDistortionAssumption
      <4>2. CASE new.firstGap > r.endPos + 1
        \* The word before the new gap was translated ahead of the old one.
        <5>1. new.firstGap - 1 \in Positions
          BY <1>1, <3>1, <4>2, NotFoundIsPastTheSentence DEF Positions
        <5>2. new.firstGap - 1 \in bm.covered
          BY <1>4, <2>2, <3>1, <4>2, <5>1 DEF Words
        <5>3. new.firstGap - 1 < gap + MaxDistortion
          BY <1>1, <5>2 DEF Window
        <5> QED  BY <1>1, <1>6, <3>1, <5>3, MaxDistortionAssumption
      <4> QED  BY <2>2, <3>1, <4>1, <4>2
    <3> QED  BY <1>1, <2>2, <3>1, <3>2, DistanceBetweenPositions,
                MaxDistortionAssumption
  <2> QED  BY <1>3, <2>3, <2>4 DEF WellPlaced
<1>7. CASE r.startPos # gap
  <2>1. new.firstGap = gap
    BY <1>1, <1>5, <1>7, NotFoundIsPastTheSentence
    DEF Words, SetValueNonOverlap, Positions
  <2>2. MaxDistortion >= 0 =>
          ComputeDistortionDistance(r.endPos, gap) <= MaxDistortion
    BY <1>2, <1>7, MaxDistortionAssumption DEF ReturnAllowed
  <2>3. gap \in Int /\ r.endPos \in Int
    BY <1>1, NotFoundIsPastTheSentence DEF Positions
  <2>4. MaxDistortion >= 0 => r.endPos - gap + 1 <= MaxDistortion
    BY <1>1, <2>2, <2>3, DistanceBetweenPositions, MaxDistortionAssumption
  <2>5. Window(new)
    <3> SUFFICES ASSUME MaxDistortion >= 0, NEW p \in new.covered
                 PROVE  p < gap + MaxDistortion
      BY <2>1 DEF Window
    <3>1. CASE p \in bm.covered
      BY <1>1, <3>1 DEF Window
    <3>2. CASE p \in Words(r)
      BY <2>3, <2>4, <3>2, <1>1, MaxDistortionAssumption DEF Words, Positions
    <3> QED  BY <1>4, <3>1, <3>2
  <2>6. GapWithin(new, r.endPos)
    BY <2>1, <2>2 DEF GapWithin
  <2> QED  BY <1>3, <2>5, <2>6 DEF WellPlaced
<1> QED  BY <1>6, <1>7

\* An extension covers more words, and no more than there are.
LEMMA ExtensionCoversMore ==
  ASSUME NEW bm \in Bitmaps, CountIsExact(bm), GapIsFirst(bm),
         NEW r \in Spans, ~Overlap(bm, r)
  PROVE  LET new == SetValueNonOverlap(bm, r)
         IN  /\ new.numWordsCovered > bm.numWordsCovered
             /\ new.numWordsCovered <= InputSize
             /\ r.startPos = r.endPos =>
                  new.numWordsCovered = bm.numWordsCovered + 1
<1> DEFINE new == SetValueNonOverlap(bm, r)
<1>1. bm.numWordsCovered \in Nat /\ bm.covered \in SUBSET Positions
  BY DEF Bitmaps
<1>2. new.numWordsCovered = bm.numWordsCovered + GetNumWordsCovered(r)
  BY DEF SetValueNonOverlap
<1>3. GetNumWordsCovered(r) \in Nat \ {0}
  BY <1>1, SpanAddsItsWords DEF Overlap
<1>4. new.numWordsCovered = Cardinality(new.covered)
      /\ new.covered \in SUBSET Positions
  BY SetValueKeepsCaches DEF CountIsExact, Bitmaps
<1>5. new.numWordsCovered <= InputSize
  BY <1>4, PositionsFinite, NotFoundIsPastTheSentence
<1>6. r.startPos = r.endPos => GetNumWordsCovered(r) = 1
  <2>1. r.startPos \in Positions /\ r.startPos \in Int /\ r.startPos # NotFound
    BY NotFoundIsPastTheSentence DEF Spans, Positions
  <2> QED  BY <2>1 DEF GetNumWordsCovered
<1> QED  BY <1>1, <1>2, <1>3, <1>5, <1>6

\* The guards never paint the search into a corner: the word at the first gap
\* can always be translated next.
LEMMA GapCanBeLaid ==
  ASSUME NEW bm, NEW prevEndPos, WellPlaced(bm, prevEndPos),
         NEW r \in Spans, r.startPos = bm.firstGap, r.endPos = bm.firstGap
  PROVE  CanExtend(bm, prevEndPos, r)
<1>1. bm.firstGap \in Positions /\ bm.firstGap # NotFound
  BY NotFoundIsPastTheSentence DEF Spans, Positions
<1>2. ~Overlap(bm, r)
  BY <1>1, NotFoundIsPastTheSentence
  DEF WellPlaced, GapIsFirst, Overlap, Words, Positions
<1>3. JumpAllowed(prevEndPos, r)
  BY <1>1 DEF WellPlaced, GapWithin, JumpAllowed
<1>4. ReturnAllowed(bm, r)
  BY DEF ReturnAllowed
<1> QED  BY <1>2, <1>3, <1>4 DEF CanExtend

-----------------------------------------------------------------------------
(* A chain of hypotheses: the inductive invariant. *)

DerivationInv ==
  /\ DerivationTyped
  /\ CountIsExact(bitmap)
  /\ GapIsFirst(bitmap)
  /\ WithinWindow
  /\ GapInReach

\* The invariant says of the chain what the lemmas say of a bitmap and the end
\* of a span.
LEMMA InvariantIsWellPlaced ==
  DerivationInv <=> /\ range \in Spans \union {InitRange}
           /\ WellPlaced(bitmap, range.endPos)
BY DEF DerivationInv, DerivationTyped, WithinWindow, GapInReach, WellPlaced, Window, GapWithin

LEMMA DerivationStarts == DerivationInit => DerivationInv
BY InvariantIsWellPlaced, EmptyIsWellPlaced DEF DerivationInit, InitRange

LEMMA DerivationKeeps == DerivationInv /\ [DerivationNext]_derivationVars => DerivationInv'
<1> SUFFICES ASSUME DerivationInv, [DerivationNext]_derivationVars PROVE DerivationInv'
  OBVIOUS
<1>1. CASE UNCHANGED derivationVars
  BY <1>1 DEF derivationVars, DerivationInv, DerivationTyped, CountIsExact, GapIsFirst, WithinWindow, GapInReach
<1>2. ASSUME NEW r \in Paths, ExtendChain(r)
      PROVE  DerivationInv'
  <2>1. r \in Spans /\ CanExtend(bitmap, range.endPos, r)
        /\ bitmap' = SetValueNonOverlap(bitmap, r) /\ range' = r
    BY <1>2, PathsAssumption DEF ExtendChain
  <2>2. WellPlaced(bitmap', range'.endPos)
    BY <2>1, InvariantIsWellPlaced, ExtensionIsWellPlaced
  <2> QED
    BY <2>1, <2>2 DEF DerivationInv, DerivationTyped, WithinWindow, GapInReach, WellPlaced,
                      Window, GapWithin
<1> QED  BY <1>1, <1>2 DEF DerivationNext

LEMMA DerivationInvariance == DerivationSpec => []DerivationInv
BY DerivationStarts, DerivationKeeps, PTL DEF DerivationSpec

-----------------------------------------------------------------------------
(* A chain of hypotheses: the theorems. *)

(* The fields of a hypothesis always hold positions of the sentence or the *)
(* sentinel, however the spans are laid (Bitmap.cu:26-65).                 *)
THEOREM TypeCorrect == DerivationSpec => []DerivationTyped
BY DerivationInvariance, PTL DEF DerivationInv

(* The cached word count and first gap of every bitmap the search builds are*)
(* exact, so that the stack index and the distortion tests of ProcessStack *)
(* read the truth (Bitmap.cu:38-65).                                       *)
THEOREM CachesAreExact == DerivationSpec => []CacheExact
<1>1. DerivationInv => CacheExact
  <2> SUFFICES ASSUME DerivationInv PROVE CacheExact
    OBVIOUS
  <2>1. /\ CountIsExact(bitmap) /\ GapIsFirst(bitmap)
        /\ bitmap.covered \in SUBSET Positions
        /\ bitmap.firstGap \in Positions \union {NotFound}
    BY DEF DerivationInv, DerivationTyped, Bitmaps
  <2>2. bitmap.covered = Positions <=> bitmap.firstGap = NotFound
    <3>1. CASE bitmap.firstGap \in Positions
      BY <2>1, <3>1, NotFoundIsPastTheSentence DEF GapIsFirst, Positions
    <3>2. CASE bitmap.firstGap = NotFound
      <4>1. \A p \in Positions : p < NotFound
        BY NotFoundIsPastTheSentence DEF Positions
      <4> QED  BY <2>1, <3>2, <4>1 DEF GapIsFirst
    <3> QED  BY <2>1, <3>1, <3>2
  <2>3. bitmap.covered = Positions <=> Cardinality(bitmap.covered) = InputSize
    BY <2>1, PositionsFinite, FS_Subset
  <2> QED  BY <2>1, <2>2, <2>3 DEF CacheExact, CountIsExact, IsComplete
<1> QED  BY <1>1, DerivationInvariance, PTL

(* Under a distortion limit, what is translated ahead of the first gap stays*)
(* within the limit of it (Manager.cu:92-114).                             *)
THEOREM StaysWithinWindow == DerivationSpec => []WithinWindow
BY DerivationInvariance, PTL DEF DerivationInv

(* Whatever the limit, ProcessStack never builds a hypothesis whose leftmost*)
(* untranslated word can no longer be translated next: the guards that limit*)
(* the jumps are enough, with no look-ahead (Manager.cu:88-114).           *)
THEOREM NeverDeadEnds == DerivationSpec => []NoDeadEnd
<1>1. DerivationInv => NoDeadEnd
  <2> SUFFICES ASSUME DerivationInv, NEW r \in Paths,
                      r.startPos = bitmap.firstGap, r.endPos = bitmap.firstGap
               PROVE  CanExtend(bitmap, range.endPos, r)
    BY DEF NoDeadEnd
  <2> QED  BY InvariantIsWellPlaced, GapCanBeLaid, PathsAssumption
<1> QED  BY <1>1, DerivationInvariance, PTL

(* Every extension goes to a later stack that exists: no thread of a kernel*)
(* writes to the stack the kernel reads, nor past m_stacks (Manager.cu:206).*)
THEOREM AlwaysClimbs == DerivationSpec => ClimbsStacks
<1>1. DerivationInv /\ [DerivationNext]_derivationVars
        => [/\ bitmap'.numWordsCovered > bitmap.numWordsCovered
            /\ bitmap'.numWordsCovered <= InputSize]_derivationVars
  <2> SUFFICES ASSUME DerivationInv, NEW r \in Paths, ExtendChain(r)
               PROVE  /\ bitmap'.numWordsCovered > bitmap.numWordsCovered
                      /\ bitmap'.numWordsCovered <= InputSize
    BY DEF DerivationNext
  <2>1. /\ r \in Spans /\ bitmap \in Bitmaps
        /\ CountIsExact(bitmap) /\ GapIsFirst(bitmap) /\ ~Overlap(bitmap, r)
        /\ bitmap' = SetValueNonOverlap(bitmap, r)
    BY PathsAssumption DEF DerivationInv, DerivationTyped, ExtendChain, CanExtend
  <2> QED  BY <2>1, ExtensionCoversMore
<1> QED  BY <1>1, DerivationInvariance, PTL DEF DerivationSpec, ClimbsStacks

-----------------------------------------------------------------------------
(* The search: the inductive invariant. *)

\* The steps a hypothesis is made of.
Steps == [range : Spans, phrase : Nat, lm : LMOutcomes]

LastRange(h) ==
  IF h.steps = <<>> THEN InitRange ELSE h.steps[Len(h.steps)].range

WellFormed(h) ==
  /\ h.steps \in Seq(Steps)
  /\ h.range = LastRange(h)
  /\ h.score \in Int
  /\ WellPlaced(h.bitmap, h.range.endPos)
  /\ Legal(h)

StackIsSound(i) ==
  /\ IsFiniteSet(stacks[i])
  /\ \A h \in stacks[i] : WellFormed(h) /\ Cardinality(h.bitmap.covered) = i

Control ==
  /\ phase \in {"first", "prune", "process", "best", "done", "assert"}
  /\ stage \in StackIndices
  /\ DOMAIN stacks = StackIndices
  /\ phase = "first" => stage = 0 /\ \A i \in StackIndices : stacks[i] = {}
  /\ phase \in {"prune", "process"} => stage < InputSize
  /\ phase \in {"best", "done", "assert"} => stage = InputSize
  /\ phase # "process" => todo = {}

\* The stacks that no step changes any more.
Settled(i) == i < stage \/ (i = stage /\ phase = "process")

\* The previous hypothesis is in a stack that is settled.
ChainsAreSettled ==
  \A i \in StackIndices : \A h \in stacks[i] :
    h.steps # <<>> =>
      \E j \in StackIndices :
        Settled(j) /\ \E p \in stacks[j] : p.steps = Front(h.steps)

BlocksAreSound ==
  /\ todo \subseteq [prev : stacks[stage], range : Spans, next : Nat \ {0}]
  /\ \A b \in todo : /\ b.next <= Len(TargetPhrases[b.range])
                     /\ CanExtend(b.prev.bitmap, b.prev.range.endPos, b.range)

IInv ==
  /\ Control
  /\ \A i \in StackIndices : StackIsSound(i)
  /\ heap = UNION {stacks[i] : i \in StackIndices}
  /\ ChainsAreSettled
  /\ BlocksAreSound

-----------------------------------------------------------------------------
(* What the operations of a stack do to it. *)

LEMMA PruneKeeps ==
  ASSUME NEW coll, IsFiniteSet(coll), NEW kept \in Prune(coll)
  PROVE  /\ kept \in SUBSET coll
         /\ IsFiniteSet(kept)
         /\ coll # {} => kept # {}
<1>1. CASE Cardinality(coll) < StackSize
  BY <1>1 DEF Prune
<1>2. CASE ~ (Cardinality(coll) < StackSize)
  <2>1. kept \in SUBSET coll /\ Cardinality(kept) = StackSize
    BY <1>2 DEF Prune, kSubset
  <2>2. kept # {}
    BY <2>1, FS_EmptySet, StackSizeAssumption
  <2> QED  BY <2>1, <2>2, FS_Subset
<1> QED  BY <1>1, <1>2

LEMMA AddKeeps ==
  ASSUME NEW coll, IsFiniteSet(coll), NEW hypo, NEW new \in Add(coll, hypo)
  PROVE  /\ new \in SUBSET (coll \union {hypo})
         /\ IsFiniteSet(new)
         /\ new # {}
<1>1. PICK room \in MakeRoom(coll) : new = Recombine(room, hypo)
  BY DEF Add
<1>2. room \in SUBSET coll
  BY PruneKeeps DEF MakeRoom
<1>3. new \in SUBSET (room \union {hypo}) /\ new # {}
  BY <1>1 DEF Recombine, Same
<1>4. IsFiniteSet(coll \union {hypo})
  BY FS_AddElement
<1> QED  BY <1>2, <1>3, <1>4, FS_Subset

\* Deleting what the stack gives up leaves the hypotheses of all the stacks,
\* if no other stack has one of those.
LEMMA DeletingIsExact ==
  ASSUME NEW others, NEW coll, NEW hypo, NEW new \in SUBSET (coll \union {hypo}),
         others \intersect (coll \union {hypo}) = {}
  PROVE  ((others \union coll) \union {hypo}) \ Deleted(coll, hypo, new)
           = others \union new
BY DEF Deleted

-----------------------------------------------------------------------------
(* What a step of the target phrase loop makes. *)

LEMMA EmptyIsWellFormed ==
  /\ WellFormed(EmptyHypothesis)
  /\ Cardinality(EmptyHypothesis.bitmap.covered) = 0
  /\ EmptyHypothesis.steps = <<>>
<1>1. EmptyHypothesis.bitmap = InitialBitmap /\ EmptyHypothesis.range = InitRange
      /\ EmptyHypothesis.steps = <<>> /\ EmptyHypothesis.score = 0
  BY DEF EmptyHypothesis
<1>2. Legal(EmptyHypothesis)
  BY <1>1 DEF Legal, InitialBitmap
<1>3. WellPlaced(EmptyHypothesis.bitmap, EmptyHypothesis.range.endPos)
  BY <1>1, EmptyIsWellPlaced DEF InitRange
<1> QED  BY <1>1, <1>2, <1>3, FS_EmptySet DEF WellFormed, LastRange, InitialBitmap

\* The end of the last span, as the distance measure takes it and as the jumps
\* of a derivation are measured.
LEMMA JumpIsDistance ==
  ASSUME NEW h, WellFormed(h), NEW r \in Spans, JumpAllowed(h.range.endPos, r),
         MaxDistortion >= 0,
         NEW hypo, NEW step, step.range = r, hypo.steps = Append(h.steps, step)
  PROVE  Jump(hypo, Len(h.steps) + 1) <= MaxDistortion
<1> DEFINE n == Len(h.steps)
<1>1. n \in Nat /\ h.steps \in Seq(Steps) /\ hypo.steps[n + 1] = step
  BY DEF WellFormed
<1>2. r.startPos \in Positions /\ r.startPos \in Int
  BY NotFoundIsPastTheSentence DEF Spans, Positions
<1>3. ComputeDistortionDistance(h.range.endPos, r.startPos) <= MaxDistortion
  BY DEF JumpAllowed
<1>4. CASE n = 0
  <2>1. h.range.endPos = NotFound
    BY <1>1, <1>4 DEF WellFormed, LastRange, InitRange
  <2> QED  BY <1>1, <1>2, <1>3, <1>4, <2>1
           DEF Jump, ComputeDistortionDistance
<1>5. CASE n # 0
  <2>1. hypo.steps[n] = h.steps[n] /\ h.steps[n] \in Steps /\ h.steps # <<>>
    BY <1>1, <1>5
  <2>2. h.range = h.steps[n].range /\ h.range \in Spans
    BY <2>1 DEF WellFormed, LastRange, Steps
  <2>3. h.range.endPos \in Positions /\ h.range.endPos \in Int
        /\ h.range.endPos # NotFound
    BY <2>2, NotFoundIsPastTheSentence DEF Spans, Positions
  <2>4. Jump(hypo, n + 1)
          = LET dist == r.startPos - h.range.endPos - 1
            IN  IF dist < 0 THEN -dist ELSE dist
    BY <1>1, <1>5, <2>1, <2>2 DEF Jump
  <2> QED  BY <1>2, <1>3, <2>3, <2>4, MaxDistortionAssumption
           DEF ComputeDistortionDistance
<1> QED  BY <1>4, <1>5

LEMMA ElementIsTyped ==
  ASSUME NEW S, NEW seq \in Seq(S), NEW i \in 1 .. Len(seq)
  PROVE  seq[i] \in S
OBVIOUS

LEMMA PhraseIsTyped ==
  ASSUME NEW r \in Spans, NEW i \in Nat \ {0}, i <= Len(TargetPhrases[r])
  PROVE  TargetPhrases[r][i].score \in Int
<1>1. TargetPhrases[r] \in Seq([score : Int])
  BY TargetPhrasesAssumption
<1>2. i \in 1 .. Len(TargetPhrases[r])
  BY <1>1
<1>3. TargetPhrases[r][i] \in [score : Int]
  BY <1>1, <1>2, ElementIsTyped
<1> QED  BY <1>3

\* The distance is between 0 and the length of the sentence.
LEMMA DistanceIsTyped ==
  ASSUME NEW h, WellFormed(h), NEW r \in Spans
  PROVE  ComputeDistortionDistance(h.range.endPos, r.startPos) \in 0 .. InputSize
<1>1. r.startPos \in Positions
  BY DEF Spans
<1>2. h.range.endPos \in Positions \union {NotFound}
  <2>1. CASE h.steps = <<>>
    BY <2>1 DEF WellFormed, LastRange, InitRange
  <2>2. CASE h.steps # <<>>
    <3>1. h.steps[Len(h.steps)] \in Steps
      BY <2>2 DEF WellFormed
    <3> QED  BY <2>2, <3>1 DEF WellFormed, LastRange, Steps, Spans
  <2> QED  BY <2>1, <2>2
<1> QED  BY <1>1, <1>2, NotFoundIsPastTheSentence
         DEF ComputeDistortionDistance, Positions

LEMMA ExtensionIsLegal ==
  ASSUME NEW h, WellFormed(h), NEW r \in Spans,
         CanExtend(h.bitmap, h.range.endPos, r),
         NEW hypo, NEW step \in Steps, step.range = r,
         hypo.steps = Append(h.steps, step),
         hypo.bitmap = SetValueNonOverlap(h.bitmap, r)
  PROVE  Legal(hypo)
<1> DEFINE n == Len(h.steps)
<1>1. n \in Nat /\ h.steps \in Seq(Steps) /\ Legal(h)
  BY DEF WellFormed
<1>2. /\ DOMAIN h.steps = 1 .. n /\ DOMAIN hypo.steps = 1 .. (n + 1)
      /\ \A i \in 1 .. n : hypo.steps[i] = h.steps[i]
      /\ hypo.steps[n + 1] = step
  BY <1>1
<1>3. Words(r) \intersect h.bitmap.covered = {}
  BY DEF CanExtend, Overlap
<1>4. h.bitmap.covered = UNION {Words(h.steps[i].range) : i \in 1 .. n}
  BY <1>1, <1>2 DEF Legal
<1>5. \A i \in 1 .. n : Words(h.steps[i].range) \intersect Words(r) = {}
  BY <1>3, <1>4
<1>6. ASSUME NEW i \in DOMAIN hypo.steps, NEW j \in DOMAIN hypo.steps, i # j
      PROVE  Words(hypo.steps[i].range) \intersect Words(hypo.steps[j].range) = {}
  <2>1. CASE i \in 1 .. n /\ j \in 1 .. n
    BY <1>1, <1>2, <1>6, <2>1 DEF Legal
  <2>2. CASE i \in 1 .. n /\ j = n + 1
    BY <1>2, <1>5, <2>2
  <2>3. CASE i = n + 1 /\ j \in 1 .. n
    BY <1>2, <1>5, <2>3
  <2>4. /\ i \in 1 .. n \/ i = n + 1
        /\ j \in 1 .. n \/ j = n + 1
    BY <1>1, <1>2
  <2> QED  BY <1>6, <2>1, <2>2, <2>3, <2>4
<1>7. hypo.bitmap.covered = UNION {Words(hypo.steps[i].range) : i \in DOMAIN hypo.steps}
  <2>1. hypo.bitmap.covered = h.bitmap.covered \union Words(r)
    BY DEF SetValueNonOverlap
  <2>2. ASSUME NEW w
        PROVE  (\E i \in 1 .. (n + 1) : w \in Words(hypo.steps[i].range))
                 <=> w \in h.bitmap.covered \union Words(r)
    <3>1. CASE w \in Words(r)
      BY <1>1, <1>2, <3>1
    <3>2. CASE w \notin Words(r)
      <4>1. w \in h.bitmap.covered <=> \E i \in 1 .. n : w \in Words(h.steps[i].range)
        BY <1>4
      <4>2. \A i \in 1 .. (n + 1) : i \in 1 .. n \/ i = n + 1
        BY <1>1
      <4>3. \A i \in 1 .. n : i \in 1 .. (n + 1)
        BY <1>1
      <4> QED  BY <1>2, <3>2, <4>1, <4>2, <4>3
    <3> QED  BY <3>1, <3>2
  <2> QED  BY <1>2, <2>1, <2>2
<1>8. ASSUME MaxDistortion >= 0, NEW i \in DOMAIN hypo.steps
      PROVE  Jump(hypo, i) <= MaxDistortion
  <2>1. CASE i \in 1 .. n
    <3>1. Jump(h, i) <= MaxDistortion
      BY <1>1, <1>2, <1>8, <2>1 DEF Legal
    <3>2. hypo.steps[i] = h.steps[i] /\ (i # 1 => hypo.steps[i - 1] = h.steps[i - 1])
      BY <1>1, <1>2, <2>1
    <3> QED  BY <3>1, <3>2 DEF Jump
  <2>2. CASE i = n + 1
    BY <1>8, <2>2, JumpIsDistance DEF CanExtend
  <2> QED  BY <1>1, <1>2, <2>1, <2>2
<1> QED  BY <1>6, <1>7, <1>8 DEF Legal

LEMMA ExtensionIsWellFormed ==
  ASSUME NEW h, WellFormed(h), NEW r \in Spans,
         CanExtend(h.bitmap, h.range.endPos, r),
         NEW i \in Nat \ {0}, i <= Len(TargetPhrases[r]), NEW lm \in LMOutcomes
  PROVE  LET hypo == NewHypothesis(h, r, i, lm)
         IN  /\ WellFormed(hypo)
             /\ hypo.steps # <<>> /\ Front(hypo.steps) = h.steps
             /\ hypo.bitmap.numWordsCovered = Cardinality(hypo.bitmap.covered)
             /\ Cardinality(hypo.bitmap.covered) \in Nat
             /\ Cardinality(hypo.bitmap.covered) > Cardinality(h.bitmap.covered)
             /\ Cardinality(hypo.bitmap.covered) <= InputSize
             /\ r.startPos = r.endPos =>
                  Cardinality(hypo.bitmap.covered) = Cardinality(h.bitmap.covered) + 1
<1> DEFINE hypo == NewHypothesis(h, r, i, lm)
           step == [range |-> r, phrase |-> i, lm |-> lm]
<1>1. /\ h.steps \in Seq(Steps) /\ h.score \in Int
      /\ WellPlaced(h.bitmap, h.range.endPos)
      /\ h.bitmap \in Bitmaps /\ CountIsExact(h.bitmap) /\ GapIsFirst(h.bitmap)
      /\ ~Overlap(h.bitmap, r)
  BY DEF WellFormed, WellPlaced, CanExtend
<1>2. /\ hypo.steps = Append(h.steps, step) /\ hypo.range = r
      /\ hypo.bitmap = SetValueNonOverlap(h.bitmap, r)
      /\ hypo.score = TargetPhrases[r][i].score + h.score + lm.score
                      + DistortionScore(h, r)
  BY DEF NewHypothesis
<1>3. step \in Steps /\ step.range = r
  BY DEF Steps
<1>4. /\ hypo.steps \in Seq(Steps) /\ hypo.steps # <<>>
      /\ hypo.steps[Len(hypo.steps)] = step
      /\ Front(hypo.steps) = h.steps
  BY <1>1, <1>2, <1>3, SMTT(20) DEF Front
<1>5. hypo.score \in Int
  <2>1. TargetPhrases[r][i].score \in Int
    BY PhraseIsTyped
  <2>2. DistortionScore(h, r) \in Int
    <3>1. ComputeDistortionDistance(h.range.endPos, r.startPos) \in Int
      BY DistanceIsTyped, NotFoundIsPastTheSentence
    <3> QED  BY <3>1, DistortionWeightAssumption DEF DistortionScore
  <2>3. lm.score \in Int
    BY LMAssumption
  <2> QED  BY <1>1, <1>2, <2>1, <2>2, <2>3, SMTT(20)
<1>6. WellPlaced(hypo.bitmap, hypo.range.endPos)
  BY <1>1, <1>2, ExtensionIsWellPlaced
<1>7. Legal(hypo)
  BY <1>2, <1>3, ExtensionIsLegal
<1>8. hypo.range = LastRange(hypo)
  BY <1>2, <1>3, <1>4 DEF LastRange
<1>9. WellFormed(hypo)
  BY <1>4, <1>5, <1>6, <1>7, <1>8 DEF WellFormed
<1>10. /\ hypo.bitmap.numWordsCovered = Cardinality(hypo.bitmap.covered)
       /\ hypo.bitmap.numWordsCovered \in Nat
       /\ h.bitmap.numWordsCovered = Cardinality(h.bitmap.covered)
  BY <1>1, <1>6 DEF WellPlaced, CountIsExact, Bitmaps
<1> QED  BY <1>1, <1>2, <1>4, <1>9, <1>10, ExtensionCoversMore

-----------------------------------------------------------------------------
(* The steps. *)

\* What no step may change: SourceFrozen without the box.
Frozen == \A i \in StackIndices : Settled(i) => stacks'[i] = stacks[i]

LEMMA IndicesAreNumbers ==
  /\ \A i \in StackIndices : i \in Nat /\ i <= InputSize
  /\ 0 \in StackIndices /\ InputSize \in StackIndices
  /\ InputSize \in Nat \ {0}
BY NotFoundIsPastTheSentence DEF StackIndices

LEMMA InitEstablishes == Init => IInv
<1> SUFFICES ASSUME Init PROVE IInv
  OBVIOUS
<1>1. /\ phase = "first" /\ stage = 0 /\ heap = {} /\ todo = {}
      /\ DOMAIN stacks = StackIndices
      /\ \A i \in StackIndices : stacks[i] = {}
  BY DEF Init
<1>2. Control
  BY <1>1, IndicesAreNumbers DEF Control
<1>3. \A i \in StackIndices : StackIsSound(i)
  BY <1>1, FS_EmptySet DEF StackIsSound
<1>4. heap = UNION {stacks[i] : i \in StackIndices}
  BY <1>1
<1>5. ChainsAreSettled /\ BlocksAreSound
  BY <1>1 DEF ChainsAreSettled, BlocksAreSound
<1> QED  BY <1>2, <1>3, <1>4, <1>5 DEF IInv

LEMMA FirstStackStep ==
  ASSUME IInv, Process1stStack
  PROVE  /\ IInv' /\ Frozen
         /\ stacks'[0] = {EmptyHypothesis}
         /\ \A i \in StackIndices : i # 0 => stacks'[i] = {}
<1>1. /\ phase = "first" /\ stage = 0 /\ todo = {}
      /\ DOMAIN stacks = StackIndices
      /\ \A i \in StackIndices : stacks[i] = {}
  BY DEF IInv, Control, Process1stStack
<1>2. PICK new \in Add(stacks[0], EmptyHypothesis) :
        stacks' = [stacks EXCEPT ![0] = new]
  BY DEF Process1stStack
<1>3. /\ heap' = {EmptyHypothesis} /\ phase' = "prune"
      /\ stage' = 0 /\ todo' = {}
  BY <1>1 DEF Process1stStack
<1>4. new = {EmptyHypothesis} /\ IsFiniteSet(new)
  <2>1. stacks[0] = {}
    BY <1>1, IndicesAreNumbers
  <2> QED  BY <2>1, AddKeeps, FS_EmptySet
<1>5. /\ DOMAIN stacks' = StackIndices
      /\ stacks'[0] = {EmptyHypothesis}
      /\ \A i \in StackIndices : i # 0 => stacks'[i] = {}
  BY <1>1, <1>2, <1>4, IndicesAreNumbers
<1>6. Control'
  BY <1>3, <1>5, IndicesAreNumbers DEF Control
<1>7. ASSUME NEW i \in StackIndices
      PROVE  StackIsSound(i)'
  <2>1. CASE i = 0
    BY <1>4, <1>5, <2>1, EmptyIsWellFormed DEF StackIsSound
  <2>2. CASE i # 0
    BY <1>5, <2>2, FS_EmptySet DEF StackIsSound
  <2> QED  BY <2>1, <2>2
<1>8. heap' = UNION {stacks'[i] : i \in StackIndices}
  BY <1>3, <1>5, IndicesAreNumbers
<1>9. ChainsAreSettled'
  BY <1>5, EmptyIsWellFormed DEF ChainsAreSettled
<1>10. BlocksAreSound'
  BY <1>3 DEF BlocksAreSound
<1>11. Frozen
  BY <1>1, IndicesAreNumbers DEF Frozen, Settled
<1> QED  BY <1>5, <1>6, <1>7, <1>8, <1>9, <1>10, <1>11 DEF IInv

LEMMA PruneStep ==
  ASSUME IInv, PruneAndLaunch
  PROVE  /\ IInv' /\ Frozen
         /\ stage' = stage /\ phase' = "process"
         /\ \A i \in StackIndices : stacks'[i] \in SUBSET stacks[i]
         /\ stacks[stage] # {} => stacks'[stage] # {}
         /\ todo' = BlocksOf(stacks'[stage])
<1>1. /\ phase = "prune" /\ stage \in StackIndices /\ stage < InputSize
      /\ DOMAIN stacks = StackIndices
      /\ \A i \in StackIndices : StackIsSound(i)
      /\ heap = UNION {stacks[i] : i \in StackIndices}
      /\ ChainsAreSettled
  BY DEF IInv, Control, PruneAndLaunch
<1>2. PICK kept \in Prune(stacks[stage]) :
        /\ stacks' = [stacks EXCEPT ![stage] = kept]
        /\ heap' = heap \ (stacks[stage] \ kept)
  BY DEF PruneAndLaunch, StackToPrune
<1>3. /\ todo' = BlocksOf(stacks'[stage]) /\ phase' = "process" /\ stage' = stage
  BY DEF PruneAndLaunch
<1>4. /\ kept \in SUBSET stacks[stage] /\ IsFiniteSet(kept)
      /\ stacks[stage] # {} => kept # {}
  BY <1>1, PruneKeeps DEF StackIsSound
<1>5. /\ DOMAIN stacks' = StackIndices
      /\ stacks'[stage] = kept
      /\ \A i \in StackIndices : i # stage => stacks'[i] = stacks[i]
  BY <1>1, <1>2
<1>6. Control'
  BY <1>1, <1>3, <1>5 DEF Control
<1>7. ASSUME NEW i \in StackIndices
      PROVE  StackIsSound(i)'
  BY <1>1, <1>4, <1>5 DEF StackIsSound
<1>8. heap' = UNION {stacks'[i] : i \in StackIndices}
  <2>1. \A i \in StackIndices : i # stage => stacks[i] \intersect stacks[stage] = {}
    BY <1>1 DEF StackIsSound
  <2> QED  BY <1>1, <1>2, <1>4, <1>5, <2>1
<1>9. ChainsAreSettled'
  <2> SUFFICES ASSUME NEW i \in StackIndices, NEW h \in stacks'[i], h.steps # <<>>
               PROVE  \E j \in StackIndices :
                        Settled(j)' /\ \E p \in stacks'[j] : p.steps = Front(h.steps)
    BY DEF ChainsAreSettled
  <2>1. h \in stacks[i]
    BY <1>4, <1>5
  <2>2. PICK j \in StackIndices :
          Settled(j) /\ \E p \in stacks[j] : p.steps = Front(h.steps)
    BY <1>1, <2>1 DEF ChainsAreSettled
  <2>3. j < stage /\ j # stage
    BY <1>1, <2>2, IndicesAreNumbers DEF Settled
  <2> QED  BY <1>3, <1>5, <2>2, <2>3 DEF Settled
<1>10. BlocksAreSound'
  <2>1. ASSUME NEW b \in todo'
        PROVE  /\ b \in [prev : stacks'[stage], range : Spans, next : Nat \ {0}]
               /\ b.next <= Len(TargetPhrases[b.range])
               /\ CanExtend(b.prev.bitmap, b.prev.range.endPos, b.range)
    <3>1. /\ b \in [prev : stacks'[stage], range : Spans, next : {1}]
          /\ TargetPhrases[b.range] # <<>>
          /\ CanExtend(b.prev.bitmap, b.prev.range.endPos, b.range)
      BY <1>3, <2>1 DEF BlocksOf
    <3>2. TargetPhrases[b.range] \in Seq([score : Int])
      BY <3>1, TargetPhrasesAssumption
    <3>3. Len(TargetPhrases[b.range]) \in Nat \ {0}
      BY <3>1, <3>2, EmptySeq
    <3> QED  BY <3>1, <3>3
  <2> QED  BY <1>3, <2>1 DEF BlocksAreSound
<1>11. Frozen
  BY <1>1, <1>5, IndicesAreNumbers DEF Frozen, Settled
<1>12. \A i \in StackIndices : stacks'[i] \in SUBSET stacks[i]
  BY <1>4, <1>5
<1> QED  BY <1>3, <1>4, <1>5, <1>6, <1>7, <1>8, <1>9, <1>10, <1>11, <1>12 DEF IInv

\* What a block has in hand is made of a hypothesis of the source stack, and goes
\* to a later one.
LEMMA BlockMakesLater ==
  ASSUME IInv, phase = "process", NEW b \in todo, NEW lm \in LMOutcomes
  PROVE  LET hypo == NewHypothesis(b.prev, b.range, b.next, lm)
             dest == hypo.bitmap.numWordsCovered
         IN  /\ b.prev \in stacks[stage]
             /\ WellFormed(b.prev)
             /\ Cardinality(b.prev.bitmap.covered) = stage
             /\ WellFormed(hypo)
             /\ hypo.steps # <<>> /\ Front(hypo.steps) = b.prev.steps
             /\ Cardinality(hypo.bitmap.covered) = dest
             /\ dest \in StackIndices /\ dest > stage
             /\ b.range.startPos = b.range.endPos => dest = stage + 1
<1>1. /\ b.prev \in stacks[stage] /\ b.range \in Spans /\ b.next \in Nat \ {0}
      /\ b.next <= Len(TargetPhrases[b.range])
      /\ CanExtend(b.prev.bitmap, b.prev.range.endPos, b.range)
      /\ stage \in StackIndices /\ StackIsSound(stage)
  BY DEF IInv, BlocksAreSound, Control
<1>2. WellFormed(b.prev) /\ Cardinality(b.prev.bitmap.covered) = stage
  BY <1>1 DEF StackIsSound
<1> QED  BY <1>1, <1>2, ExtensionIsWellFormed, IndicesAreNumbers DEF StackIndices

LEMMA ExtendStep ==
  ASSUME IInv, NEW b \in todo, Extend(b)
  PROVE  /\ IInv' /\ Frozen
         /\ phase' = phase /\ stage' = stage
         /\ todo' = (todo \ {b}) \union Rest(b)
         /\ \E lm \in LMOutcomes, dest \in StackIndices :
              LET hypo == NewHypothesis(b.prev, b.range, b.next, lm)
              IN  /\ stacks'[dest] # {}
                  /\ stacks'[dest] \in SUBSET (stacks[dest] \union {hypo})
                  /\ dest > stage
                  /\ b.range.startPos = b.range.endPos => dest = stage + 1
                  /\ \A i \in StackIndices : i # dest => stacks'[i] = stacks[i]
<1>1. /\ phase = "process" /\ stage \in StackIndices
      /\ DOMAIN stacks = StackIndices
      /\ \A i \in StackIndices : StackIsSound(i)
      /\ heap = UNION {stacks[i] : i \in StackIndices}
      /\ ChainsAreSettled /\ BlocksAreSound
      /\ stage < InputSize
  BY DEF IInv, Control, Extend
<1>2. PICK lm \in LMOutcomes :
        LET hypo == NewHypothesis(b.prev, b.range, b.next, lm)
            dest == hypo.bitmap.numWordsCovered
        IN  \E new \in Add(stacks[dest], hypo) :
              /\ stacks' = [stacks EXCEPT ![dest] = new]
              /\ heap' = (heap \union {hypo}) \ Deleted(stacks[dest], hypo, new)
  BY DEF Extend
<1> DEFINE hypo == NewHypothesis(b.prev, b.range, b.next, lm)
           dest == hypo.bitmap.numWordsCovered
<1>3. PICK new \in Add(stacks[dest], hypo) :
        /\ stacks' = [stacks EXCEPT ![dest] = new]
        /\ heap' = (heap \union {hypo}) \ Deleted(stacks[dest], hypo, new)
  BY <1>2
<1>4. /\ b.prev \in stacks[stage]
      /\ WellFormed(hypo)
      /\ hypo.steps # <<>> /\ Front(hypo.steps) = b.prev.steps
      /\ Cardinality(hypo.bitmap.covered) = dest
      /\ dest \in StackIndices /\ dest > stage
      /\ b.range.startPos = b.range.endPos => dest = stage + 1
  BY <1>1, BlockMakesLater
<1> HIDE DEF hypo, dest
<1>5. /\ todo' = (todo \ {b}) \union Rest(b)
      /\ phase' = "process" /\ phase' = phase /\ stage' = stage
  BY <1>1 DEF Extend
<1>6. new \in SUBSET (stacks[dest] \union {hypo}) /\ IsFiniteSet(new) /\ new # {}
  BY <1>1, <1>4, AddKeeps DEF StackIsSound
<1>7. /\ DOMAIN stacks' = StackIndices
      /\ stacks'[dest] = new
      /\ \A i \in StackIndices : i # dest => stacks'[i] = stacks[i]
  BY <1>1, <1>3, <1>4
<1>8. dest # stage /\ stacks'[stage] = stacks[stage]
  BY <1>1, <1>4, <1>7, IndicesAreNumbers
<1>9. Control'
  BY <1>1, <1>5, <1>7 DEF Control
<1>10. ASSUME NEW i \in StackIndices
       PROVE  StackIsSound(i)'
  BY <1>1, <1>4, <1>6, <1>7 DEF StackIsSound
<1>11. heap' = UNION {stacks'[i] : i \in StackIndices}
  <2> DEFINE others == UNION {stacks[i] : i \in StackIndices \ {dest}}
  <2>1. heap = others \union stacks[dest]
    BY <1>1, <1>4
  <2>2. others \intersect (stacks[dest] \union {hypo}) = {}
    <3>1. \A h \in stacks[dest] \union {hypo} : Cardinality(h.bitmap.covered) = dest
      BY <1>1, <1>4 DEF StackIsSound
    <3>2. \A h \in others : Cardinality(h.bitmap.covered) # dest
      BY <1>1 DEF StackIsSound
    <3> QED  BY <3>1, <3>2
  <2>3. heap' = others \union new
    <3> HIDE DEF others
    <3> QED  BY <1>3, <1>6, <2>1, <2>2, DeletingIsExact
  <2>4. UNION {stacks'[i] : i \in StackIndices} = others \union new
    BY <1>4, <1>7
  <2> QED  BY <2>3, <2>4
<1>12. ChainsAreSettled'
  <2> SUFFICES ASSUME NEW i \in StackIndices, NEW h \in stacks'[i], h.steps # <<>>
               PROVE  \E j \in StackIndices :
                        Settled(j)' /\ \E p \in stacks'[j] : p.steps = Front(h.steps)
    BY DEF ChainsAreSettled
  <2>1. CASE h = hypo
    BY <1>1, <1>4, <1>5, <1>8, <2>1 DEF Settled
  <2>2. CASE h # hypo
    <3>1. h \in stacks[i]
      BY <1>6, <1>7, <2>2
    <3>2. PICK j \in StackIndices :
            Settled(j) /\ \E p \in stacks[j] : p.steps = Front(h.steps)
      BY <1>1, <3>1 DEF ChainsAreSettled
    <3>3. j # dest
      <4>1. j <= stage
        <5>1. j \in Nat /\ stage \in Nat
          BY <1>1, <3>2, IndicesAreNumbers
        <5> QED  BY <3>2, <5>1 DEF Settled
      <4>2. ~ (dest <= stage)
        <5>1. dest \in Nat /\ stage \in Nat
          BY <1>1, <1>4, IndicesAreNumbers
        <5> QED  BY <1>4, <5>1
      <4> QED  BY <4>1, <4>2
    <3> QED  BY <1>5, <1>7, <3>2, <3>3 DEF Settled
  <2> QED  BY <2>1, <2>2
<1>13. BlocksAreSound'
  <2>1. ASSUME NEW c \in todo'
        PROVE  /\ c \in [prev : stacks[stage], range : Spans, next : Nat \ {0}]
               /\ c.next <= Len(TargetPhrases[c.range])
               /\ CanExtend(c.prev.bitmap, c.prev.range.endPos, c.range)
    <3>1. CASE c \in todo
      BY <1>1, <3>1 DEF BlocksAreSound
    <3>2. CASE c \in Rest(b)
      <4>1. /\ b \in [prev : stacks[stage], range : Spans, next : Nat \ {0}]
            /\ CanExtend(b.prev.bitmap, b.prev.range.endPos, b.range)
        BY <1>1 DEF BlocksAreSound
      <4>2. /\ b.next < Len(TargetPhrases[b.range])
            /\ c = [b EXCEPT !.next = b.next + 1]
        BY <3>2 DEF Rest
      <4>3. c.prev = b.prev /\ c.range = b.range /\ c.next = b.next + 1
            /\ c \in [prev : stacks[stage], range : Spans, next : Nat \ {0}]
        BY <4>1, <4>2
      <4>4. Len(TargetPhrases[b.range]) \in Nat
        <5>1. TargetPhrases[b.range] \in Seq([score : Int])
          BY <4>1, TargetPhrasesAssumption
        <5> QED  BY <5>1, LenProperties
      <4> QED  BY <4>1, <4>2, <4>3, <4>4
    <3> QED  BY <1>5, <2>1, <3>1, <3>2
  <2> QED  BY <1>5, <1>8, <2>1 DEF BlocksAreSound
<1>14. Frozen
  BY <1>1, <1>4, <1>7, IndicesAreNumbers DEF Frozen, Settled
<1>15. IInv'
  BY <1>9, <1>10, <1>11, <1>12, <1>13 DEF IInv
<1> QED
  <2>1. /\ stacks'[dest] # {}
        /\ stacks'[dest] \in SUBSET (stacks[dest] \union {hypo})
    BY <1>6, <1>7
  <2> QED  BY <1>4, <1>5, <1>7, <1>14, <1>15, <2>1 DEF hypo

LEMMA SynchronizeStep ==
  ASSUME IInv, Synchronize
  PROVE  IInv' /\ Frozen /\ UNCHANGED stacks
<1>1. /\ phase = "process" /\ todo = {} /\ stage < InputSize
      /\ stage' = stage + 1
      /\ phase' = IF stage' < InputSize THEN "prune" ELSE "best"
      /\ UNCHANGED <<stacks, heap, todo>>
      /\ IInv
  BY DEF IInv, Control, Synchronize
<1>2. stage \in Nat /\ stage' \in StackIndices /\ InputSize \in Nat
  BY <1>1, IndicesAreNumbers DEF IInv, Control, StackIndices
<1>3. Control'
  BY <1>1, <1>2 DEF IInv, Control
<1>4. \A i \in StackIndices : Settled(i) => Settled(i)'
  BY <1>1, <1>2, IndicesAreNumbers DEF Settled
<1>5. ChainsAreSettled'
  BY <1>1, <1>4 DEF IInv, ChainsAreSettled
<1>6. BlocksAreSound'
  BY <1>1 DEF BlocksAreSound
<1> QED  BY <1>1, <1>3, <1>5, <1>6 DEF IInv, StackIsSound, Frozen

LEMMA GetBestHypoStep ==
  ASSUME IInv, GetBestHypo
  PROVE  IInv' /\ Frozen /\ UNCHANGED stacks
<1>1. /\ phase = "best" /\ stage = InputSize
      /\ phase' \in {"done", "assert"}
      /\ UNCHANGED <<stage, stacks, heap, todo>>
      /\ IInv
  BY DEF IInv, Control, GetBestHypo
<1>2. Control' /\ BlocksAreSound'
  BY <1>1 DEF IInv, Control, BlocksAreSound
<1>3. ChainsAreSettled'
  BY <1>1 DEF IInv, ChainsAreSettled, Settled
<1> QED  BY <1>1, <1>2, <1>3 DEF IInv, StackIsSound, Frozen

LEMMA StutterStep ==
  ASSUME IInv, UNCHANGED vars
  PROVE  IInv' /\ Frozen
<1>1. UNCHANGED <<phase, stage, stacks, heap, todo>>
  BY DEF vars
<1> QED  BY <1>1 DEF IInv, Control, StackIsSound, ChainsAreSettled, Settled,
                     BlocksAreSound, Frozen

LEMMA StepPreserves == IInv /\ [Next]_vars => IInv' /\ Frozen
BY FirstStackStep, PruneStep, ExtendStep, SynchronizeStep, GetBestHypoStep,
   StutterStep DEF Next

LEMMA Invariance == Spec => []IInv
BY InitEstablishes, StepPreserves, PTL DEF Spec

-----------------------------------------------------------------------------
(* The search: the theorems. *)

(* Whatever the blocks interleave and the beams drop: the live hypotheses   *)
(* are well formed, each is a derivation that the distortion limit allows,  *)
(* they are exactly those of the stacks, each in the stack of its number of *)
(* words, and the chain of prevHypo pointers of each is alive to its end    *)
(* (Manager.cu:66-135, Stack.cu:33-117, Hypothesis.cu:37-62).               *)
THEOREM SoundHypotheses == Spec => []HypothesesAreSound
<1>1. IInv => HypothesesAreSound
  <2> SUFFICES ASSUME IInv PROVE HypothesesAreSound
    OBVIOUS
  <2>1. /\ Control /\ ChainsAreSettled
        /\ heap = UNION {stacks[i] : i \in StackIndices}
        /\ \A i \in StackIndices : \A h \in stacks[i] :
             WellFormed(h) /\ Cardinality(h.bitmap.covered) = i
    BY DEF IInv, StackIsSound
  <2>2. TypeOK
    <3>1. ASSUME NEW h \in heap
          PROVE  h.range \in Spans \union {InitRange}
      <4>1. WellFormed(h)
        BY <2>1
      <4>2. CASE h.steps # <<>>
        <5>1. h.steps[Len(h.steps)] \in Steps
          BY <4>1, <4>2 DEF WellFormed
        <5> QED  BY <4>1, <4>2, <5>1 DEF WellFormed, LastRange, Steps
      <4> QED  BY <4>1, <4>2 DEF WellFormed, LastRange
    <3> QED  BY <2>1, <3>1 DEF TypeOK, Control, StackIndices, WellFormed, WellPlaced
  <2>3. HypothesesAreLegal
    BY <2>1 DEF HypothesesAreLegal, WellFormed
  <2>4. NoDanglingPrev
    BY <2>1 DEF NoDanglingPrev, ChainsAreSettled
  <2>5. HeapIsExact
    BY <2>1 DEF HeapIsExact
  <2> QED  BY <2>2, <2>3, <2>4, <2>5 DEF HypothesesAreSound
<1> QED  BY <1>1, Invariance, PTL

(* The blocks of ProcessStack may read their source stack without its lock: *)
(* no step changes it while they run, nor any earlier stack, nor either of  *)
(* them ever after (Manager.cu:84-86).                                      *)
THEOREM SourceIsFrozen == Spec => SourceFrozen
<1>1. IInv /\ [Next]_vars
        => [\A i \in StackIndices :
              i < stage \/ (i = stage /\ phase = "process")
                => stacks'[i] = stacks[i]]_vars
  BY StepPreserves DEF Frozen, Settled
<1> QED  BY <1>1, Invariance, PTL DEF Spec, SourceFrozen

-----------------------------------------------------------------------------
(* The search always has an answer. *)

\* Every word of the sentence has a target phrase of its own.
EveryWordIsKnown ==
  \A r \in Spans : r.startPos = r.endPos => TargetPhrases[r] # <<>>

\* A step of a derivation lowers the score by at most loss.
LosesAtMost(loss) ==
  \A r \in Spans : \A i \in DOMAIN TargetPhrases[r], lm \in LMOutcomes,
                      dist \in 0 .. InputSize :
    TargetPhrases[r][i].score + lm.score - DistortionWeight * dist >= -loss

\* Under these the stack at work and the next one never run dry.
NeverDry(loss) ==
  /\ phase # "assert"
  /\ phase \in {"prune", "process", "best"} => stacks[stage] # {}
  /\ phase = "process" =>
       \/ stacks[stage + 1] # {}
       \/ \E b \in todo : b.range.startPos = b.range.endPos
  /\ \A i \in StackIndices : \A h \in stacks[i] : h.score >= -(loss * i)

\* A finite set of hypotheses that is not empty has a best one: take a largest
\* subset that has none and a member of it out.
LEMMA BestExists ==
  ASSUME NEW coll, IsFiniteSet(coll), coll # {}, \A h \in coll : h.score \in Int
  PROVE  \E h \in coll : \A g \in coll : h.score >= g.score
<1> DEFINE HasBest(T) == \E h \in T : \A g \in T : h.score >= g.score
           Bad == {T \in SUBSET coll : T # {} /\ ~HasBest(T)}
           R == StrictSubsetOrdering(coll)
<1> SUFFICES ASSUME ~HasBest(coll) PROVE FALSE
  OBVIOUS
<1>1. Bad \subseteq SUBSET coll /\ Bad # {}
  BY DEF Bad
<1>2. IsWellFoundedOn(R, SUBSET coll)
  BY FS_StrictSubsetOrderingWellFounded, FS_FiniteSubsetsOfFinite
<1>3. PICK T \in Bad : \A S \in Bad : ~ (<<S, T>> \in R)
  <2> HIDE DEF Bad, R
  <2> QED  BY <1>1, <1>2, WFMin
<1>4. PICK x \in T : TRUE
  OBVIOUS
<1> DEFINE U == T \ {x}
<1>5. U \in SUBSET coll /\ U \subseteq T /\ U # T
  BY <1>4
<1>6. <<U, T>> \in R
  BY <1>1, <1>5 DEF StrictSubsetOrdering
<1>7. U = {} \/ HasBest(U)
  BY <1>3, <1>5, <1>6
<1>8. CASE U = {}
  BY <1>4, <1>8
<1>9. CASE HasBest(U)
  <2>1. PICK y \in U : \A g \in U : y.score >= g.score
    BY <1>9
  <2>2. /\ x.score \in Int /\ y.score \in Int
        /\ \A g \in T : g.score \in Int /\ (g = x \/ g \in U)
    BY <1>4, <1>5
  <2>3. CASE x.score >= y.score
    <3>1. ASSUME NEW g \in T PROVE x.score >= g.score
      <4>1. g.score \in Int /\ (g = x \/ y.score >= g.score)
        BY <2>1, <2>2
      <4> QED  BY <2>2, <2>3, <4>1
    <3> QED  BY <1>4, <3>1
  <2>4. CASE ~ (x.score >= y.score)
    <3>1. ASSUME NEW g \in T PROVE y.score >= g.score
      <4>1. g.score \in Int /\ (g = x \/ y.score >= g.score)
        BY <2>1, <2>2
      <4> QED  BY <2>2, <2>4, <4>1
    <3> QED  BY <1>5, <2>1, <3>1
  <2> QED  BY <2>3, <2>4
<1> QED  BY <1>7, <1>8, <1>9

\* The block that translates just the first word that is left of a hypothesis.
LEMMA GapBlockExists ==
  ASSUME EveryWordIsKnown, NEW h, WellFormed(h),
         Cardinality(h.bitmap.covered) < InputSize
  PROVE  \E b \in BlocksOf({h}) : b.range.startPos = b.range.endPos
<1> DEFINE gap == h.bitmap.firstGap
           word == [startPos |-> gap, endPos |-> gap]
<1>1. /\ WellPlaced(h.bitmap, h.range.endPos) /\ GapIsFirst(h.bitmap)
      /\ h.bitmap.covered \in SUBSET Positions
      /\ gap \in Positions \union {NotFound}
  BY DEF WellFormed, WellPlaced, Bitmaps
<1>2. h.bitmap.covered # Positions
  BY PositionsFinite, NotFoundIsPastTheSentence
<1>3. gap \in Positions
  <2>1. PICK p \in Positions : p \notin h.bitmap.covered
    BY <1>1, <1>2
  <2>2. ~ (p < gap)
    BY <1>1, <2>1 DEF GapIsFirst
  <2> QED  BY <1>1, <2>1, <2>2, NotFoundIsPastTheSentence DEF Positions
<1>4. word \in Spans
  BY <1>3, NotFoundIsPastTheSentence DEF Spans, Positions
<1>5. CanExtend(h.bitmap, h.range.endPos, word)
  BY <1>1, <1>4, GapCanBeLaid
<1>6. TargetPhrases[word] # <<>>
  BY <1>4 DEF EveryWordIsKnown
<1> DEFINE b == [prev |-> h, range |-> word, next |-> 1]
<1>7. b \in BlocksOf({h})
  BY <1>4, <1>5, <1>6 DEF BlocksOf
<1> QED  BY <1>7

LEMMA LossAddsUp ==
  ASSUME NEW loss \in Nat, NEW i \in Nat, NEW j \in Nat, i < j
  PROVE  /\ loss * i \in Nat /\ loss * j \in Nat
         /\ loss * i + loss <= loss * j
<1>1. j = (i + 1) + (j - i - 1) /\ j - i - 1 \in Nat
  OBVIOUS
<1>2. \A d \in Nat : loss * d \in Nat
  OBVIOUS
<1>3. \A d \in Nat : loss * ((i + 1) + d) = loss * i + loss + loss * d
  OBVIOUS
<1> QED  BY <1>1, <1>2, <1>3

\* A hypothesis of a later stack has lost no more than its words allow.
LEMMA ExtensionLosesLittle ==
  ASSUME NEW loss \in Nat, LosesAtMost(loss),
         NEW h, WellFormed(h), NEW r \in Spans,
         NEW i \in Nat \ {0}, i <= Len(TargetPhrases[r]), NEW lm \in LMOutcomes,
         NEW m \in Nat, NEW n \in Nat, m < n, h.score >= -(loss * m)
  PROVE  NewHypothesis(h, r, i, lm).score >= -(loss * n)
<1> DEFINE dist == ComputeDistortionDistance(h.range.endPos, r.startPos)
           cost == DistortionWeight * dist
           phrase == TargetPhrases[r][i].score
           before == loss * m
           after == loss * n
<1>1. /\ phrase \in Int /\ lm.score \in Int /\ h.score \in Int
      /\ dist \in 0 .. InputSize /\ cost \in Int
  <2>1. phrase \in Int /\ lm.score \in Int /\ h.score \in Int
    BY PhraseIsTyped, LMAssumption DEF WellFormed
  <2>2. dist \in 0 .. InputSize
    BY DistanceIsTyped
  <2>3. \A d \in 0 .. InputSize : DistortionWeight * d \in Int
    BY DistortionWeightAssumption, NotFoundIsPastTheSentence
  <2> QED  BY <2>1, <2>2, <2>3
<1>2. i \in DOMAIN TargetPhrases[r]
  <2>1. TargetPhrases[r] \in Seq([score : Int])
    BY TargetPhrasesAssumption
  <2> QED  BY <2>1
<1>3. phrase + lm.score - cost >= -loss
  BY <1>1, <1>2 DEF LosesAtMost
<1>4. NewHypothesis(h, r, i, lm).score = phrase + h.score + lm.score + (-cost)
  BY DEF NewHypothesis, DistortionScore
<1>5. before \in Nat /\ after \in Nat /\ before + loss <= after
  BY LossAddsUp
<1>6. h.score >= -before
  OBVIOUS
<1> HIDE DEF phrase, cost, before
<1>7. NewHypothesis(h, r, i, lm).score >= -after
  <2> HIDE DEF after
  <2> QED  BY <1>1, <1>3, <1>4, <1>5, <1>6, SMTT(20)
<1> QED  BY <1>7

LEMMA FirstStackNeverDry ==
  ASSUME NEW loss \in Nat, IInv, Process1stStack
  PROVE  NeverDry(loss)'
<1>1. /\ IInv' /\ stacks'[0] = {EmptyHypothesis}
      /\ phase' = "prune" /\ stage' = 0
  BY FirstStackStep DEF Process1stStack, IInv, Control
<1>2. ASSUME NEW i \in StackIndices, NEW h \in stacks'[i]
      PROVE  h.score >= -(loss * i)
  <2>1. i = 0 /\ h = EmptyHypothesis
    BY <1>1, <1>2, FirstStackStep
  <2> QED  BY <2>1 DEF EmptyHypothesis
<1> QED  BY <1>1, <1>2 DEF NeverDry

LEMMA PruneNeverDry ==
  ASSUME EveryWordIsKnown, NEW loss \in Nat, NeverDry(loss), IInv, PruneAndLaunch
  PROVE  NeverDry(loss)'
<1>1. /\ IInv' /\ stage' = stage /\ phase' = "process" /\ phase = "prune"
      /\ \A i \in StackIndices : stacks'[i] \in SUBSET stacks[i]
      /\ stacks[stage] # {} => stacks'[stage] # {}
      /\ todo' = BlocksOf(stacks'[stage])
      /\ stage \in StackIndices /\ stage < InputSize
  BY PruneStep DEF PruneAndLaunch, IInv, Control
<1>2. stacks'[stage] # {}
  BY <1>1 DEF NeverDry
<1>3. \E b \in todo' : b.range.startPos = b.range.endPos
  <2>1. PICK h \in stacks'[stage] : TRUE
    BY <1>2
  <2>2. WellFormed(h) /\ Cardinality(h.bitmap.covered) = stage
    BY <1>1 DEF IInv, StackIsSound
  <2>3. PICK b \in BlocksOf({h}) : b.range.startPos = b.range.endPos
    BY <1>1, <2>2, GapBlockExists
  <2>4. b \in todo'
    BY <1>1, <2>1, <2>3 DEF BlocksOf
  <2> QED  BY <2>3, <2>4
<1>4. \A i \in StackIndices : \A h \in stacks'[i] : h.score >= -(loss * i)
  BY <1>1 DEF NeverDry
<1> QED  BY <1>1, <1>2, <1>3, <1>4 DEF NeverDry

LEMMA ExtendNeverDry ==
  ASSUME NEW loss \in Nat, LosesAtMost(loss), NeverDry(loss), IInv,
         NEW b \in todo, Extend(b)
  PROVE  NeverDry(loss)'
<1>1. /\ phase = "process" /\ phase' = phase /\ stage' = stage
      /\ stage \in StackIndices /\ stage < InputSize
      /\ todo' = (todo \ {b}) \union Rest(b)
      /\ IInv
  BY ExtendStep DEF Extend, IInv, Control
<1>2. PICK lm \in LMOutcomes, dest \in StackIndices :
        LET hypo == NewHypothesis(b.prev, b.range, b.next, lm)
        IN  /\ stacks'[dest] # {}
            /\ stacks'[dest] \in SUBSET (stacks[dest] \union {hypo})
            /\ dest > stage
            /\ b.range.startPos = b.range.endPos => dest = stage + 1
            /\ \A i \in StackIndices : i # dest => stacks'[i] = stacks[i]
  BY ExtendStep
<1>3. stacks'[stage] # {}
  BY <1>1, <1>2, IndicesAreNumbers DEF NeverDry
<1>4. stacks'[stage + 1] # {} \/ \E c \in todo' : c.range.startPos = c.range.endPos
  <2>1. stage + 1 \in StackIndices
    BY <1>1, IndicesAreNumbers DEF StackIndices
  <2>2. CASE dest = stage + 1
    BY <1>2, <2>2
  <2>3. CASE dest # stage + 1
    <3>1. stacks'[stage + 1] = stacks[stage + 1]
      BY <1>2, <2>1, <2>3
    <3>2. CASE stacks[stage + 1] # {}
      BY <3>1, <3>2
    <3>3. CASE \E c \in todo : c.range.startPos = c.range.endPos
      BY <1>1, <1>2, <2>3, <3>3
    <3> QED  BY <1>1, <3>2, <3>3 DEF NeverDry
  <2> QED  BY <2>2, <2>3
<1>5. ASSUME NEW i \in StackIndices, NEW h \in stacks'[i]
      PROVE  h.score >= -(loss * i)
  <2>1. CASE h \in stacks[i]
    BY <2>1 DEF NeverDry
  <2>2. CASE h \notin stacks[i]
    <3>1. i = dest /\ h = NewHypothesis(b.prev, b.range, b.next, lm)
      BY <1>2, <2>2
    <3>2. /\ b.prev \in stacks[stage] /\ b.range \in Spans /\ b.next \in Nat \ {0}
          /\ b.next <= Len(TargetPhrases[b.range])
          /\ WellFormed(b.prev)
      BY <1>1 DEF IInv, BlocksAreSound, StackIsSound
    <3>3. b.prev.score >= -(loss * stage)
      BY <1>1, <3>2 DEF NeverDry
    <3>4. stage \in Nat /\ dest \in Nat /\ stage < dest
      BY <1>1, <1>2, IndicesAreNumbers
    <3> QED  BY <3>1, <3>2, <3>3, <3>4, ExtensionLosesLittle
  <2> QED  BY <2>1, <2>2
<1> QED  BY <1>1, <1>3, <1>4, <1>5 DEF NeverDry

LEMMA SynchronizeNeverDry ==
  ASSUME NEW loss \in Nat, NeverDry(loss), IInv, Synchronize
  PROVE  NeverDry(loss)'
<1>1. /\ phase = "process" /\ todo = {} /\ stage' = stage + 1
      /\ phase' \in {"prune", "best"} /\ stacks' = stacks
  BY DEF Synchronize
<1>2. stacks[stage + 1] # {}
  BY <1>1 DEF NeverDry
<1> QED  BY <1>1, <1>2 DEF NeverDry

\* With what is left of its score, the best hypothesis passes for one.
LEMMA GetBestHypoNeverDry ==
  ASSUME NEW loss \in Nat, loss * InputSize < -LowestBest,
         NeverDry(loss), IInv, GetBestHypo
  PROVE  NeverDry(loss)'
<1>1. /\ phase = "best" /\ UNCHANGED <<stage, stacks>>
      /\ phase' \in {"done", "assert"}
      /\ Winners = {} \/ phase' = "done"
  BY DEF GetBestHypo
<1>2. InputSize \in StackIndices /\ stage = InputSize
      /\ InputSize \in Nat /\ StackIsSound(InputSize)
  BY <1>1, IndicesAreNumbers DEF IInv, Control
<1>3. PICK h \in stacks[InputSize] : \A g \in stacks[InputSize] : h.score >= g.score
  BY <1>1, <1>2, BestExists DEF NeverDry, StackIsSound, WellFormed
<1>4. h.score > LowestBest
  <2>1. h.score >= -(loss * InputSize) /\ h.score \in Int
    BY <1>2 DEF NeverDry, StackIsSound, WellFormed
  <2>2. loss * InputSize \in Nat /\ LowestBest \in Int
    BY <1>2 DEF LowestBest
  <2> QED  BY <2>1, <2>2
<1>5. Winners # {}
  BY <1>3, <1>4 DEF Winners
<1> QED  BY <1>1, <1>5 DEF NeverDry

(* The assertion of GetBestHypo never stops the program, whatever the beam  *)
(* drops, the order of the blocks and the distortion limit, on a sentence   *)
(* whose words are all known, when its scores stay above the initial        *)
(* bestScore (Manager.cu:88-160): to stay within the beam is never to fall  *)
(* into a dead end.                                                         *)
THEOREM AlwaysAnswers ==
  ASSUME NEW loss \in Nat, loss * InputSize < -LowestBest,
         LosesAtMost(loss), EveryWordIsKnown
  PROVE  Spec => []BestHypoExists
<1>1. Init => NeverDry(loss)
  <2> SUFFICES ASSUME Init PROVE NeverDry(loss)
    OBVIOUS
  <2>1. phase = "first" /\ \A i \in StackIndices : stacks[i] = {}
    BY DEF Init
  <2> QED  BY <2>1 DEF NeverDry
<1>2. IInv /\ NeverDry(loss) /\ [Next]_vars => NeverDry(loss)'
  <2> SUFFICES ASSUME IInv, NeverDry(loss), [Next]_vars PROVE NeverDry(loss)'
    OBVIOUS
  <2>1. CASE UNCHANGED vars
    BY <2>1 DEF vars, NeverDry
  <2>2. CASE Process1stStack
    BY <2>2, FirstStackNeverDry
  <2>3. CASE PruneAndLaunch
    BY <2>3, PruneNeverDry
  <2>4. CASE Synchronize
    BY <2>4, SynchronizeNeverDry
  <2>5. CASE GetBestHypo
    BY <2>5, GetBestHypoNeverDry
  <2>6. ASSUME NEW b \in todo, Extend(b)
        PROVE  NeverDry(loss)'
    BY <2>6, ExtendNeverDry
  <2> QED  BY <2>1, <2>2, <2>3, <2>4, <2>5, <2>6 DEF Next
<1>3. NeverDry(loss) => BestHypoExists
  BY DEF NeverDry, BestHypoExists
<1> QED  BY <1>1, <1>2, <1>3, Invariance, PTL DEF Spec

-----------------------------------------------------------------------------
(* With room in the stacks, the search is exact. *)

\* No stack is ever full.
RoomForAll == \A i \in StackIndices : Cardinality(stacks[i]) < StackSize

\* The language model has no say: the feature is not there.
OneOutcome == \E lm : LMOutcomes = {lm}

\* The sets that hold the empty hypothesis and with a hypothesis every extension
\* that the guards allow.
Closed(S) ==
  /\ EmptyHypothesis \in S
  /\ \A h \in S, r \in Spans, lm \in LMOutcomes :
       \A i \in 1 .. Len(TargetPhrases[r]) :
         CanExtend(h.bitmap, h.range.endPos, r) => NewHypothesis(h, r, i, lm) \in S

\* What comes from the empty hypothesis in finitely many steps, whether or not
\* the search has taken them.
IsDerivation(d) == \A S : Closed(S) => d \in S

\* The answer is a derivation of the whole sentence, and none is better.
AnswerIsBest ==
  phase = "done" =>
    \E h : /\ best = {h}
           /\ IsDerivation(h) /\ IsComplete(h.bitmap)
           /\ \A d : IsDerivation(d) /\ IsComplete(d.bitmap) => h.score >= d.score

\* Wherever d could go, g can, and is no worse.
Stands(g, d) ==
  /\ g.bitmap = d.bitmap
  /\ g.range.endPos = d.range.endPos
  /\ g.score >= d.score

Represented(d) ==
  \E g \in stacks[Cardinality(d.bitmap.covered)] : Stands(g, d)

\* The extension of h that is the i-th target phrase of r is still to be made.
Pending(h, r, i) ==
  /\ phase = "process" /\ h \in stacks[stage]
  /\ \E b \in todo : b.prev = h /\ b.range = r /\ b.next <= i

KeysAreRight ==
  \A i \in StackIndices : \A h \in stacks[i] :
    h.steps # <<>> => \E lm \in LMOutcomes : h.key = Key(h.bitmap, h.range, lm.state)

\* No extension of a hypothesis whose stack is settled is lost.
ExtensionsAreKept ==
  \A j \in StackIndices : \A h \in stacks[j] : Settled(j) =>
    \A r \in Spans, lm \in LMOutcomes : \A i \in 1 .. Len(TargetPhrases[r]) :
      CanExtend(h.bitmap, h.range.endPos, r) =>
        \/ Represented(NewHypothesis(h, r, i, lm))
        \/ Pending(h, r, i)

ExactInv ==
  /\ KeysAreRight
  /\ \A i \in StackIndices : \A h \in stacks[i] : IsDerivation(h)
  /\ phase # "first" => EmptyHypothesis \in stacks[0]
  /\ ExtensionsAreKept
  /\ phase = "done" => \E h \in Winners : best = {h}

\* The caches of a bitmap follow from its bits.
LEMMA BitsFixTheBitmap ==
  ASSUME NEW a, NEW b, NEW m, NEW n, WellPlaced(a, m), WellPlaced(b, n),
         a.covered = b.covered
  PROVE  a = b
<1>1. /\ a \in Bitmaps /\ b \in Bitmaps
      /\ a.numWordsCovered = b.numWordsCovered
      /\ GapIsFirst(a) /\ GapIsFirst(b)
  BY DEF WellPlaced, CountIsExact
<1>2. /\ a.firstGap \in Positions \union {NotFound}
      /\ b.firstGap \in Positions \union {NotFound}
  BY <1>1 DEF Bitmaps
<1>3. a.firstGap = b.firstGap
  BY <1>1, <1>2, NotFoundIsPastTheSentence DEF GapIsFirst, Positions
<1> QED  BY <1>1, <1>3 DEF Bitmaps

\* Hypotheses of one key are interchangeable but for their scores.
LEMMA KeyFixesTheFuture ==
  ASSUME NEW g, NEW h, WellFormed(g), WellFormed(h), g.key = h.key,
         NEW lm, g.key = Key(g.bitmap, g.range, lm.state),
         NEW mm, h.key = Key(h.bitmap, h.range, mm.state)
  PROVE  g.bitmap = h.bitmap /\ g.range.endPos = h.range.endPos
<1> DEFINE k == Key(g.bitmap, g.range, lm.state)
           l == Key(h.bitmap, h.range, mm.state)
<1>1. /\ k.covered = g.bitmap.covered /\ k.endPos = g.range.endPos
      /\ l.covered = h.bitmap.covered /\ l.endPos = h.range.endPos
  BY DEF Key
<1>2. k = l
  OBVIOUS
<1>3. g.bitmap.covered = h.bitmap.covered /\ g.range.endPos = h.range.endPos
  <2> HIDE DEF k, l
  <2> QED  BY <1>1, <1>2
<1> QED  BY <1>3, BitsFixTheBitmap DEF WellFormed

LEMMA StandsIsTransitive ==
  ASSUME NEW f, NEW g, NEW h, f.score \in Int, g.score \in Int, h.score \in Int,
         Stands(f, g), Stands(g, h)
  PROVE  Stands(f, h)
BY DEF Stands

\* The extensions of a hypothesis that stands for another one stand for its.
LEMMA StandsForExtensions ==
  ASSUME NEW g, NEW h, WellFormed(g), WellFormed(h), Stands(g, h),
         NEW r \in Spans, NEW i \in Nat \ {0}, i <= Len(TargetPhrases[r]),
         NEW lm \in LMOutcomes
  PROVE  Stands(NewHypothesis(g, r, i, lm), NewHypothesis(h, r, i, lm))
<1> DEFINE dist == ComputeDistortionDistance(g.range.endPos, r.startPos)
           cost == DistortionWeight * dist
           phrase == TargetPhrases[r][i].score
<1>1. /\ phrase \in Int /\ lm.score \in Int
      /\ g.score \in Int /\ h.score \in Int /\ g.score >= h.score
      /\ cost \in Int
  <2>1. \A d \in 0 .. InputSize : DistortionWeight * d \in Int
    BY DistortionWeightAssumption, NotFoundIsPastTheSentence
  <2>2. dist \in 0 .. InputSize
    BY DistanceIsTyped
  <2> QED  BY <2>1, <2>2, PhraseIsTyped, LMAssumption DEF WellFormed, Stands
<1>2. /\ NewHypothesis(g, r, i, lm).score = phrase + g.score + lm.score + (-cost)
      /\ NewHypothesis(h, r, i, lm).score = phrase + h.score + lm.score + (-cost)
  BY DEF NewHypothesis, DistortionScore, Stands
<1>3. NewHypothesis(g, r, i, lm).score >= NewHypothesis(h, r, i, lm).score
  <2> HIDE DEF phrase, cost
  <2> QED  BY <1>1, <1>2
<1>4. /\ NewHypothesis(g, r, i, lm).bitmap = SetValueNonOverlap(g.bitmap, r)
      /\ NewHypothesis(h, r, i, lm).bitmap = SetValueNonOverlap(h.bitmap, r)
      /\ NewHypothesis(g, r, i, lm).range = r
      /\ NewHypothesis(h, r, i, lm).range = r
      /\ g.bitmap = h.bitmap
  BY DEF NewHypothesis, Stands
<1> QED  BY <1>3, <1>4 DEF Stands

\* The records that hypotheses are.
Candidates ==
  {EmptyHypothesis} \union
  [steps : Seq(Steps), bitmap : Bitmaps, range : Spans, score : Int,
   key : [covered : SUBSET Positions, endPos : Positions,
          lm : {lm.state : lm \in LMOutcomes}]]

LEMMA ExtensionIsCandidate ==
  ASSUME NEW h, WellFormed(h), NEW r \in Spans,
         CanExtend(h.bitmap, h.range.endPos, r),
         NEW i \in Nat \ {0}, i <= Len(TargetPhrases[r]), NEW lm \in LMOutcomes
  PROVE  NewHypothesis(h, r, i, lm) \in Candidates
<1> DEFINE hypo == NewHypothesis(h, r, i, lm)
<1>1. WellFormed(hypo)
  BY ExtensionIsWellFormed
<1>2. hypo.steps \in Seq(Steps) /\ hypo.bitmap \in Bitmaps /\ hypo.score \in Int
  BY <1>1 DEF WellFormed, WellPlaced
<1>3. hypo.key = Key(hypo.bitmap, r, lm.state) /\ hypo.range = r
  BY DEF NewHypothesis
<1>4. hypo.key \in [covered : SUBSET Positions, endPos : Positions,
                    lm : {o.state : o \in LMOutcomes}]
  BY <1>2, <1>3 DEF Key, Bitmaps, Spans
<1>5. hypo = [steps |-> hypo.steps, bitmap |-> hypo.bitmap, range |-> hypo.range,
              score |-> hypo.score, key |-> hypo.key]
  BY DEF NewHypothesis
<1> HIDE DEF hypo
<1>6. hypo \in Candidates
  BY <1>2, <1>3, <1>4, <1>5 DEF Candidates
<1> QED  BY <1>6 DEF hypo

\* Induction on derivations, as membership in the closed set of those for which
\* the claim holds: what has been extended in full stands for every derivation.
LEMMA DerivationsAreRepresented ==
  ASSUME IInv, ExactInv, phase # "first", NEW d, IsDerivation(d)
  PROVE  /\ WellFormed(d)
         /\ Cardinality(d.bitmap.covered) <= stage => Represented(d)
<1> DEFINE S == {e \in Candidates :
                   /\ WellFormed(e)
                   /\ Cardinality(e.bitmap.covered) <= stage => Represented(e)}
<1> SUFFICES Closed(S)
  BY DEF IsDerivation
<1>1. EmptyHypothesis \in S
  <2>1. Represented(EmptyHypothesis)
    BY EmptyIsWellFormed DEF ExactInv, Represented, Stands, WellFormed
  <2> QED  BY <2>1, EmptyIsWellFormed DEF Candidates
<1>2. ASSUME NEW h \in S, NEW r \in Spans, NEW lm \in LMOutcomes,
             NEW i \in 1 .. Len(TargetPhrases[r]),
             CanExtend(h.bitmap, h.range.endPos, r)
      PROVE  NewHypothesis(h, r, i, lm) \in S
  <2> DEFINE e == NewHypothesis(h, r, i, lm)
             m == Cardinality(h.bitmap.covered)
  <2>1. i \in Nat \ {0} /\ i <= Len(TargetPhrases[r]) /\ WellFormed(h)
    <3>1. TargetPhrases[r] \in Seq([score : Int])
      BY TargetPhrasesAssumption
    <3> QED  BY <3>1
  <2>2. e \in Candidates
    BY <1>2, <2>1, ExtensionIsCandidate
  <2>3. /\ WellFormed(e) /\ Cardinality(e.bitmap.covered) \in Nat
        /\ Cardinality(e.bitmap.covered) > m
    BY <1>2, <2>1, ExtensionIsWellFormed
  <2>4. ASSUME Cardinality(e.bitmap.covered) <= stage
        PROVE  Represented(e)
    <3>1. m \in Nat /\ m < stage /\ m \in StackIndices /\ stage \in StackIndices
      <4>1. h.bitmap.covered \in SUBSET Positions
        BY <2>1 DEF WellFormed, WellPlaced, Bitmaps
      <4>2. m \in Nat
        BY <4>1, PositionsFinite, NotFoundIsPastTheSentence
      <4>3. stage \in StackIndices /\ stage \in Nat /\ stage <= InputSize
        BY IndicesAreNumbers DEF IInv, Control
      <4> HIDE DEF e, m
      <4> QED  BY <2>3, <2>4, <4>2, <4>3, IndicesAreNumbers DEF StackIndices
    <3>2. Represented(h)
      BY <3>1, IndicesAreNumbers
    <3>3. PICK g \in stacks[m] : Stands(g, h)
      BY <3>2 DEF Represented
    <3>4. WellFormed(g) /\ Settled(m) /\ g \notin stacks[stage]
      BY <3>1, <3>3 DEF IInv, StackIsSound, Settled
    <3> DEFINE f == NewHypothesis(g, r, i, lm)
    <3>5. CanExtend(g.bitmap, g.range.endPos, r)
      BY <1>2, <3>3 DEF Stands
    <3>6. Represented(f)
      BY <3>1, <3>3, <3>4, <3>5 DEF ExactInv, ExtensionsAreKept, Pending
    <3>7. Stands(f, e)
      BY <2>1, <3>3, <3>4, StandsForExtensions
    <3>8. PICK k \in stacks[Cardinality(f.bitmap.covered)] : Stands(k, f)
      BY <3>6 DEF Represented
    <3>9. /\ f.bitmap = e.bitmap /\ WellFormed(f)
          /\ Cardinality(f.bitmap.covered) \in StackIndices
      BY <2>1, <3>4, <3>5, <3>7, ExtensionIsWellFormed, IndicesAreNumbers
      DEF Stands, StackIndices
    <3>10. WellFormed(k)
      BY <3>8, <3>9 DEF IInv, StackIsSound
    <3>11. Stands(k, e)
      <4> HIDE DEF e, f
      <4> QED  BY <2>3, <3>7, <3>8, <3>9, <3>10, StandsIsTransitive DEF WellFormed
    <3> QED  BY <3>8, <3>9, <3>11 DEF Represented
  <2> QED  BY <2>2, <2>3, <2>4
<1> QED  BY <1>1, <1>2 DEF Closed

LEMMA RoomIsLeft ==
  ASSUME RoomForAll, NEW i \in StackIndices, StackIsSound(i)
  PROVE  /\ Prune(stacks[i]) = {stacks[i]}
         /\ \A hypo : Add(stacks[i], hypo) = {Recombine(stacks[i], hypo)}
<1>1. Cardinality(stacks[i]) \in Nat /\ Cardinality(stacks[i]) < StackSize
  BY FS_CardinalityType DEF RoomForAll, StackIsSound
<1>2. ~ (Cardinality(stacks[i]) >= Tolerance)
  BY <1>1, StackSizeAssumption DEF Tolerance
<1>3. Prune(stacks[i]) = {stacks[i]}
  BY <1>1 DEF Prune
<1>4. MakeRoom(stacks[i]) = {stacks[i]}
  BY <1>2 DEF MakeRoom
<1> QED  BY <1>3, <1>4 DEF Add

\* Recombination loses nothing: whoever is dropped is stood for.
LEMMA RecombinationIsLossless ==
  ASSUME IInv, KeysAreRight, NEW i \in StackIndices, i > 0,
         NEW hypo, WellFormed(hypo), NEW lm,
         hypo.key = Key(hypo.bitmap, hypo.range, lm.state)
  PROVE  LET new == Recombine(stacks[i], hypo)
         IN  /\ \E g \in new : Stands(g, hypo)
             /\ \A h \in stacks[i] : \E g \in new : Stands(g, h)
<1> DEFINE coll == stacks[i]
           new == Recombine(coll, hypo)
<1>1. \A h \in coll : WellFormed(h) /\ h.score \in Int
  BY DEF IInv, StackIsSound, WellFormed
<1>2. hypo.score \in Int /\ Stands(hypo, hypo) /\ \A h \in coll : Stands(h, h)
  BY <1>1 DEF Stands, WellFormed
<1>3. ASSUME NEW h \in Same(coll, hypo)
      PROVE  /\ h \in coll
             /\ h.bitmap = hypo.bitmap /\ h.range.endPos = hypo.range.endPos
  <2>1. h \in coll /\ h.key = hypo.key
    BY <1>3 DEF Same
  <2>2. h.steps # <<>>
    <3>1. Legal(h) /\ Cardinality(h.bitmap.covered) = i
      BY <2>1 DEF IInv, StackIsSound, WellFormed
    <3>2. CASE h.steps = <<>>
      <4>1. h.bitmap.covered = {}
        BY <3>1, <3>2 DEF Legal
      <4> QED  BY <3>1, <4>1, FS_EmptySet, IndicesAreNumbers
    <3> QED  BY <3>2
  <2>3. PICK mm \in LMOutcomes : h.key = Key(h.bitmap, h.range, mm.state)
    BY <2>1, <2>2 DEF KeysAreRight
  <2> QED  BY <1>1, <2>1, <2>3, KeyFixesTheFuture
<1>4. CASE \E g \in Same(coll, hypo) : hypo.score <= g.score
  <2>1. new = coll
    BY <1>4 DEF Recombine
  <2>2. PICK g \in Same(coll, hypo) : hypo.score <= g.score
    BY <1>4
  <2>3. Stands(g, hypo) /\ g \in coll
    BY <1>1, <1>2, <1>3, <2>2 DEF Stands
  <2> QED  BY <1>2, <2>1, <2>3
<1>5. CASE ~ \E g \in Same(coll, hypo) : hypo.score <= g.score
  <2>1. new = (coll \ Same(coll, hypo)) \union {hypo}
    BY <1>5 DEF Recombine
  <2>2. ASSUME NEW h \in Same(coll, hypo)
        PROVE  Stands(hypo, h)
    <3>1. h.score \in Int /\ ~ (hypo.score <= h.score)
      BY <1>1, <1>3, <1>5, <2>2
    <3>2. hypo.score >= h.score
      BY <1>2, <3>1
    <3> QED  BY <1>3, <2>2, <3>2 DEF Stands
  <2> QED  BY <1>2, <2>1, <2>2
<1> QED  BY <1>4, <1>5

LEMMA FirstStackExact ==
  ASSUME IInv, ExactInv, Process1stStack
  PROVE  ExactInv'
<1>1. /\ stacks'[0] = {EmptyHypothesis} /\ phase' = "prune" /\ stage' = 0
      /\ \A i \in StackIndices : i # 0 => stacks'[i] = {}
  BY FirstStackStep DEF Process1stStack, IInv, Control
<1>2. \A i \in StackIndices : \A h \in stacks'[i] : h = EmptyHypothesis
  BY <1>1
<1>3. KeysAreRight'
  BY <1>2, EmptyIsWellFormed DEF KeysAreRight
<1>4. IsDerivation(EmptyHypothesis)
  BY DEF IsDerivation, Closed
<1>5. \A j \in StackIndices : ~Settled(j)'
  BY <1>1, IndicesAreNumbers DEF Settled
<1> QED  BY <1>1, <1>2, <1>3, <1>4, <1>5 DEF ExactInv, ExtensionsAreKept

LEMMA PruneExact ==
  ASSUME IInv, ExactInv, RoomForAll, PruneAndLaunch
  PROVE  ExactInv'
<1>1. /\ phase = "prune" /\ phase' = "process" /\ stage' = stage
      /\ stage \in StackIndices /\ DOMAIN stacks = StackIndices
      /\ StackIsSound(stage)
      /\ todo' = BlocksOf(stacks'[stage])
  BY DEF IInv, Control, PruneAndLaunch
<1>2. \A i \in StackIndices : stacks'[i] = stacks[i]
  <2>1. PICK kept \in Prune(stacks[stage]) : stacks' = [stacks EXCEPT ![stage] = kept]
    BY DEF PruneAndLaunch, StackToPrune
  <2>2. kept = stacks[stage]
    BY <1>1, RoomIsLeft
  <2> QED  BY <1>1, <2>1, <2>2
<1>3. ASSUME NEW j \in StackIndices, NEW h \in stacks'[j], Settled(j)',
             NEW r \in Spans, NEW lm \in LMOutcomes,
             NEW i \in 1 .. Len(TargetPhrases[r]),
             CanExtend(h.bitmap, h.range.endPos, r)
      PROVE  \/ Represented(NewHypothesis(h, r, i, lm))'
             \/ Pending(h, r, i)'
  <2>1. CASE j = stage
    <3> DEFINE b == [prev |-> h, range |-> r, next |-> 1]
    <3>1. TargetPhrases[r] # <<>> /\ i \in Nat \ {0}
      <4>1. TargetPhrases[r] \in Seq([score : Int])
        BY TargetPhrasesAssumption
      <4> QED  BY <4>1
    <3>2. b \in BlocksOf(stacks'[stage])
      BY <1>3, <2>1, <3>1 DEF BlocksOf
    <3>3. b \in todo' /\ b.prev = h /\ b.range = r /\ b.next <= i
      BY <1>1, <3>1, <3>2
    <3> QED  BY <1>1, <1>3, <2>1, <3>3 DEF Pending
  <2>2. CASE j # stage
    <3>1. Settled(j) /\ h \in stacks[j] /\ ~Pending(h, r, i)
      BY <1>1, <1>2, <1>3, <2>2 DEF Settled, Pending
    <3>2. Represented(NewHypothesis(h, r, i, lm))
      BY <1>3, <3>1 DEF ExactInv, ExtensionsAreKept
    <3> DEFINE e == NewHypothesis(h, r, i, lm)
    <3>3. Cardinality(e.bitmap.covered) \in StackIndices
      <4>1. WellFormed(h) /\ i \in Nat \ {0} /\ i <= Len(TargetPhrases[r])
        <5>1. TargetPhrases[r] \in Seq([score : Int])
          BY TargetPhrasesAssumption
        <5> QED  BY <3>1, <5>1 DEF IInv, StackIsSound
      <4> QED  BY <1>3, <4>1, ExtensionIsWellFormed, IndicesAreNumbers
               DEF StackIndices
    <3>4. Represented(e)'
      <4> HIDE DEF e
      <4> QED  BY <1>2, <3>2, <3>3 DEF Represented, e
    <3> QED  BY <3>4
  <2> QED  BY <2>1, <2>2
<1>4. ExtensionsAreKept'
  BY <1>3 DEF ExtensionsAreKept
<1>5. KeysAreRight'
  BY <1>2 DEF ExactInv, KeysAreRight
<1> QED  BY <1>1, <1>2, <1>4, <1>5, IndicesAreNumbers DEF ExactInv

LEMMA SynchronizeExact ==
  ASSUME IInv, ExactInv, Synchronize
  PROVE  ExactInv'
<1>1. /\ phase = "process" /\ todo = {} /\ stacks' = stacks /\ stage' = stage + 1
      /\ phase' \in {"prune", "best"} /\ stage \in Nat
  BY IndicesAreNumbers DEF Synchronize, IInv, Control
<1>2. \A j \in StackIndices : Settled(j)' => Settled(j)
  BY <1>1, IndicesAreNumbers DEF Settled
<1>3. ExtensionsAreKept'
  BY <1>1, <1>2 DEF ExactInv, ExtensionsAreKept, Represented, Pending
<1> QED  BY <1>1, <1>3 DEF ExactInv, KeysAreRight

LEMMA GetBestHypoExact ==
  ASSUME IInv, ExactInv, GetBestHypo
  PROVE  ExactInv'
<1>1. /\ phase = "best" /\ UNCHANGED <<stage, stacks>>
      /\ phase' \in {"done", "assert"}
      /\ phase' = "done" => \E h \in Winners : best' = {h}
  BY DEF GetBestHypo
<1>2. ExtensionsAreKept'
  BY <1>1 DEF ExactInv, ExtensionsAreKept, Represented, Pending, Settled
<1>3. Winners' = Winners
  BY <1>1 DEF Winners
<1> QED  BY <1>1, <1>2, <1>3 DEF ExactInv, KeysAreRight

LEMMA ExtendExact ==
  ASSUME OneOutcome, IInv, ExactInv, RoomForAll, NEW b \in todo, Extend(b)
  PROVE  ExactInv'
<1>1. /\ phase = "process" /\ phase' = phase /\ stage' = stage
      /\ todo' = (todo \ {b}) \union Rest(b)
      /\ stage \in StackIndices /\ DOMAIN stacks = StackIndices
      /\ BlocksAreSound
  BY DEF IInv, Control, Extend
<1>2. PICK lm \in LMOutcomes :
        LET hypo == NewHypothesis(b.prev, b.range, b.next, lm)
        IN  \E new \in Add(stacks[hypo.bitmap.numWordsCovered], hypo) :
              stacks' = [stacks EXCEPT ![hypo.bitmap.numWordsCovered] = new]
  BY DEF Extend
<1> DEFINE hypo == NewHypothesis(b.prev, b.range, b.next, lm)
           dest == hypo.bitmap.numWordsCovered
<1>3. /\ b.prev \in stacks[stage] /\ WellFormed(hypo)
      /\ Cardinality(hypo.bitmap.covered) = dest
      /\ dest \in StackIndices /\ dest > stage
  BY <1>1, <1>2, BlockMakesLater
<1>4. /\ b.range \in Spans /\ b.next \in 1 .. Len(TargetPhrases[b.range])
      /\ b.next \in Nat \ {0} /\ Len(TargetPhrases[b.range]) \in Nat
      /\ CanExtend(b.prev.bitmap, b.prev.range.endPos, b.range)
      /\ b \in [prev : stacks[stage], range : Spans, next : Nat \ {0}]
  <2>1. /\ b \in [prev : stacks[stage], range : Spans, next : Nat \ {0}]
        /\ b.next <= Len(TargetPhrases[b.range])
        /\ CanExtend(b.prev.bitmap, b.prev.range.endPos, b.range)
    BY <1>1 DEF BlocksAreSound
  <2>2. TargetPhrases[b.range] \in Seq([score : Int])
    BY <2>1, TargetPhrasesAssumption
  <2> QED  BY <2>1, <2>2, LenProperties
<1>5. /\ hypo.key = Key(hypo.bitmap, hypo.range, lm.state)
      /\ IsDerivation(hypo)
  <2>1. IsDerivation(b.prev)
    BY <1>1, <1>3 DEF ExactInv
  <2>2. IsDerivation(hypo)
    BY <1>2, <1>4, <2>1 DEF IsDerivation, Closed
  <2> QED  BY <2>2 DEF NewHypothesis
<1>6. \A other \in LMOutcomes : other = lm
  BY <1>2 DEF OneOutcome
<1> HIDE DEF hypo, dest
<1>7. /\ stacks'[dest] = Recombine(stacks[dest], hypo)
      /\ \A i \in StackIndices : i # dest => stacks'[i] = stacks[i]
  <2>1. PICK new \in Add(stacks[dest], hypo) : stacks' = [stacks EXCEPT ![dest] = new]
    BY <1>2 DEF hypo, dest
  <2>2. new = Recombine(stacks[dest], hypo)
    BY <1>3, <2>1, RoomIsLeft DEF IInv
  <2> QED  BY <1>1, <1>3, <2>1, <2>2
<1>8. /\ \E g \in stacks'[dest] : Stands(g, hypo)
      /\ \A h \in stacks[dest] : \E g \in stacks'[dest] : Stands(g, h)
  BY <1>1, <1>3, <1>5, <1>7, RecombinationIsLossless, IndicesAreNumbers DEF ExactInv
<1>9. stacks'[dest] \in SUBSET (stacks[dest] \union {hypo})
  BY <1>7 DEF Recombine
<1>10. KeysAreRight'
  BY <1>2, <1>5, <1>7, <1>9 DEF ExactInv, KeysAreRight
<1>11. \A i \in StackIndices : \A h \in stacks'[i] : IsDerivation(h)
  BY <1>5, <1>7, <1>9 DEF ExactInv
<1>12. EmptyHypothesis \in stacks'[0]
  <2>1. 0 # dest /\ EmptyHypothesis \in stacks[0]
    BY <1>1, <1>3, IndicesAreNumbers DEF ExactInv
  <2> QED  BY <1>7, <2>1, IndicesAreNumbers
\* What was stood for still is.
<1>13. ASSUME NEW e, WellFormed(e), Cardinality(e.bitmap.covered) \in StackIndices,
              Represented(e)
       PROVE  Represented(e)'
  <2>1. CASE Cardinality(e.bitmap.covered) # dest
    BY <1>7, <1>13, <2>1 DEF Represented
  <2>2. CASE Cardinality(e.bitmap.covered) = dest
    <3>1. PICK h \in stacks[dest] : Stands(h, e)
      BY <1>13, <2>2 DEF Represented
    <3>2. PICK g \in stacks'[dest] : Stands(g, h)
      BY <1>8
    <3>3. g.score \in Int /\ h.score \in Int /\ e.score \in Int
      BY <1>3, <1>9, <1>13 DEF IInv, StackIsSound, WellFormed
    <3> QED  BY <2>2, <3>1, <3>2, <3>3, StandsIsTransitive DEF Represented
  <2> QED  BY <2>1, <2>2
<1>14. ASSUME NEW j \in StackIndices, NEW h \in stacks'[j], Settled(j)',
              NEW r \in Spans, NEW other \in LMOutcomes,
              NEW i \in 1 .. Len(TargetPhrases[r]),
              CanExtend(h.bitmap, h.range.endPos, r)
       PROVE  \/ Represented(NewHypothesis(h, r, i, other))'
              \/ Pending(h, r, i)'
  <2> DEFINE e == NewHypothesis(h, r, i, other)
  <2>1. Settled(j) /\ j # dest /\ h \in stacks[j]
    BY <1>1, <1>3, <1>7, <1>14, IndicesAreNumbers DEF Settled
  <2>2. stage # dest
    <3>1. stage \in Nat /\ dest \in Nat
      BY <1>1, <1>3, IndicesAreNumbers
    <3> QED  BY <1>3, <3>1
  <2>3. CASE Represented(e)
    <3>1. WellFormed(h) /\ i \in Nat \ {0} /\ i <= Len(TargetPhrases[r])
      <4>1. TargetPhrases[r] \in Seq([score : Int])
        BY TargetPhrasesAssumption
      <4> QED  BY <2>1, <4>1 DEF IInv, StackIsSound
    <3>2. WellFormed(e) /\ Cardinality(e.bitmap.covered) \in StackIndices
      BY <1>14, <3>1, ExtensionIsWellFormed, IndicesAreNumbers DEF StackIndices
    <3> QED  BY <1>13, <2>3, <3>2
  <2>4. CASE Pending(h, r, i)
    <3>1. PICK c \in todo : c.prev = h /\ c.range = r /\ c.next <= i
      BY <2>4 DEF Pending
    <3>2. h \in stacks'[stage]
      BY <1>1, <1>7, <2>2, <2>4 DEF Pending
    <3>3. CASE c # b
      BY <1>1, <3>1, <3>2, <3>3 DEF Pending
    <3>4. CASE c = b /\ b.next = i
      <4>1. e = hypo
        BY <1>6, <3>1, <3>4 DEF hypo
      <4>2. Represented(hypo)'
        BY <1>3, <1>8 DEF Represented
      <4> QED  BY <4>1, <4>2
    <3>5. CASE c = b /\ b.next # i
      <4>1. b.next < i /\ i <= Len(TargetPhrases[b.range]) /\ i \in Nat
        BY <1>4, <3>1, <3>5
      <4> DEFINE rest == [b EXCEPT !.next = b.next + 1]
      <4>2. rest \in Rest(b)
        BY <1>4, <4>1 DEF Rest
      <4>3. rest.prev = h /\ rest.range = r /\ rest.next <= i
        BY <1>4, <3>1, <3>5, <4>1
      <4> QED  BY <1>1, <3>2, <4>2, <4>3 DEF Pending
    <3> QED  BY <3>3, <3>4, <3>5
  <2> QED  BY <1>14, <2>1, <2>3, <2>4 DEF ExactInv, ExtensionsAreKept
<1>15. ExtensionsAreKept'
  BY <1>14 DEF ExtensionsAreKept
<1> QED  BY <1>1, <1>10, <1>11, <1>12, <1>15 DEF ExactInv

(* As long as no stack fills, the decoder is exact: its answer is a complete *)
(* derivation, and no other one, of all that the phrase table and the       *)
(* distortion limit allow, has a better score.  What recombination and the  *)
(* order of the blocks drop is never missed (Stack.cu:60-80,                *)
(* Hypothesis.cu:64-75, Manager.cu:62-176).                                 *)
THEOREM SearchIsExact ==
  ASSUME OneOutcome
  PROVE  Spec /\ []RoomForAll => []AnswerIsBest
<1>1. Init => ExactInv
  <2> SUFFICES ASSUME Init PROVE ExactInv
    OBVIOUS
  <2>1. phase = "first" /\ \A i \in StackIndices : stacks[i] = {}
    BY DEF Init
  <2> QED  BY <2>1 DEF ExactInv, KeysAreRight, ExtensionsAreKept
<1>2. IInv /\ ExactInv /\ RoomForAll /\ [Next]_vars => ExactInv'
  <2> SUFFICES ASSUME IInv, ExactInv, RoomForAll, [Next]_vars PROVE ExactInv'
    OBVIOUS
  <2>1. CASE UNCHANGED vars
    BY <2>1 DEF vars, ExactInv, KeysAreRight, ExtensionsAreKept, Represented,
                Pending, Settled, Winners
  <2>2. CASE Process1stStack
    BY <2>2, FirstStackExact
  <2>3. CASE PruneAndLaunch
    BY <2>3, PruneExact
  <2>4. CASE Synchronize
    BY <2>4, SynchronizeExact
  <2>5. CASE GetBestHypo
    BY <2>5, GetBestHypoExact
  <2>6. ASSUME NEW b \in todo, Extend(b)
        PROVE  ExactInv'
    BY <2>6, ExtendExact
  <2> QED  BY <2>1, <2>2, <2>3, <2>4, <2>5, <2>6 DEF Next
<1>3. IInv /\ ExactInv => AnswerIsBest
  <2> SUFFICES ASSUME IInv, ExactInv, phase = "done",
                      NEW h \in Winners, best = {h}
               PROVE  /\ IsDerivation(h) /\ IsComplete(h.bitmap)
                      /\ \A d : IsDerivation(d) /\ IsComplete(d.bitmap)
                                  => h.score >= d.score
    BY DEF ExactInv, AnswerIsBest
  <2>1. /\ stage = InputSize /\ InputSize \in StackIndices /\ InputSize \in Nat
        /\ h \in stacks[InputSize]
        /\ \A g \in stacks[InputSize] : h.score >= g.score
    BY IndicesAreNumbers DEF IInv, Control, ExactInv, Winners
  <2>2. /\ WellFormed(h) /\ Cardinality(h.bitmap.covered) = InputSize
        /\ IsDerivation(h)
    BY <2>1 DEF IInv, StackIsSound, ExactInv
  <2>3. IsComplete(h.bitmap)
    BY <2>2 DEF WellFormed, WellPlaced, CountIsExact, IsComplete
  <2>4. ASSUME NEW d, IsDerivation(d), IsComplete(d.bitmap)
        PROVE  h.score >= d.score
    <3>1. WellFormed(d)
      BY <2>4, DerivationsAreRepresented
    <3>2. Cardinality(d.bitmap.covered) = InputSize
      BY <2>4, <3>1 DEF WellFormed, WellPlaced, CountIsExact, IsComplete
    <3>3. PICK g \in stacks[InputSize] : Stands(g, d)
      BY <2>1, <2>4, <3>2, DerivationsAreRepresented DEF Represented
    <3>4. h.score >= g.score /\ g.score >= d.score
      BY <2>1, <3>3 DEF Stands
    <3>5. h.score \in Int /\ g.score \in Int /\ d.score \in Int
      BY <2>1, <2>2, <3>1, <3>3 DEF IInv, StackIsSound, WellFormed
    <3> QED  BY <3>4, <3>5
  <2> QED  BY <2>2, <2>3, <2>4
<1> QED  BY <1>1, <1>2, <1>3, Invariance, PTL DEF Spec

=============================================================================
