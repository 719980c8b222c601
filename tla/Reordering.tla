----------------------------- MODULE Reordering -----------------------------
(***************************************************************************)
(* The coverage vector of a hypothesis (Bitmap.cu, Bitmap.h), the source   *)
(* spans that are laid over it (Range.h), and the conditions under which   *)
(* the kernel ProcessStack extends a hypothesis with one (Manager.cu).     *)
(*                                                                         *)
(* A Bitmap caches two facts about its bits, the number of set bits and    *)
(* the position of the first clear one, and updates both incrementally.    *)
(* The array m_bitmap is modelled as the set of positions that are set.    *)
(***************************************************************************)
EXTENDS Integers, FiniteSets, FiniteSetsExt

CONSTANT InputSize                \* words of the source sentence

NotFound == 123456789             \* NOT_FOUND_DEVICE

\* A sentence of NotFound words would make the sentinel a position.
ASSUME InputSizeAssumption == InputSize \in 1 .. (NotFound - 1)

Positions == 0 .. (InputSize - 1)

\* The spans the kernels visit: a thread whose start is past its end returns.
Spans == {r \in [startPos : Positions, endPos : Positions] : r.startPos <= r.endPos}

Words(r) == r.startPos .. r.endPos

\* The range of Manager::initPath, which the empty hypothesis points to.
InitRange == [startPos |-> NotFound, endPos |-> NotFound]

GetNumWordsCovered(r) ==
  IF r.startPos = NotFound THEN 0 ELSE r.endPos - r.startPos + 1

-----------------------------------------------------------------------------
Bitmaps == [covered : SUBSET Positions, numWordsCovered : Nat,
            firstGap : Positions \union {NotFound}]

InitialBitmap == [covered |-> {}, numWordsCovered |-> 0, firstGap |-> 0]

\* Mutant: only the first word of the span is looked at.
OverlapAtStart(bm, r) == r.startPos \in bm.covered

Overlap(bm, r) == Words(r) \intersect bm.covered # {}

IsComplete(bm) == InputSize = bm.numWordsCovered

\* Mutants: the position after the span is taken for the gap without a look at
\* its bit, and the sentinel is left out.
FirstGapAfterNoScan(covered, pos) ==
  IF pos + 1 \in Positions THEN pos + 1 ELSE NotFound

\* The scan for the new first gap starts right after the span.
FirstGapAfter(covered, pos) ==
  LET gaps == {p \in Positions : p > pos /\ p \notin covered}
  IN  IF gaps = {} THEN NotFound ELSE Min(gaps)

\* Bitmap::Init(copy, range), which calls SetValueNonOverlap on the copy.
SetValueNonOverlap(bm, r) ==
  LET covered == bm.covered \union Words(r)
  IN  [covered |-> covered,
       numWordsCovered |-> bm.numWordsCovered + GetNumWordsCovered(r),
       firstGap |-> IF bm.firstGap \in Words(r)
                    THEN FirstGapAfter(covered, r.endPos)
                    ELSE bm.firstGap]

-----------------------------------------------------------------------------
\* What the header promises of the cached fields: the "count of words
\* translated" and the "position of 1st word not yet translated, or NOT_FOUND
\* if everything already translated".
CountIsExact(bm) == bm.numWordsCovered = Cardinality(bm.covered)

GapIsFirst(bm) ==
  /\ bm.firstGap \notin bm.covered
  /\ \A p \in Positions : p < bm.firstGap => p \in bm.covered

-----------------------------------------------------------------------------
(* The distance measures and the window *)

CONSTANT MaxDistortion            \* [distortion-limit], < 0: no limit

ASSUME MaxDistortionAssumption == MaxDistortion \in Int

\* Manager::ComputeDistortionDistance and, with the empty range tested through
\* its start, Distortion::ComputeDistortionDistance.
ComputeDistortionDistance(prevEndPos, currStartPos) ==
  LET dist == IF prevEndPos = NotFound
              THEN currStartPos
              ELSE prevEndPos - currStartPos + 1
  IN  IF dist < 0 THEN -dist ELSE dist

\* Mutant: the comparison with the limit is off by one.
JumpAllowedOffByOne(prevEndPos, r) ==
  MaxDistortion >= 0 =>
    ComputeDistortionDistance(prevEndPos, r.startPos) < MaxDistortion

\* The jump from the last span translated to the start of this one.
JumpAllowed(prevEndPos, r) ==
  MaxDistortion >= 0 =>
    ComputeDistortionDistance(prevEndPos, r.startPos) <= MaxDistortion

\* Mutant: the jump back is measured from the start of the span.
ReturnFromStart(bm, r) ==
  \/ bm.firstGap = r.startPos
  \/ MaxDistortion < 0
  \/ ComputeDistortionDistance(r.startPos, bm.firstGap) <= MaxDistortion

\* The jump back that the span would leave to the first gap.
ReturnAllowed(bm, r) ==
  \/ bm.firstGap = r.startPos
  \/ MaxDistortion < 0
  \/ ComputeDistortionDistance(r.endPos, bm.firstGap) <= MaxDistortion

CanExtend(bm, prevEndPos, r) ==
  /\ ~Overlap(bm, r)
  /\ JumpAllowed(prevEndPos, r)
  /\ ReturnAllowed(bm, r)

=============================================================================
