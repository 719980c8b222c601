----------------------------- MODULE Derivation -----------------------------
(***************************************************************************)
(* One chain of hypotheses: the empty hypothesis of Process1stStack and    *)
(* the successive extensions that ProcessStack makes of it.  The behaviours*)
(* of this module are the paths through the search space that the guards   *)
(* of ProcessStack leave open, whatever the scores, the beam and the order *)
(* of the threads; module Search explores them stack by stack.             *)
(***************************************************************************)
EXTENDS Reordering

CONSTANT Paths                    \* the spans with target phrases

ASSUME PathsAssumption == Paths \subseteq Spans

VARIABLES bitmap,                 \* hypo->bitmap
          range                   \* hypo->path->range

derivationVars == <<bitmap, range>>

DerivationInit ==
  /\ bitmap = InitialBitmap
  /\ range = InitRange

ExtendChain(r) ==
  /\ CanExtend(bitmap, range.endPos, r)
  /\ bitmap' = SetValueNonOverlap(bitmap, r)
  /\ range' = r

DerivationNext == \E r \in Paths : ExtendChain(r)

DerivationSpec == DerivationInit /\ [][DerivationNext]_derivationVars

-----------------------------------------------------------------------------
DerivationTyped ==
  /\ bitmap \in Bitmaps
  /\ range \in Spans \union {InitRange}

(***************************************************************************)
(* The cached count and first gap of a bitmap are never stale, although    *)
(* SetValueNonOverlap rescans only when the span covers the old gap        *)
(* (Bitmap.cu:38-65), and a complete bitmap is exactly one with no gap.    *)
(***************************************************************************)
CacheExact ==
  /\ CountIsExact(bitmap)
  /\ GapIsFirst(bitmap)
  /\ IsComplete(bitmap) <=> bitmap.firstGap = NotFound

(***************************************************************************)
(* Under a distortion limit the translated words lie in a window of that   *)
(* many positions after the first gap (Manager.cu:92-114).                 *)
(***************************************************************************)
WithinWindow ==
  MaxDistortion >= 0 =>
    \A p \in bitmap.covered : p < bitmap.firstGap + MaxDistortion

(***************************************************************************)
(* The limit never paints the search into a corner: as long as a word is   *)
(* left, the guards of ProcessStack allow the leftmost untranslated word   *)
(* to be translated next, if the phrase table has it as a phrase.          *)
(***************************************************************************)
NoDeadEnd ==
  \A r \in Paths :
    r.startPos = bitmap.firstGap /\ r.endPos = bitmap.firstGap
      => CanExtend(bitmap, range.endPos, r)

\* The strengthening of NoDeadEnd that is inductive: the jump from the last span
\* to the first gap is within the limit.
GapInReach ==
  MaxDistortion >= 0 /\ bitmap.firstGap # NotFound =>
    ComputeDistortionDistance(range.endPos, bitmap.firstGap) <= MaxDistortion

(***************************************************************************)
(* An extension always belongs to a later stack than its hypothesis, and   *)
(* to one that exists: m_stacks has InputSize + 1 of them (Manager.cu:206).*)
(***************************************************************************)
ClimbsStacks ==
  [][/\ bitmap'.numWordsCovered > bitmap.numWordsCovered
     /\ bitmap'.numWordsCovered <= InputSize]_derivationVars

=============================================================================
