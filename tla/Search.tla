------------------------------- MODULE Search -------------------------------
(***************************************************************************)
(* The translation of one sentence: Manager::Process and the kernels it    *)
(* launches (Manager.cu, Hypothesis.cu).                                   *)
(*                                                                         *)
(* The host works through the stacks in order.  For each it prunes the     *)
(* stack (one thread), then launches ProcessStack with one block for every *)
(* pair of a hypothesis of the stack and a source span, and waits for all  *)
(* of them.  The blocks extend their hypothesis with the target phrases of *)
(* their span, one after the other, in any interleaving.                   *)
(*                                                                         *)
(* An iteration of a block's loop is one step: it makes a hypothesis from  *)
(* data that no running block changes (SourceFrozen) and adds it under the *)
(* lock of the destination stack, which module Stack shows to be atomic.   *)
(* A hypothesis stands for its address: it is the record of its fields and *)
(* of the steps that led to it, which are those of the hypotheses on its   *)
(* chain of prevHypo pointers.                                             *)
(***************************************************************************)
EXTENDS Reordering, StackOps, SequencesExt

CONSTANTS TargetPhrases,          \* for each span its target phrases, in order
          DistortionWeight,       \* weight of the Distortion feature
          LMOutcomes              \* what LanguageModel may give a hypothesis

\* A stack for none traps at its first hypothesis: see SortedVector.
ASSUME StackSizeAssumption == StackSize \in Nat \ {0}

\* A target phrase is a record with the field score, its score in isolation.
ASSUME TargetPhrasesAssumption ==
  TargetPhrases \in [Spans -> Seq([score : Int])]

\* The language model is not modelled here: it adds some score to a hypothesis
\* and sets some state.  Without the feature both are fixed.
ASSUME LMAssumption == \A lm \in LMOutcomes : lm.score \in Int

ASSUME DistortionWeightAssumption == DistortionWeight \in Int

LowestBest == -999999             \* bestScore before GetBestHypo's loop

VARIABLES phase,                  \* what the host does next
          stage,                  \* stackInd
          stacks,                 \* m_stacks
          heap,                   \* hypotheses allocated and not deleted
          todo,                   \* blocks of the running kernel still at work
          best                    \* bestHypo, as a set of at most one

vars == <<phase, stage, stacks, heap, todo, best>>

StackIndices == 0 .. InputSize    \* m_stacks.Init(*this, inputSize + 1)

-----------------------------------------------------------------------------
(* Hypotheses. *)

\* Mutant: the state of the Distortion feature does not count.
KeyWithoutState(bm, range, lm) == [covered |-> bm.covered, lm |-> lm]

\* What RecombineCompare compares: the bits of the coverage, then stateData,
\* which holds the end of the last span and the state of the language model.
Key(bm, range, lm) ==
  [covered |-> bm.covered, endPos |-> range.endPos, lm |-> lm]

\* Hypothesis::Init(mgr).  Its stateData is never set, nor compared.
EmptyHypothesis ==
  [steps |-> <<>>, bitmap |-> InitialBitmap, range |-> InitRange,
   score |-> 0, key |-> {}]

\* Distortion::EvaluateWhenApplied, for a hypothesis that has a previous one.
DistortionScore(prev, r) ==
  -DistortionWeight * ComputeDistortionDistance(prev.range.endPos, r.startPos)

\* Hypothesis::Init(mgr, prevHypo, tp, path), with the features it evaluates.
NewHypothesis(prev, r, i, lm) ==
  LET bm == SetValueNonOverlap(prev.bitmap, r)
  IN  [steps  |-> Append(prev.steps, [range |-> r, phrase |-> i, lm |-> lm]),
       bitmap |-> bm,
       range  |-> r,
       score  |-> TargetPhrases[r][i].score + prev.score + lm.score
                  + DistortionScore(prev, r),
       key    |-> Key(bm, r, lm.state)]

\* The blocks of ProcessStack that get past the early returns.  They read only
\* the source stack, so that it does not matter when they do.
BlocksOf(source) ==
  {b \in [prev : source, range : Spans, next : {1}] :
     /\ TargetPhrases[b.range] # <<>>
     /\ CanExtend(b.prev.bitmap, b.prev.range.endPos, b.range)}

\* Mutant: the loop stays on its first phrase.
RestStuck(b) ==
  IF b.next < Len(TargetPhrases[b.range]) THEN {b} ELSE {}

\* What is left of a block after an iteration of its loop.
Rest(b) ==
  IF b.next < Len(TargetPhrases[b.range])
  THEN {[b EXCEPT !.next = @ + 1]}
  ELSE {}

\* What Stack::add and Stack::prune delete.
Deleted(coll, hypo, new) == (coll \union {hypo}) \ new

-----------------------------------------------------------------------------
Init ==
  /\ phase = "first"
  /\ stage = 0
  /\ stacks = [i \in StackIndices |-> {}]
  /\ heap = {}
  /\ todo = {}
  /\ best = {}

\* Process1stStack.
Process1stStack ==
  /\ phase = "first"
  /\ \E new \in Add(stacks[0], EmptyHypothesis) :
       stacks' = [stacks EXCEPT ![0] = new]
  /\ heap' = {EmptyHypothesis}
  /\ phase' = "prune"
  /\ UNCHANGED <<stage, todo, best>>

\* Mutant: the stack that was extended last is pruned.
StackToPruneLate == IF stage = 0 THEN 0 ELSE stage - 1

StackToPrune == stage

\* The PruneStack kernel and the launch of ProcessStack.
PruneAndLaunch ==
  /\ phase = "prune"
  /\ stage < InputSize
  /\ \E kept \in Prune(stacks[StackToPrune]) :
       /\ stacks' = [stacks EXCEPT ![StackToPrune] = kept]
       /\ heap' = heap \ (stacks[StackToPrune] \ kept)
  /\ todo' = BlocksOf(stacks'[stage])
  /\ phase' = "process"
  /\ UNCHANGED <<stage, best>>

\* One iteration of the target phrase loop of ProcessStack.
Extend(b) ==
  /\ phase = "process"
  /\ \E lm \in LMOutcomes :
       LET hypo == NewHypothesis(b.prev, b.range, b.next, lm)
           dest == hypo.bitmap.numWordsCovered
       IN  \E new \in Add(stacks[dest], hypo) :
             /\ stacks' = [stacks EXCEPT ![dest] = new]
             /\ heap' = (heap \union {hypo}) \ Deleted(stacks[dest], hypo, new)
  /\ todo' = (todo \ {b}) \union Rest(b)
  /\ UNCHANGED <<phase, stage, best>>

\* cudaDeviceSynchronize returns, and the host turns to the next stack.
Synchronize ==
  /\ phase = "process"
  /\ todo = {}
  /\ stage' = stage + 1
  /\ phase' = IF stage' < InputSize THEN "prune" ELSE "best"
  /\ UNCHANGED <<stacks, heap, todo, best>>

\* The hypotheses of the last stack that GetBestHypo may settle on.
Winners ==
  {h \in stacks[InputSize] :
     /\ h.score > LowestBest
     /\ \A g \in stacks[InputSize] : h.score >= g.score}

\* GetBestHypo, whose assert(bestHypo) stops the program if there is none.
GetBestHypo ==
  /\ phase = "best"
  /\ \/ /\ Winners = {}
        /\ phase' = "assert"
        /\ UNCHANGED best
     \/ /\ \E h \in Winners : best' = {h}
        /\ phase' = "done"
  /\ UNCHANGED <<stage, stacks, heap, todo>>

Next ==
  \/ Process1stStack \/ PruneAndLaunch \/ Synchronize \/ GetBestHypo
  \/ \E b \in todo : Extend(b)

\* Fairness: the host goes on when it can, and the device runs its blocks.
Spec == Init /\ [][Next]_vars /\ WF_vars(Next)

-----------------------------------------------------------------------------
TypeOK ==
  /\ phase \in {"first", "prune", "process", "best", "done", "assert"}
  /\ stage \in 0 .. InputSize
  /\ DOMAIN stacks = StackIndices
  /\ \A h \in heap :
       /\ h.bitmap \in Bitmaps
       /\ h.range \in Spans \union {InitRange}
       /\ h.score \in Int

(***************************************************************************)
(* Every live hypothesis is a derivation the model of translation allows:  *)
(* its spans do not overlap, together they are its coverage, it is in the  *)
(* stack of that many words, and no jump exceeds the distortion limit      *)
(* (Manager.cu:83-126, Hypothesis.cu:37-56).                               *)
(***************************************************************************)
Jump(h, i) ==
  LET prevEnd == IF i = 1 THEN -1 ELSE h.steps[i - 1].range.endPos
      dist == h.steps[i].range.startPos - prevEnd - 1
  IN  IF dist < 0 THEN -dist ELSE dist

Legal(h) ==
  /\ \A i, j \in DOMAIN h.steps :
       i # j => Words(h.steps[i].range) \intersect Words(h.steps[j].range) = {}
  /\ h.bitmap.covered = UNION {Words(h.steps[i].range) : i \in DOMAIN h.steps}
  /\ MaxDistortion >= 0 =>
       \A i \in DOMAIN h.steps : Jump(h, i) <= MaxDistortion

HypothesesAreLegal ==
  /\ \A h \in heap : Legal(h)
  /\ \A i \in StackIndices : \A h \in stacks[i] : Cardinality(h.bitmap.covered) = i

(***************************************************************************)
(* The chain of prevHypo pointers of a live hypothesis never runs into a   *)
(* deleted one, although stacks delete hypotheses whenever they prune or   *)
(* recombine: GetBestHypo and Hypothesis::GetWord follow it                *)
(* (Manager.cu:162-173, Hypothesis.cu:111-124, Stack.cu:70, 115).          *)
(***************************************************************************)
NoDanglingPrev ==
  \A h \in heap :
    h.steps # <<>> => \E p \in heap : p.steps = Front(h.steps)

(***************************************************************************)
(* No hypothesis is lost without being deleted, none that a stack holds is *)
(* deleted, and none is in two stacks (Stack.cu:33-117).                   *)
(***************************************************************************)
HeapIsExact ==
  /\ heap = UNION {stacks[i] : i \in StackIndices}
  /\ \A i, j \in StackIndices : i # j => stacks[i] \intersect stacks[j] = {}

(***************************************************************************)
(* All of these together, whatever the blocks interleave and the beam      *)
(* drops: the live hypotheses are well formed, legal, those of the stacks, *)
(* and reach the first one by live ones (Manager.cu:66-135, Stack.cu:33-   *)
(* 117, Hypothesis.cu:37-62).                                              *)
(***************************************************************************)
HypothesesAreSound ==
  TypeOK /\ HypothesesAreLegal /\ NoDanglingPrev /\ HeapIsExact

(***************************************************************************)
(* The blocks of ProcessStack read the source stack with no lock           *)
(* (Manager.cu:84-86): nothing changes it, or an earlier one, while they   *)
(* run, nor ever after.                                                    *)
(***************************************************************************)
SourceFrozen ==
  [][\A i \in StackIndices :
       i < stage \/ (i = stage /\ phase = "process")
         => stacks'[i] = stacks[i]]_vars

(***************************************************************************)
(* The assertion of GetBestHypo holds: whatever the beam dropped, some     *)
(* hypothesis has translated the whole sentence (Manager.cu:160).          *)
(***************************************************************************)
BestHypoExists == phase # "assert"

(***************************************************************************)
(* The decoder always answers.                                             *)
(***************************************************************************)
Terminates == <>(phase \in {"done", "assert"})

=============================================================================
