----------------------------- MODULE TargetSide -----------------------------
(***************************************************************************)
(* The target side of a chain of hypotheses: the positions its phrases     *)
(* take, how a word is looked up through the chain (Hypothesis.cu), and    *)
(* how the words of the best chain get out of the device (Manager.cu).     *)
(*                                                                         *)
(* Positions are of type size_t, with SizeT values: the range of the empty *)
(* hypothesis starts and ends at -1, the largest of them, and the first    *)
(* phrase gets its start from it by wrapping around.                       *)
(***************************************************************************)
EXTENDS Integers, Sequences, SequencesExt, FiniteSetsExt

CONSTANTS Capacity,               \* entries of the vector for the output, 100
          NoWord,                 \* NOT_FOUND_DEVICE, what they hold at first
          SizeT                   \* 2^64, more than the capacity

VARIABLES chain,                  \* the hypotheses, the empty one first
          phase,                  \* the loop that runs
          hypo,                   \* bestHypo, its place in the chain; 0 is NULL
          i, pos,                 \* i and pos in GetBestHypo, i in Process
          vocabIds,               \* the vector for the output
          printed                 \* the words the host has written

sideVars == <<chain, phase, hypo, i, pos, vocabIds, printed>>

WordsOf(c) == FlattenSeq([n \in DOMAIN c |-> c[n].targetPhrase])

EmptyHypothesis ==
  [targetPhrase |-> <<>>, startPos |-> SizeT - 1, endPos |-> SizeT - 1]

\* Mutant: the range starts at the last word of the previous one.
NewRangeOverlapping(prev, tp) ==
  [startPos |-> prev.endPos % SizeT, endPos |-> (prev.endPos + Len(tp)) % SizeT]

NewRange(prev, tp) ==
  [startPos |-> (prev.endPos + 1) % SizeT,
   endPos   |-> (prev.endPos + Len(tp)) % SizeT]

\* Hypothesis::GetWord of the n-th hypothesis: back through the chain while the
\* word is before the hypothesis, then into the phrase.  The result is a set:
\* empty where the device would trap or read past the phrase.
GetWord(n, wordPos) ==
  LET reached == {m \in 1 .. n : ~(wordPos < chain[m].startPos)}
      h       == chain[Max(reached)]
      offset  == wordPos - h.startPos
  IN  IF reached # {} /\ offset < Len(h.targetPhrase)
      THEN {h.targetPhrase[offset + 1]}
      ELSE {}

-----------------------------------------------------------------------------
\* Before the manager has a sentence.
SideInit ==
  /\ chain = <<EmptyHypothesis>>
  /\ phase = "done"
  /\ hypo = 0
  /\ i = 0
  /\ pos = 0
  /\ vocabIds = [n \in 0 .. (Capacity - 1) |-> NoWord]
  /\ printed = <<>>

\* The manager of the next sentence, with the hypothesis of Process1stStack.
Begin ==
  /\ phase = "done"
  /\ phase' = "search"
  /\ chain' = <<EmptyHypothesis>>
  /\ hypo' = 0
  /\ i' = 0
  /\ pos' = 0
  /\ vocabIds' = [n \in 0 .. (Capacity - 1) |-> NoWord]
  /\ printed' = <<>>

\* Hypothesis::Init(mgr, prevHypo, tp, path); GetBestHypo writes past the vector
\* if the translation has more words.
Extend(tp) ==
  /\ phase = "search"
  /\ Len(WordsOf(chain)) + Len(tp) <= Capacity
  /\ LET range == NewRange(Last(chain), tp)
     IN  chain' = Append(chain, [targetPhrase |-> tp, startPos |-> range.startPos,
                                 endPos |-> range.endPos])
  /\ UNCHANGED <<phase, hypo, i, pos, vocabIds, printed>>

\* GetBestHypo settles on the last hypothesis, and begins with its last word.
BestFound ==
  /\ phase = "search"
  /\ phase' = "copy"
  /\ hypo' = Len(chain)
  /\ i' = Len(Last(chain).targetPhrase)
  /\ UNCHANGED <<chain, pos, vocabIds, printed>>

CopyWord ==
  /\ phase = "copy" /\ hypo # 0
  /\ i > 0
  /\ vocabIds' = [vocabIds EXCEPT ![pos] = chain[hypo].targetPhrase[i]]
  /\ pos' = pos + 1
  /\ i' = i - 1
  /\ UNCHANGED <<chain, phase, hypo, printed>>

\* The phrase is copied: on to prevHypo, or to the reversal of the vector.
PrevHypo ==
  /\ phase = "copy"
  /\ i = 0
  /\ hypo' = hypo - 1
  /\ \/ /\ hypo' # 0
        /\ i' = Len(chain[hypo'].targetPhrase)
        /\ UNCHANGED phase
     \/ /\ hypo' = 0
        /\ phase' = "reverse"
        /\ UNCHANGED i
  /\ UNCHANGED <<chain, pos, vocabIds, printed>>

\* Mutant: the middle pair is not exchanged.
HalfShort == (pos - 1) \div 2

Half == pos \div 2

Exchange ==
  /\ phase = "reverse" /\ i < Half
  /\ vocabIds' = [vocabIds EXCEPT ![i] = vocabIds[pos - i - 1],
                                  ![pos - i - 1] = vocabIds[i]]
  /\ i' = i + 1
  /\ UNCHANGED <<chain, phase, hypo, pos, printed>>

Synchronize ==
  /\ phase = "reverse" /\ i >= Half
  /\ phase' = "print"
  /\ i' = 0
  /\ UNCHANGED <<chain, hypo, pos, vocabIds, printed>>

\* The host writes words until it comes to an entry with none, or to the end.
PrintWord ==
  /\ phase = "print" /\ i < Capacity
  /\ vocabIds[i] # NoWord
  /\ printed' = Append(printed, vocabIds[i])
  /\ i' = i + 1
  /\ UNCHANGED <<chain, phase, hypo, pos, vocabIds>>

Finish ==
  /\ phase = "print"
  /\ i < Capacity => vocabIds[i] = NoWord
  /\ phase' = "done"
  /\ UNCHANGED <<chain, hypo, i, pos, vocabIds, printed>>

Output ==
  BestFound \/ CopyWord \/ PrevHypo \/ Exchange \/ Synchronize \/ PrintWord \/ Finish

-----------------------------------------------------------------------------
(***************************************************************************)
(* From every hypothesis but the empty one, each word up to the end of its *)
(* phrase is found, and is the right one: the wrapped positions and phrases*)
(* with no words mislead neither the walk back nor the offset into the     *)
(* phrase, and the walk never runs off the chain (Hypothesis.cu:49-50,     *)
(* 111-124).                                                               *)
(***************************************************************************)
WordsReadBack ==
  \A n \in DOMAIN chain :
    LET words == WordsOf(SubSeq(chain, 1, n))
    IN  \A p \in 1 .. Len(words) : GetWord(n, p - 1) = {words[p]}

=============================================================================
