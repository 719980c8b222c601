--------------------------- MODULE LegacyDecoder ----------------------------
(***************************************************************************)
(* The earlier decoder (old/): main with its lines of input, the Manager   *)
(* of each sentence and the kernels it launches (CUDA/CUDA.cu).            *)
(*                                                                         *)
(* Kernels run one after the other.  InitStack and FinalizeStack work with *)
(* one thread; in ProcessStackSerial every thread goes through all the new *)
(* hypotheses, at once with the others.  After a fault on the device later *)
(* kernels do nothing, and the next call that is checked exits.            *)
(*                                                                         *)
(* Three things the code leaves undefined are open here: the distortion of *)
(* two ranges, which Distortion does not return; the coverage of the first *)
(* hypothesis, whose memory is freed when the local it was copied from     *)
(* goes away, so that the next allocation may get it; and a write past an  *)
(* array.  It faults, or it overwrites what lies behind: past a stack, its *)
(* count and the first hypothesis of the next one.  Behind the last stack  *)
(* it may also find memory that is not in use.  Of memory that has been    *)
(* overwritten nothing is known, and whatever runs then may fault; it is   *)
(* taken to end.  Nothing reads a score.                                   *)
(***************************************************************************)
EXTENDS LegacySystem

CONSTANTS Sentences,              \* lines of input, other than EXIT
          MaxSentences, MaxWords, \* lines, and their words, before the end
          Threads,                \* threads of ProcessStackSerial, 999
          StackCapacity,          \* MAX_STACK_SIZE * 2
          NumNewHypos             \* NUM_NEW_HYPOS

ASSUME SentencesAssumption == Sentences \subseteq Seq(Nat)

ASSUME CapacityAssumption == NumNewHypos \in Nat

VARIABLES said,                   \* the sentences so far
          fault,                  \* the error that the device keeps
          pathInfo,               \* g_pathInfoDev
          stacks, stackInd,       \* g_stacks, and i of Manager::Search
          hypos, numHypos,        \* g_hypos, g_numHypos
          freed,                  \* the coverage of the first hypothesis, and
                                  \* whether its memory is in use again
          overrun,                \* memory of the device has been overwritten
          threads                 \* where each thread is

searchVars == <<pathInfo, stacks, stackInd, hypos, numHypos, freed, overrun,
                threads>>

vars == <<systemVars, pc, said, fault, searchVars>>

Sentence == Last(said)

InputSize == Len(Sentence)

NoPrev == <<0, 0>>

EmptyHypothesis ==
  [prev |-> NoPrev, range |-> Path(0, 0), bitmap |-> {}, covered |-> 0,
   isValid |-> TRUE]

Init ==
  /\ SystemInit
  /\ said = <<>>
  /\ fault = FALSE
  /\ pathInfo = <<>>
  /\ stacks = <<>>
  /\ stackInd = 0
  /\ hypos = <<>>
  /\ numHypos = 0
  /\ freed = [reused |-> FALSE, bitmap |-> {}]
  /\ overrun = FALSE
  /\ threads = [t \in Threads |-> [i |-> 1, at |-> "test"]]

-----------------------------------------------------------------------------
(* A sentence: the paths, the lookup, and the memory for the device *)

\* CALL_CUDA.
Checked(then) == IF fault THEN "exit 1" ELSE then

\* A line of input.  With no table there is no lookup that a path could take.
ReadSentence(line) ==
  /\ pc = "input"
  /\ Len(said) < MaxSentences
  /\ Len(FlattenSeq(said)) + Len(line) <= MaxWords
  /\ said' = Append(said, line)
  /\ pathInfo' = <<>>
  /\ next' = 1
  /\ pc' = IF ffs = <<>> /\ line # <<>> THEN "crash" ELSE "lookup"
  /\ UNCHANGED <<config, fault, stacks, stackInd, hypos, numHypos, freed, overrun, threads>>

\* Lookup of a path in the first table; those in the others are not used.
LookupPath ==
  /\ pc = "lookup" /\ next \in DOMAIN InputPaths(Sentence)
  /\ LET path == InputPaths(Sentence)[next]
         prev == IF next = 1 THEN NoNode ELSE pathInfo[next - 1].node
     IN  pathInfo' = Append(pathInfo,
           [range |-> path, node |-> LookupNode(tables[1], Sentence, path, prev),
            tps |-> <<>>])
  /\ next' = next + 1
  /\ UNCHANGED <<config, pc, said, fault, stacks, stackInd, hypos, numHypos, freed, overrun,
                 threads>>

PhrasesOf(node) ==
  IF node = NoNode THEN <<>> ELSE ReadMemory(NodeMemory(tables[1][node]))

\* WriteMemoryToDevice, with the kernel CreateTPSDev: it prints the count of
\* each block, of a path that has none as well.
WriteMemory ==
  /\ pc = "lookup" /\ next = Len(InputPaths(Sentence)) + 1
  /\ pc' = Checked(IF overrun THEN "adrift" ELSE "initStacks")
  /\ pathInfo' = [n \in DOMAIN pathInfo |->
                    [pathInfo[n] EXCEPT !.tps = PhrasesOf(pathInfo[n].node)]]
  /\ fault' = \/ fault
              \/ \E n \in DOMAIN pathInfo :
                   \/ pathInfo[n].node = NoNode
                   \/ ~Readable(PhrasesOf(pathInfo[n].node))
  /\ UNCHANGED <<systemVars, said, stacks, stackInd, hypos, numHypos, freed, overrun, threads>>

\* The kernel runs, unless the device has failed; an access past an array may
\* make it fail, or find memory that is not in use.
Kernel(pastEnd) == IF fault THEN {FALSE} ELSE IF pastEnd THEN BOOLEAN ELSE {TRUE}

\* The stacks are counted from 0 to inputSize - 1; one more is kept here for
\* the complete hypotheses, which are written behind them.
InitStacks ==
  /\ pc = "initStacks"
  /\ \E works \in Kernel(InputSize = 0) :
       /\ fault' = ~works
       /\ stacks' = IF works
                    THEN [k \in 0 .. InputSize |-> IF k = 0 THEN <<EmptyHypothesis>> ELSE <<>>]
                    ELSE [k \in 0 .. InputSize |-> <<>>]
       /\ hypos' = [n \in 1 .. NumNewHypos |-> EmptyHypothesis]
  /\ stackInd' = 0
  /\ numHypos' = 0
  /\ freed' = [reused |-> FALSE, bitmap |-> {}]
  /\ pc' = IF InputSize = 0 THEN "input" ELSE "initStack"
  /\ UNCHANGED <<systemVars, said, pathInfo, overrun, threads>>

-----------------------------------------------------------------------------
(* InitStack *)

WordsOf(range) == range.startPos .. range.endPos

\* WordsBitmapDev::IsValid.
IsFree(bitmap, range) == \A pos \in WordsOf(range) : pos \notin bitmap

\* Mutant: the last word of the range is left out of the coverage.
SetHypoShort(slot, prevInd, prevHypo, prevBitmap, range) ==
  IF IsFree(prevBitmap, range)
  THEN [slot EXCEPT !.prev = prevInd, !.range = range, !.isValid = TRUE,
                    !.bitmap = prevBitmap \union (range.startPos .. range.endPos - 1),
                    !.covered = prevHypo.covered + Cardinality(WordsOf(range))]
  ELSE [slot EXCEPT !.isValid = FALSE]

\* Hypothesis::SetHypo of a slot, whose other fields stay when it is not valid.
SetHypo(slot, prevInd, prevHypo, prevBitmap, range) ==
  IF IsFree(prevBitmap, range)
  THEN [slot EXCEPT !.prev = prevInd, !.range = range, !.isValid = TRUE,
                    !.bitmap = prevBitmap \union WordsOf(range),
                    !.covered = prevHypo.covered + Cardinality(WordsOf(range))]
  ELSE [slot EXCEPT !.isValid = FALSE]

\* The pairs of a hypothesis of the stack and a target phrase, in order.
Expansions ==
  FlattenSeq([p \in DOMAIN stacks[stackInd] |->
    FlattenSeq([n \in DOMAIN pathInfo |->
      [k \in DOMAIN pathInfo[n].tps |-> [prev |-> p, range |-> pathInfo[n].range]]])])

\* The start of the kernel.
InitStack ==
  /\ pc = "initStack"
  /\ numHypos' = 0
  /\ pc' = "expand"
  /\ UNCHANGED <<systemVars, said, fault, pathInfo, stacks, stackInd, hypos, freed, overrun,
                 threads>>

\* One iteration, or a fault past the new ones.  The coverage that is allocated
\* for a valid hypothesis may be the memory the first one still points to.
Expand ==
  /\ pc = "expand" /\ ~fault
  /\ numHypos < Len(Expansions)
  /\ LET x          == Expansions[numHypos + 1]
         prevHypo   == stacks[stackInd][x.prev]
         prevBitmap == IF stackInd = 0 THEN freed.bitmap ELSE prevHypo.bitmap
         new        == SetHypo(hypos[numHypos + 1], <<stackInd, x.prev>>, prevHypo,
                               prevBitmap, x.range)
     IN  \/ /\ numHypos = NumNewHypos
            /\ fault' = TRUE
            /\ UNCHANGED <<hypos, numHypos, freed>>
         \/ /\ numHypos < NumNewHypos
            /\ hypos' = [hypos EXCEPT ![numHypos + 1] = new]
            /\ numHypos' = numHypos + 1
            /\ \/ UNCHANGED freed
               \/ /\ stackInd = 0 /\ ~freed.reused /\ new.isValid
                  /\ freed' = [reused |-> TRUE, bitmap |-> new.bitmap]
            /\ UNCHANGED fault
  /\ UNCHANGED <<systemVars, pc, said, pathInfo, stacks, stackInd, overrun, threads>>

StackInitialised ==
  /\ pc = "expand"
  /\ fault \/ numHypos = Len(Expansions)
  /\ threads' = [t \in Threads |-> [i |-> 1, at |-> "test"]]
  /\ pc' = "processStack"
  /\ UNCHANGED <<systemVars, said, fault, pathInfo, stacks, stackInd, hypos, numHypos, freed,
                 overrun>>

-----------------------------------------------------------------------------
(* ProcessStackSerial *)

NumToProcess == IF fault THEN 0 ELSE numHypos

\* Mutant: a hypothesis that is not valid ends in a loop.
NextUnlessInvalid(t) ==
  [threads EXCEPT ![t] = [i |-> IF hypos[@.i].isValid THEN @.i + 1 ELSE @.i,
                          at |-> "test"]]

NextHypo(t) == [threads EXCEPT ![t] = [i |-> @.i + 1, at |-> "test"]]

Running(t, at) == pc = "processStack" /\ threads[t].i <= NumToProcess /\ threads[t].at = at

\* CalcIsValid reads the flag.
TestValid(t) ==
  /\ Running(t, "test")
  /\ threads' = IF hypos[threads[t].i].isValid
                THEN [threads EXCEPT ![t].at = "judge"] ELSE NextHypo(t)
  /\ UNCHANGED <<systemVars, pc, said, fault, pathInfo, stacks, stackInd, hypos, numHypos, freed,
                 overrun>>

\* It writes whether the distortion is within the limit.  What is left of
\* Process changes scores, which nothing reads.
Judge(t) ==
  /\ Running(t, "judge")
  /\ \E within \in BOOLEAN : hypos' = [hypos EXCEPT ![threads[t].i].isValid = within]
  /\ threads' = NextHypo(t)
  /\ UNCHANGED <<systemVars, pc, said, fault, pathInfo, stacks, stackInd, numHypos, freed, overrun>>

-----------------------------------------------------------------------------
(* FinalizeStack *)

StartFinalize ==
  /\ pc = "processStack"
  /\ \A t \in Threads : threads[t].i > NumToProcess
  /\ next' = 1
  /\ pc' = "finalizeStack"
  /\ UNCHANGED <<config, said, fault, searchVars>>

\* The stack of the complete ones is behind the array of the stacks.
Outside(h) == h.covered = InputSize

Full(stack) == Len(stack) >= StackCapacity

\* AddHypo of a copy.
FinalizeHypo ==
  /\ pc = "finalizeStack" /\ next <= NumToProcess
  /\ LET h == hypos[next]
     IN  \/ /\ h.isValid
            /\ \E works \in IF Full(stacks[h.covered]) THEN {FALSE} ELSE Kernel(Outside(h)) :
                 /\ fault' = ~works
                 /\ stacks' = IF works THEN [stacks EXCEPT ![h.covered] = Append(@, h)]
                              ELSE stacks
         \/ /\ ~h.isValid
            /\ UNCHANGED <<fault, stacks>>
  /\ next' = next + 1
  /\ UNCHANGED <<config, pc, said, pathInfo, stackInd, hypos, numHypos, freed, overrun, threads>>

\* After the last one DebugStacks reads the count of the stack behind the array.
StackFinished ==
  /\ pc = "finalizeStack" /\ next > NumToProcess
  /\ stackInd' = stackInd + 1
  /\ pc' = IF stackInd + 1 < InputSize THEN "initStack" ELSE "input"
  /\ \E works \in Kernel(stackInd + 1 = InputSize) : fault' = ~works
  /\ UNCHANGED <<systemVars, said, pathInfo, stacks, hypos, numHypos, freed, overrun, threads>>

-----------------------------------------------------------------------------
(* Past an array *)

\* The next write goes past the stacks, past one of them or past the new ones.
WritesPastEnd ==
  \/ pc = "initStacks" /\ InputSize = 0
  \/ pc = "expand" /\ numHypos = NumNewHypos /\ numHypos < Len(Expansions)
  \/ /\ pc = "finalizeStack" /\ next <= NumToProcess /\ hypos[next].isValid
     /\ Outside(hypos[next]) \/ Full(stacks[hypos[next].covered])

\* It overwrites what is there.
WriteOver ==
  /\ ~fault /\ WritesPastEnd
  /\ overrun' = TRUE
  /\ stacks' = <<>>
  /\ pc' = "adrift"
  /\ UNCHANGED <<systemVars, said, fault, pathInfo, stackInd, hypos, numHypos, freed, threads>>

\* The kernels of the sentence that are left run on what was overwritten.
Adrift ==
  /\ pc = "adrift"
  /\ \E fails \in BOOLEAN : fault' = (fault \/ fails)
  /\ pc' = "input"
  /\ UNCHANGED <<systemVars, said, searchVars>>

-----------------------------------------------------------------------------
\* Mutant: the result of the last calls is not looked at.
ExitUnchecked == "exit 0"

\* FinalizeGPU, and the return from main.
ExitCode == Checked("exit 0")

\* EXIT, or the end of the input.
Finish ==
  /\ pc = "input"
  /\ pc' = ExitCode
  /\ UNCHANGED <<systemVars, said, fault, searchVars>>

Next ==
  \/ SystemNext /\ UNCHANGED <<said, fault, searchVars>>
  \/ LookupPath \/ WriteMemory \/ InitStacks \/ InitStack \/ Expand \/ StackInitialised
  \/ StartFinalize \/ FinalizeHypo \/ StackFinished
  \/ WriteOver \/ Adrift \/ Finish
  \/ \E line \in Sentences : ReadSentence(line)
  \/ \E t \in Threads : TestValid(t) \/ Judge(t)

\* A thread runs on, as do the program and the device; input comes to an end.
Spec == Init /\ [][Next]_vars /\ WF_vars(Next)
          /\ \A t \in Threads : WF_vars(TestValid(t) \/ Judge(t))

-----------------------------------------------------------------------------
FirstTable == TableFiles[ffs[1].path]

\* The lines of the first table for a span.
LinesFor(range) ==
  {n \in DOMAIN FirstTable :
     FirstTable[n].source = SubSeq(Sentence, range.startPos + 1, range.endPos + 1)}

(***************************************************************************)
(* The device has, for every span, the target phrases of the lines of the  *)
(* file with that source, in their order: the incremental lookup, which    *)
(* goes on from the node of a shorter span, finds the node, and walking the*)
(* flattened block gets back words and scores - when the table has the     *)
(* number of scores that the device was built for (PhraseTableMemory.cpp:  *)
(* 74-112, TargetPhrase.cpp:57-105, TargetPhraseDev.cuh:32-59).            *)
(***************************************************************************)
DeviceHasTheTable ==
  pc = "initStacks" /\ ffs # <<>> /\ Head(ffs).numScores = NUMSCORES =>
    \A n \in DOMAIN pathInfo :
      LET lines == LinesFor(pathInfo[n].range)
          tps   == pathInfo[n].tps
      IN  /\ Len(tps) = Cardinality(lines)
          /\ \A m \in lines :
               LET tp == tps[Cardinality({k \in lines : k <= m})]
               IN  /\ [w \in DOMAIN tp.words |-> tp.words[w].val] = FirstTable[m].target
                   /\ [s \in DOMAIN tp.scores |-> tp.scores[s].val]
                        = ScoresOf(FirstTable[m], NUMSCORES)

\* The ranges of a hypothesis and those it extends, newest first.
Chain(h) ==
  LET ranges[n \in 0 .. Len(Sentence)] ==
        IF n = 0 THEN [at |-> h, ranges |-> <<>>]
        ELSE LET acc == ranges[n - 1]
             IN  IF acc.at.prev = NoPrev THEN acc
                 ELSE [at |-> stacks[acc.at.prev[1]][acc.at.prev[2]],
                       ranges |-> Append(acc.ranges, acc.at.range)]
  IN  ranges[Len(Sentence)].ranges

(***************************************************************************)
(* A hypothesis of stack k has translated k words, none of them twice,     *)
(* along the pointers to the hypotheses it extends: whatever the threads   *)
(* find of the flag, whatever the distortion is, with slots that are used  *)
(* again for the next stack and even when the coverage of the first        *)
(* hypothesis is in use again; until a write past an array overwrites the  *)
(* stacks (Hypothesis.cuh:35-68, 87-97, CUDA.cu:228-280, 321-349,          *)
(* Stack.cuh:15-19).                                                       *)
(***************************************************************************)
NoWordTwice ==
  pc \in {"initStack", "input"} /\ ~overrun =>
    \A k \in DOMAIN stacks : \A n \in DOMAIN stacks[k] :
      LET chain == Chain(stacks[k][n])
      IN  /\ \A i, j \in DOMAIN chain :
               i # j => WordsOf(chain[i]) \intersect WordsOf(chain[j]) = {}
          /\ FoldLeft(LAMBDA sum, r : sum + Cardinality(WordsOf(r)), 0, chain) = k

(***************************************************************************)
(* The program reports success only if the first table has an entry, or    *)
(* the beginning of one, for every span of every sentence: a span that it  *)
(* lacks makes the device fail, and the failure is not lost on the way to  *)
(* the end (Debug.cuh:100-101, CUDA.cu:140-183, Util.cuh:3-6).             *)
(***************************************************************************)
SuccessMeansKnown ==
  pc = "exit 0" =>
    \A m \in DOMAIN said : \A s, e \in DOMAIN said[m] :
      s <= e => \E n \in DOMAIN FirstTable :
                  IsPrefix(SubSeq(said[m], s, e), FirstTable[n].source)

(***************************************************************************)
(* The program ends, one way or another, once its input does: the threads  *)
(* get past hypotheses that another one has just made invalid, and a fault *)
(* stops no loop of the host (CUDA.cu:308-313, Manager.cpp:92-105).        *)
(***************************************************************************)
LegacyEnds == <>(pc \in {"exit 0", "exit 1", "crash"})

=============================================================================
