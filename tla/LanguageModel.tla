--------------------------- MODULE LanguageModel ---------------------------
(***************************************************************************)
(* The n-gram language model of the decoder (LanguageModel.cu): its n-grams*)
(* are kept newest word first in a trie, and each word that a hypothesis   *)
(* adds is scored in the context of up to m_order words, itself included,  *)
(* backing off to shorter contexts.                                        *)
(*                                                                         *)
(* Score passes the size of a context to Lookup as the last position to    *)
(* match, so that it matches one word more, read past the context.  That   *)
(* memory was never written: the word is any of JunkWords.  (Past a context*)
(* with no words the read could fault as well, which is left out.)         *)
(*                                                                         *)
(* Probabilities and back-offs are integers.                               *)
(***************************************************************************)
EXTENDS Trie

CONSTANTS Lines,                  \* the n-grams of the file, with their numbers
          Order,                  \* m_order
          Eos,                    \* m_eos
          JunkWords,              \* what memory may hold
          Phrases,                \* target phrases
          MaxLines, MaxWords      \* bounds on the file and the target side

ASSUME OrderAssumption == Order \in Nat \ {0}

VARIABLES file,                   \* the lines read
          root,                   \* m_root
          pc,                     \* load, apply, score, complete
          words,                  \* the target words of the hypotheses so far
          tp, i,                  \* the target phrase and the words scored
          context,                \* newest word first
          score,
          state                   \* fromScoring.second: a node, or NULL

\* The last n words of a sequence, or all of them.
Newest(s, n) == SubSeq(s, IF Len(s) < n THEN 1 ELSE Len(s) - n + 1, Len(s))

vars == <<file, root, pc, words, tp, i, context, score, state>>

Unk == [found |-> FALSE, prob |-> 123, backoff |-> 456]

Init ==
  /\ file = <<>>
  /\ root = EmptyTrie(Unk)
  /\ pc = "load"
  /\ words = <<>>
  /\ tp = <<>>
  /\ i = 0
  /\ context = <<>>
  /\ score = 0
  /\ state = NULL

Key(line) == Reverse(line.ngram)

\* An iteration of Load.
LoadLine(line) ==
  /\ pc = "load"
  /\ Len(file) < MaxLines
  /\ line \notin ToSet(file)
  /\ file' = Append(file, line)
  /\ LET at == AddOrCreateNode(root, Key(line), Unk)
     IN  root' = [at.trie EXCEPT ![at.node].value =
                    [found |-> TRUE, prob |-> line.prob, backoff |-> line.backoff]]
  /\ UNCHANGED <<pc, words, tp, i, context, score, state>>

Loaded ==
  /\ pc = "load"
  /\ pc' = "apply"
  /\ UNCHANGED <<file, root, words, tp, i, context, score, state>>

-----------------------------------------------------------------------------
(* Score *)

\* The nodes that Lookup may return, over what lies behind the context.
LookedUp(ctx) ==
  {Lookup(root, Append(ctx, junk), 0, Len(ctx)) : junk \in JunkWords}

Found(node) == node # NULL /\ root[node].value.found

Backoffs(ctx) ==
  {IF Found(node) THEN root[node].value.backoff ELSE 0 : node \in LookedUp(ctx)}

\* Mutant: the newest word is dropped from the context instead of the oldest.
NewContextOlder(ctx) == Tail(ctx)

NewContext(ctx) == Front(ctx)

\* What Score may return for ctx: its own recursion is on the contexts that it
\* backs off to, of which there is one of each length.
Score(ctx) ==
  LET backedOff[n \in 0 .. Len(ctx)] ==
        IF n = Len(ctx) THEN ctx ELSE NewContext(backedOff[n + 1])
      outcomes[n \in 0 .. Len(ctx)] ==
        IF n = 0
        THEN {[first |-> 0, second |-> NULL]}
        ELSE LET hits == {node \in LookedUp(backedOff[n]) : Found(node)}
             IN  {[first |-> root[node].value.prob, second |-> node] : node \in hits}
                 \union
                 IF LookedUp(backedOff[n]) = hits THEN {}
                 ELSE {[first |-> backoff + shorter.first, second |-> shorter.second] :
                         backoff \in Backoffs(Tail(backedOff[n])),
                         shorter \in outcomes[n - 1]}
  IN  outcomes[Len(ctx)]

-----------------------------------------------------------------------------
(* EvaluateWhenApplied *)

ShiftOrPush(ctx, word) ==
  <<word>> \o (IF Len(ctx) < Order THEN ctx ELSE Front(ctx))

\* Mutant: the oldest words come first.
PrevWordsForward(history) == Newest(history, Order)

\* The loop over GetWord, from the last position before the phrase.
PrevWords(history) == Reverse(Newest(history, Order))

Apply(phrase) ==
  /\ pc = "apply"
  /\ Len(words) + Len(phrase) <= MaxWords
  /\ pc' = "score"
  /\ tp' = phrase
  /\ i' = 0
  /\ context' = PrevWords(words)
  /\ score' = 0
  /\ state' = NULL
  /\ UNCHANGED <<file, root, words>>

\* Shift a word into the context and score it.
ScoreNgram(word) ==
  /\ context' = ShiftOrPush(context, word)
  /\ \E fromScoring \in Score(context') :
       /\ score' = score + fromScoring.first
       /\ state' = fromScoring.second

ScoreWord ==
  /\ pc = "score"
  /\ i < Len(tp)
  /\ ScoreNgram(tp[i + 1])
  /\ i' = i + 1
  /\ UNCHANGED <<file, root, pc, words, tp>>

\* The last word is scored: the state is set; the hypothesis is extended later.
SetState ==
  /\ pc = "score"
  /\ i = Len(tp)
  /\ words' = words \o tp
  /\ pc' = "apply"
  /\ UNCHANGED <<file, root, tp, i, context, score, state>>

\* The same of a hypothesis that covers the sentence.
ScoreEos ==
  /\ pc = "score"
  /\ i = Len(tp)
  /\ context' = ShiftOrPush(context, Eos)
  /\ \E fromScoring \in Score(context') : score' = score + fromScoring.first
  /\ state' = NULL
  /\ words' = words \o tp
  /\ pc' = "complete"
  /\ UNCHANGED <<file, root, tp, i>>

Next ==
  \/ Loaded \/ ScoreWord \/ SetState \/ ScoreEos
  \/ \E line \in Lines : LoadLine(line)
  \/ \E phrase \in Phrases : Apply(phrase)

Spec == Init /\ [][Next]_vars

-----------------------------------------------------------------------------
\* The words so far, the end of the sentence among them.
History ==
  CASE pc = "score"    -> words \o SubSeq(tp, 1, i)
    [] pc = "complete" -> Append(words, Eos)
    [] OTHER           -> words

NodeOf(ngram) == Lookup(root, Reverse(ngram), 0, Len(ngram) - 1)

(***************************************************************************)
(* Each word is scored in the context of the newest words up to the order, *)
(* newest first, across the boundaries of phrases, phrases of no words and *)
(* the start of the sentence (LanguageModel.cu:104-118, 140-153).          *)
(***************************************************************************)
ContextIsHistory == context = Reverse(Newest(History, Order))

\* What Lookup may match of the n newest words of a context: itself and a word
\* read behind it.
Reads(ctx, n) == {Append(SubSeq(ctx, 1, n), junk) : junk \in JunkWords}

\* The node of the longest of the first size contexts that, with what is read
\* behind it, is in the file; all that are longer are not, with what is read.
IsLongest(node, ctx, size) ==
  \E n \in 0 .. size :
    /\ IF n = 0
       THEN node = NULL
       ELSE \E line \in ToSet(file) : Key(line) \in Reads(ctx, n) /\ node = NodeOf(line.ngram)
    /\ \A longer \in (n + 1) .. size :
         \E missed \in Reads(ctx, longer) : \A line \in ToSet(file) : Key(line) # missed

(***************************************************************************)
(* The state that decides about recombination is that of the longest n-gram*)
(* of the file that the newest words of the hypothesis make with one word  *)
(* that memory holds behind them, and is none if they make no n-gram of the*)
(* file, or no word was scored, or the sentence is complete.  So it says as*)
(* many of the newest words as it can, and no other word, but for its      *)
(* oldest, which is never the hypothesis' own (LanguageModel.cu:104-133,   *)
(* 156-194).                                                               *)
(***************************************************************************)
StateIsNgram ==
  IF i = 0 \/ pc = "complete"
  THEN state = NULL
  ELSE IsLongest(state, context, Len(context))

-----------------------------------------------------------------------------
\* The reference: the probability of the last word of a sequence given those
\* before it, backed off to the longest n-gram that the file has.
NgramProb(ngram) ==
  LET ended == [n \in 0 .. Len(ngram) |-> Newest(ngram, n)]
      read(g) == {l \in ToSet(file) : l.ngram = g}
      prob[n \in 0 .. Len(ngram)] ==
        IF n = 0 THEN 0
        ELSE IF read(ended[n]) # {}
             THEN (CHOOSE l \in read(ended[n]) : TRUE).prob
             ELSE prob[n - 1] + (IF read(Front(ended[n])) # {}
                                 THEN (CHOOSE l \in read(Front(ended[n])) : TRUE).backoff
                                 ELSE 0)
  IN  prob[Len(ngram)]

(***************************************************************************)
(* "score each ngram" (LanguageModel.cu:112): a scored phrase has the sum  *)
(* of the probabilities of its words in their contexts.                    *)
(***************************************************************************)
ScoresEachNgram ==
  (pc = "score" /\ i = Len(tp)) \/ pc = "complete" =>
    LET before == IF pc = "score" THEN Len(words) ELSE Len(words) - Len(tp)
    IN  score = FoldFunction(LAMBDA p, sum : p + sum, 0,
                  [p \in (before + 1) .. Len(History) |->
                     NgramProb(Newest(SubSeq(History, 1, p), Order))])

=============================================================================
