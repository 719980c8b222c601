---------------------------- MODULE PhraseTable -----------------------------
(***************************************************************************)
(* The phrase table of the decoder: it is read line by line into a trie,   *)
(* through the vocabulary, and the kernel Lookup searches it for each span *)
(* of a sentence (PhraseTableMemory.cu, Node.h, TargetPhrases.cu).         *)
(*                                                                         *)
(* The score of a target phrase has its own module; here a target phrase   *)
(* is its words. Phrases have been split into words.                       *)
(***************************************************************************)
EXTENDS Trie

(***************************************************************************)
(* The words and their identifiers (MyVocab.cpp): m_coll is the sequence   *)
(* of the words in the order in which they were first seen, m_collInv the  *)
(* map from a word to its identifier, its index in m_coll from 0.          *)
(***************************************************************************)

EmptyVocabulary == [coll |-> <<>>, collInv |-> <<>>]

\* What GetOrCreateId leaves behind.
WithWord(vocab, word) ==
  IF word \in DOMAIN vocab.collInv
  THEN vocab
  ELSE [coll |-> Append(vocab.coll, word),
        collInv |-> [w \in DOMAIN vocab.collInv \union {word} |->
                       IF w = word THEN Len(vocab.coll) ELSE vocab.collInv[w]]]

\* What GetOrCreateIds leaves behind, and what it returns.
WithWords(vocab, words) ==
  LET after[n \in 0 .. Len(words)] ==
        IF n = 0 THEN vocab ELSE WithWord(after[n - 1], words[n])
  IN  after[Len(words)]

GetOrCreateIds(vocab, words) ==
  [n \in DOMAIN words |-> WithWords(vocab, words).collInv[words[n]]]

\* GetString; its argument is an identifier that GetOrCreateId has returned.
GetString(vocab, id) == vocab.coll[id + 1]

\* The words that identifiers stand for.
Spell(vocab, ids) == [n \in DOMAIN ids |-> GetString(vocab, ids[n])]

\* Of the lines of a file those with a source phrase, in their order.
LinesWith(lines, source) ==
  LET found[n \in 0 .. Len(lines)] ==
        IF n = 0 THEN <<>>
        ELSE IF lines[n].source = source THEN Append(found[n - 1], lines[n])
        ELSE found[n - 1]
  IN  found[Len(lines)]

-----------------------------------------------------------------------------
(* The table *)

CONSTANTS Words,                  \* the words of both languages
          SourcePhrases,          \* the source phrases a line may have
          TargetPhrases,          \* and the target phrases
          MaxLines,               \* lines of the file
          Sentences               \* the sentences to look up

\* Some line is split into a source phrase with no word in it.
ASSUME PhrasesAssumption ==
  /\ SourcePhrases \subseteq Seq(Words)
  /\ TargetPhrases \subseteq Seq(Words)
  /\ Sentences \subseteq Seq(Words)

VARIABLES file,                   \* the lines read
          vocab,                  \* MyVocab
          root,                   \* m_root
          input,                  \* m_input, of the managers so far
          tpsVec                  \* the targetPhrases of the last one's paths

tableVars == <<file, vocab, root, input, tpsVec>>

\* The pointer to a TargetPhrases, which is never empty, is NULL.
NoTargetPhrases == <<>>

TableInit ==
  /\ file = <<>>
  /\ vocab = EmptyVocabulary
  /\ root = EmptyTrie(NoTargetPhrases)
  /\ input = <<>>
  /\ tpsVec = <<>>

\* The TargetPhrases of a node is made for the first line that has its source.
WithTargetPhrase(value, tp) == Append(value, tp)

\* An iteration of PhraseTableMemory::Load.
LoadLine(source, target) ==
  /\ input = <<>>
  /\ Len(file) < MaxLines
  /\ file' = Append(file, [source |-> source, target |-> target])
  /\ vocab' = WithWords(WithWords(vocab, source), target)
  /\ LET sourceIds == GetOrCreateIds(vocab, source)
         targetIds == GetOrCreateIds(WithWords(vocab, source), target)
         at        == AddOrCreateNode(root, sourceIds, NoTargetPhrases)
     IN  root' = [at.trie EXCEPT ![at.node].value = WithTargetPhrase(@, targetIds)]
  /\ UNCHANGED <<input, tpsVec>>

PositionsOf(sentence) == 0 .. (Len(sentence) - 1)

\* PhraseTableMemory::Lookup.
TargetPhrasesOf(phrase, start, end) ==
  LET node == Lookup(root, phrase, start, end)
  IN  IF node = NULL THEN NoTargetPhrases ELSE root[node].value

\* The constructor of Manager and the kernel Lookup, for the next line of the
\* input.  The words it has seen first in the input stay in the vocabulary.
Translate(sentence) ==
  /\ Len(input) < 2
  /\ input' = Append(input, sentence)
  /\ vocab' = WithWords(vocab, sentence)
  /\ LET ids == GetOrCreateIds(vocab, sentence)
     IN  tpsVec' = [r \in {s \in [start : PositionsOf(sentence),
                                  end : PositionsOf(sentence)] : s.start <= s.end}
                      |-> TargetPhrasesOf(ids, r.start, r.end)]
  /\ UNCHANGED <<file, root>>

-----------------------------------------------------------------------------
(***************************************************************************)
(* Each span of a sentence gets the target phrases of the lines with that  *)
(* source phrase, all of them, in the order of the file; a phrase that is  *)
(* only a prefix of others, a word seen first in the sentence, and a line  *)
(* with an empty source phrase get in the way of none (Node.h:82-103,      *)
(* PhraseTableMemory.cu:44-96, 121-126, Manager.cu:38-55).                 *)
(***************************************************************************)
FindsTheLines ==
  input # <<>> =>
    \A r \in DOMAIN tpsVec :
      LET lines == LinesWith(file, SubSeq(Last(input), r.start + 1, r.end + 1))
      IN  /\ Len(tpsVec[r]) = Len(lines)
          /\ \A n \in DOMAIN lines : lines[n].target = Spell(vocab, tpsVec[r][n])

=============================================================================
