-------------------------------- MODULE Trie --------------------------------
(***************************************************************************)
(* The trie that the phrase table and the language model are kept in       *)
(* (Node.h over Map.h).  A trie is the sequence of its nodes in the order  *)
(* of their creation, the root first; a child is the index of its node,    *)
(* which stands for the pointer to it, and NULL is 0.                      *)
(***************************************************************************)
EXTENDS Integers, Sequences, SequencesExt

NULL == 0

Root == 1

NewNode(defVal) == [children |-> <<>>, value |-> defVal]

EmptyTrie(defVal) == <<NewNode(defVal)>>

\* NULL has no children: a lookup that came to it is over.
Child(trie, node, word) ==
  IF node # NULL /\ word \in DOMAIN trie[node].children
  THEN trie[node].children[word]
  ELSE NULL

\* A step of AddOrCreateNode: to the child for the word, made if there is none.
Descend(at, word, defVal) ==
  LET trie == at.trie
      made == Len(trie) + 1
  IN  IF Child(trie, at.node, word) # NULL
      THEN [trie |-> trie, node |-> Child(trie, at.node, word)]
      ELSE [trie |-> Append([trie EXCEPT ![at.node].children =
                               [w \in DOMAIN @ \union {word} |->
                                  IF w = word THEN made ELSE @[w]]],
                            NewNode(defVal)),
            node |-> made]

\* The trie with a node for the words, and that node.
AddOrCreateNode(trie, words, defVal) ==
  LET at[n \in 0 .. Len(words)] ==
        IF n = 0 THEN [trie |-> trie, node |-> Root]
        ELSE Descend(at[n - 1], words[n], defVal)
  IN  at[Len(words)]

\* The node that the words lead to, from the root.
NodeAt(trie, words) ==
  LET at[n \in 0 .. Len(words)] ==
        IF n = 0 THEN Root ELSE Child(trie, at[n - 1], words[n])
  IN  at[Len(words)]

\* Mutant: the end is taken for exclusive.
LookupExclusive(trie, phrase, start, end) == NodeAt(trie, SubSeq(phrase, start + 1, end))

\* The node for the words from start to end, the end included; positions are
\* counted from 0.
Lookup(trie, phrase, start, end) == NodeAt(trie, SubSeq(phrase, start + 1, end + 1))

=============================================================================
