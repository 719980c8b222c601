# A TLA+ model of gpu-moses

gpu-moses is a phrase-based statistical machine translation decoder that runs
its search on an NVIDIA GPU.  The host reads a configuration, a phrase table and
a language model, then translates its input line by line; for each line it
launches a series of CUDA kernels whose threads build *hypotheses* (partial
translations) and put them into *stacks*, one stack for each number of source
words translated.  The repository also has the decoder's predecessor (`old/`)
and a set of vendored utilities (`util/`): conversion of numbers to text and
back, queues and threads, chains of workers over blocks, an external sort.

This directory holds TLA+ modules of these parts, TLC configurations that check
them on small instances, and TLAPS proofs of the theorems that hold on every
instance.  File and line references are to `src/src/` unless they say otherwise.

## Inventory

| part | files | state | operations | modelled in |
|---|---|---|---|---|
| search driver | `Manager.cu`, `Main.cu`, `InputPath.cu`, `Stacks.cu` | the paths (one per source span), the stacks, the stage | `Process`, the kernels `Lookup`, `Process1stStack`, `ProcessStack`, `PruneStack`, `GetBestHypo` | `Search`, `Derivation`, `Reordering`, `TargetSide`, `Translation` |
| hypotheses and coverage | `Hypothesis.cu`, `Bitmap.cu`, `Range.h` | bits, count, first gap, previous hypothesis, scores, feature state | `Init` (two), `SetValueNonOverlap`, `Overlap`, `RecombineCompare`, `GetWord` | `Reordering`, `Search`, `TargetSide` |
| hypothesis stacks | `Stack.cu`, `CUDA/Lock.h` | the sorted collection, the mutex | `add`, `prune`, `lock`, `unlock` | `StackOps`, `Stack`, `Beam` |
| device containers | `CUDA/Array.h`, `Vector.h`, `Set.h`, `Map.h` | array, size, capacity | `upperBound`, `insert`, `Shift`, `reserve` | `SortedVector`, `HypothesisSet`, `Trie` |
| features and scores | `FF/*`, `Scores.cu`, `ScoresUnmanaged.cu` | features, offsets, weights, scores and their weighted totals | `Create`, `EvaluateInIsolation`, `EvaluateWhenApplied`, `PlusEqual`, `SetState` | `Features`; distortion also in `Search` |
| language model | `LM/LanguageModel.cu` | the n-gram trie | `Load`, `EvaluateWhenApplied`, `Score` | `LanguageModel`, `Trie`; its answers in `Search` |
| phrase table | `TranslationModel/*`, `Node.h`, `TargetPhrases.cu` | the trie of source phrases | `Load`, `AddOrCreateNode`, `Lookup` | `PhraseTable`, `Trie`; its answers in `Search` |
| vocabulary | `MyVocab.cpp` | words and identifiers | `GetOrCreateId`, `GetString` | `PhraseTable` |
| system and weights | `System.cu` | options, weights | `LoadWeights`, `SetWeights` | `Features` |
| configuration | `Parameter.cpp`, `parameters/*` | the table of parameters, settings, the map of weights, the groups of options | `LoadParam`, `AllOptions::init`, `sanity_check` | `Settings`, `Configuration`, `Options` |
| legacy decoder | `old/*` | parameters, features, weights, trie, the device's copy of the table, stacks | `main`, `System`, `Manager`, the kernels of `CUDA/CUDA.cu` | `LegacySystem`, `LegacyDecoder` |
| number conversion | `util/double-conversion/*`, `float_to_string.cc`, `file_piece.cc` | large integers; the rest is a function | `ToShortest`, `ToFixed`, `ToExponential`, `ToPrecision`, `StringToDouble`, `StringToFloat` | `Ieee`, `Dtoa`, `TextToDouble`, `NumberText`, `Bignum` |
| streams and threads | `util/pcqueue.hh`, `thread_pool.hh`, `stream/*` | queues, blocks, files, offsets | `Produce`, `Consume`, the pool, the workers of a chain, `Mark` and `Rewind`, `Sort` | `ThreadPool`, `BoundedQueue`, `Chain`, `Rewindable`, `MergeSort` |
| other utilities, I/O | `Util.*`, `InputFileStream.*`, the rest of `util/` | none | tokenising, formatting, wrappers of system calls | no |
| edit distance tool | `../levenshtein.cpp` | none | `edit_distance` | no |

The edit distance tool is a program of its own; `nmt/` is a stub with empty
classes, and `Test.cu` is never called.  `old/` has a Makefile of its own and
needs two names that `TypeDef.h` no longer defines (`SCORE_BREAKDOWN` and
`NOT_FOUND`); it is modelled as it is written.  `util/` comes from KenLM.

How the parts interact.  `Manager::Process` is sequential: it launches a kernel,
waits for it (`cudaDeviceSynchronize`), and goes on.  All the concurrency of the
decoder is inside `ProcessStack`, launched with one *block* of one thread for
every pair of a hypothesis of the current stack and a source span.  A block that
gets past the early returns extends its hypothesis with each target phrase of its
span and adds each result to a later stack, under that stack's spin lock.  The
blocks share the current stack (read with no lock), the destination stacks (under
their locks) and the device heap.  Hypotheses point to their predecessors, and
stacks delete the hypotheses they drop.  The predecessor launches its threads on
one shared list with no lock at all.  The utilities have threads of the host:
clients and workers around one queue, and workers that pass blocks of memory
round a ring of queues.

What is hard about it, and what makes each part correct:

* **coverage**: two cached fields updated incrementally; they must stay exact,
  because one is the index of the destination stack and the other the position
  that the distortion limit is measured from.
* **reordering limit**: two local tests with no look-ahead; they must never
  leave a hypothesis that cannot be completed.
* **stacks**: concurrent adds that prune, recombine and delete; the outcome must
  be a beam whatever the order, within the fixed capacity, with no hypothesis
  lost without being deleted and none deleted that is held.
* **search**: pointers between stacks while stacks delete; the source stack read
  without a lock; recombination that must not lose the best translation; an
  answer that must exist at the end.
* **containers**: a sorted vector that is bisected and shifted in place must be
  the set that everything above takes it for, in every iteration.
* **features**: each has its own slots for scores, weights and state, given out
  in the order of the configuration while weights come in another; totals are
  kept up step by step.
* **tries and vocabulary**: identifiers are given to words at any time, and a
  node exists before its phrase is read; what is found must be what the file has.
* **language model**: contexts run across phrases and the start of the sentence;
  scores and states must be those of the n-grams of the file.
* **configuration**: a weight may come from four places and an old format; an
  option from the file, a switch, a short name or its default, and groups of
  options may fail half way; which is in force must be what the options say.
* **legacy decoder**: the table is copied to the device as raw memory; threads
  share a list; one fault makes every later call of the device do nothing.  It
  must not report success for a sentence that it could not look up.
* **number conversion**: fast algorithms with inexact arithmetic that must know
  when they may be wrong; the exact ones they fall back on; a grammar.
* **streams and threads**: semaphores, poisons, blocks that go round; everything
  that is started must end, nothing may be lost, doubled or reordered; sorting
  takes passes whose number depends on memory.

`PROJECT.json` lists the forty of these hazards that weigh most, at their lines,
with the properties that cover them, and says of three why no property does.

## Modules

| module | what it is |
|---|---|
| `Reordering` | operators: source spans, the coverage vector with its cached fields, the distance measures and the guards of `ProcessStack` |
| `Derivation` | state machine: one chain of extensions, over all scores and orders at once |
| `StackOps` | operators: `Stack::add` and `Stack::prune` on a collection |
| `Beam` | abstract specification: what a stack promises the search |
| `Stack` | state machine: the blocks of a kernel at one stack, its lock, the heap; refines `Beam` |
| `Search` | state machine: the search over a sentence, on `Reordering` and `StackOps` |
| `SearchProofs` | lemmas about `Reordering`, theorems about `Derivation`, then about `Search`: that it is sound, that it answers, that it is exact |
| `HypothesisSet` | abstract specification: a set that recombines and is pruned |
| `SortedVector` | state machine: the vector and the array of a stack, loop by loop; refines `HypothesisSet` |
| `Trie` | operators: `Node` |
| `TrieProofs` | lemmas about maps, recursion and concatenation in general, and about `Trie`: what a lookup finds, what adding a node leaves alone |
| `PhraseTable` | the vocabulary; loading the table, looking up the spans of sentences |
| `TargetSide` | positions of target words, the output of the best chain |
| `Translation` | state machine: `PhraseTable` and `TargetSide` composed, from lines of a table to what is printed |
| `TranslationProofs` | theorems about `Translation`, from the vocabulary to what is printed; and about `Stack`, the refinement among them |
| `LanguageModel` | state machine: loading n-grams, scoring a target side |
| `Features` | state machine: creation of features, weights, loading of scores, a chain of hypotheses |
| `ScoresProofs` | theorems about `LanguageModel` and `Features` |
| `Maps` | operators: maps as functions |
| `Settings` | operators: `m_setting`, the conversions of the old format |
| `Configuration` | state machine: the table of parameters and `Parameter::LoadParam` |
| `Options` | state machine: `Configuration`, then the groups of options and their check |
| `ConfigurationProofs` | theorems about `Configuration` and `Options`: types, the precedence of weights, options that agree |
| `LegacySystem` | operators and steps: the earlier decoder's table, its memory, its start |
| `LegacyDecoder` | state machine: the earlier decoder from its arguments to its exit |
| `LegacyProofs` | theorems about `LegacySystem` and `LegacyDecoder` |
| `Ieee` | operators: doubles and singles of any size, `DiyFp`, cached powers |
| `Dtoa` | operators: `FastDtoa`, `BignumDtoa`, `FastFixedDtoa` |
| `TextToDouble` | operators: `Strtod`, `Strtof`; `StringToDoubleConverter` |
| `NumberText` | `DoubleToStringConverter`; state machine: a number is written, and the text is read back |
| `Bignum` | state machine: two large integers, taken through any sequence of operations |
| `BoundedQueue` | abstract specification: what `PCQueue` promises |
| `ThreadPool` | state machine: `PCQueue`, its semaphores, the pool; refines `BoundedQueue` |
| `UtilitiesProofs` | theorems about `ThreadPool`, `SortedVector` and `Rewindable`, two refinements among them |
| `Chain` | state machine: the ring of queues, the workers of `stream/io.cc` and the others |
| `ChainProofs` | theorems about `Chain`: its blocks are kept, and what went in comes out |
| `Rewindable` | state machine: the stream that can go back to a mark |
| `MergeSort` | state machine: sorted blocks, merge passes, the lazy merge |
| `MC...` | the instances that TLC checks |

### Reordering, Derivation

`m_bitmap` is the set of positions whose bit is set; `numWordsCovered` and
`firstGap` are the cached fields, updated as `SetValueNonOverlap` does:
`firstGap` is rescanned only if the span covers it, from the end of the span on.
`NotFound` is `NOT_FOUND_DEVICE`, 123456789, and stands for "no gap" and for the
range of the empty hypothesis, as in the code; the only assumption on the
sentence is that it has fewer words than that.

`Derivation` has the two variables that the guards of `ProcessStack` read of a
hypothesis, its coverage and the span translated last.  `Extend(r)` is an
iteration of the kernel for a span that the phrase table has: `CanExtend` is the
conjunction of its three early returns (overlap, jump, return to the first gap),
and `SetValueNonOverlap` is the coverage of the new hypothesis.  A behaviour is
a chain of `prevHypo` pointers, so an invariant of `Derivation` holds of every
hypothesis the decoder can make.

### StackOps, Beam, Stack

`m_coll` is sorted by recombination key and holds a key once; `StackOps` models
it as a set of records with a key and a score.  `Add` prunes if the tolerance
is reached, then recombines, in the order of the code.  `Prune` is a set of
outcomes: the code breaks ties between equal scores by the order of the keys and
by where its binary search lands, which depends on bit patterns.

`Stack` has the lock, the collection, the device heap and, for each block, a
program counter, the number of target phrases it is through with, and what its
`add` has read.  The critical section has two steps, `Read` and `Write`, so that
without the lock an add would overwrite another's.  `Launch` starts a block when
one of `MaxResident` places is free: CUDA does not preempt a block, so that the
blocks which spin may be all that are resident.  `PruneStack` is the next kernel
on this stack.

`Beam` is what the search relies on: hypotheses are offered once each, in any
order; the stack holds only offered ones, at most one for each key and at most
twice its size, and each one it dropped is accounted for by an equivalent one at
least as good or by a full stack of ones at least as good.  `Stack` implements
it with `offered <- Offered` (those whose add has taken effect) and
`kept <- coll`.  The accounting is not trivial: the hypothesis that justified an
earlier drop may be pruned or replaced later, and must then leave a justification
for both.

### Search

One state machine for `Manager::Process` and its kernels.  A hypothesis is a
record of its fields and of the steps of its derivation, which identify it as its
address does.  `PruneAndLaunch` prunes the current stack and starts a block for
each pair of a hypothesis and a span that gets past the early returns;
`Extend(b)` is one iteration of the target phrase loop of block `b`;
`Synchronize` is the return of `cudaDeviceSynchronize`; `GetBestHypo` picks the
winner or runs into its assertion.

Three abstractions need a justification.  An iteration is one step: it reads
only the source stack, which nothing changes while blocks run (`SourceFrozen`),
and the add is atomic because of the lock (the theorems about `Stack`).  The
early returns are evaluated at the launch: they read only the source stack too.
The language model gives each hypothesis any of the scores and states of
`LMOutcomes`: the properties that do not depend on scores are checked for every
answer it might give.

### SortedVector, HypothesisSet

`StackOps` takes a stack to be a set.  `SortedVector` shows that the code makes
it one: a step is one iteration of the bisection or of the shift, or the piece
of code between two loops, for the vector in the order of the keys and for the
array in the order of the scores that `prune` sorts into.  Cells hold `Junk`
until they are written, inserting into the full vector ends in the trap of
`Vector::reserve`, and a key that `prune` puts back twice in the assertion of
`Set::insert`.  `HypothesisSet` is `Recombine` and `Prune` of `StackOps` as a
specification; `ImplementsSet` maps each step to one of them or to a stutter.

### Trie, PhraseTable, TargetSide, Translation

`Trie` has the nodes of `Node.h` by number, each with its children and its
value, so that a node that is only on the way to another is told from one that
was read.  The phrase table and the language model are both built on it.
`PhraseTable` reads lines through the vocabulary, then looks up every span of
the sentences that follow, whose words enter the same vocabulary.

In `TargetSide` target positions are of type `size_t`: the empty hypothesis ends
at -1, and the first phrase starts at 0 by wrapping around.  A chain of phrases,
some of no words, is built, then `GetBestHypo` runs over it (copy backwards,
reverse in place) and the host prints up to the first entry never written.

`Translation` composes them: a chain takes phrases that were found for spans not
yet covered, so that what is printed is a matter of the lines of the file, and
the identifiers are turned into words with the vocabulary of that moment.

### LanguageModel

It reads n-grams newest word first, and applies target phrases to a
hypothesis: it gathers the context of the phrase from the words before it, then
shifts it word by word, and scores each with back-off.  `Score` passes
the size of the context to `Lookup` as the last position, which `Lookup`
takes to be included: it looks for one word more, past the context.  The module
lets that word be any of `JunkWords`, as the memory was never written.  `StateIsNgram`
says what that leaves of the state: it is that of the longest n-gram that the
context makes with the words that were read, so that all but the oldest word of it are the
hypothesis' own, and no longer context would have been found as well.

### Features

The life of the system up to a chain of hypotheses: the features are created line
by line, each with the offset the totals have reached; the weights are set by
name; table lines are loaded and their totals computed; hypotheses
add what features give them.  Lines and weights that are wrong end
in the exceptions of the code.  Weights are `Junk` until they are set.

### Settings, Configuration, Options

`LoadParam` step by step: the file, the switches that overwrite values one by
one at the same index, the short names, the added features, the test against
mixed formats, the conversions of the old format one after the other, the map of
weights with `weight-add` below and `weight-overwrite` above it, and `Validate`.
A line is its words; of a word counts what it is (a name, a number, a switch).
The names that the constructor declares, group by group, decide which switches
are known; the texts that a flag can have are told apart from their lower-case
form, which is what `Scan<bool>` looks at.  `operator[]` of the map defines a parameter that it is asked for
(`Touch`), which the tests for a parameter that is defined would tell.

`Options` goes on as `Main.cu` does, whatever `LoadParam` returned: the groups
are read one after the other, each into values that start as its constructor
left them, and the first that fails ends `init`; those after it keep their
defaults, and the system does not look at the result.  Then come the checks of
`AllOptions::sanity_check`, some of which change an option.  `OptionsAgree` is about
what comes of them: what the settings asked for, among the three ways to MBR that exclude
each other, against what is then on.

### LegacySystem, LegacyDecoder

The earlier decoder from its configuration to its exit code: arguments and lines
are read, features get their slots and names, weights are dealt out, tables are
read into tries.  For each sentence each span is looked up, its phrases are
flattened into words of 32 bits at offsets that the host computes, and the
kernels read that memory by the same arithmetic: `NodeMemory` writes cells,
`ReadMemory` reads them, and neither knows what the other means by one.
`InitStack` and `FinalizeStack` run with one thread; the threads of
`ProcessStackSerial` all go through all new hypotheses, each in two steps.

Three things that the code leaves undefined are open in the module: what
`Distortion` returns, since it returns nothing; whether the memory of the first
coverage, freed while it is in use, is given out again; and what a write past an
array does.  A stack has its count right behind its 200 hypotheses and the next
stack behind that (`old/CUDA/Stack.cuh:7-19`, `old/CUDA/Stacks.cuh:9`), so that the
write may overwrite both (`WriteOver`), or fault; one behind the last stack, where
`GetStack` puts the complete hypotheses, may also find memory that is not in use.  Once
memory is overwritten (`overrun`) nothing is known of the stacks: `NoWordTwice` is about
searches without that, and what the kernels then do is one step that may or may
not fault (`Adrift`).  That step takes them to end, so that `LegacyEnds` is
about the host and about kernels on memory that is as it was written.
After a fault kernels do nothing, and the next call that is checked exits.

### Ieee, Dtoa, TextToDouble, NumberText, Bignum

A double is the integer of its bits, of a format that says how long its
significand and its exponent are; a `DiyFp` has `Q` bits.  All the sizes and the
tables that depend on them are parameters, so that every number of a small
format can be checked with the arithmetic of the code: the products that are
rounded to `Q` bits, the errors in units, the words that must not overflow.
`Dtoa` has the three ways to get digits.  `NumberText` states what they are for
without them: what is written in the shortest form is the shortest decimal that
lies nearer to this number than to any other, or with so many digits the number
rounded; what is read is the nearest number, with ties to even.

In `Dtoa` and `TextToDouble` big numbers are integers; `Bignum` shows that they may be:
two of them are kept with what they should be, through any
sequence of assignments, additions, products, shifts, comparisons, subtractions
and divisions, word by word as the code does it.

### BoundedQueue, ThreadPool, Chain, Rewindable, MergeSort

A call on `PCQueue` is three steps, the wait for a semaphore, the copy under the
mutex of its end, and the post.  Threads are clients that ask, workers, and the
destructor with its poisons.  Handlers do not throw: one that does aborts the
program (`util/thread_pool.hh:32-39`).  `ImplementsQueue` maps the copy of a producer to
`Put` and that of a consumer to `Get`.

`Chain` uses the queue as `BoundedQueue` promises it.  Threads are the workers of
a program (read, write, change, count, lines, recycle), each with its loop; the
owner fills the ring with blocks, waits for the poison to come round, and may
run a second chain over the file of the first.  A worker that throws ends the
program, as no handler is compiled in.  A program closes its chain once at most, as a
second `Complete` throws (`util/stream/chain.cc:105`).

`Rewindable` has the blocks that are kept since the mark, how they are sent on
when the mark moves and filled again when they come round, and the poison.  Its
client reads, writes, marks, rewinds, and leaves at any point.

`MergeSort` has the passes of `Sort`: how the buffers and the memory decide how
many stripes are merged at a time, the lengths of the stripes that are kept as
runs of equal ones, two files that change roles, and the last merge, done lazily
in the memory that the caller or the sort gives it.

## Runs

| run | instance | properties | states |
|---|---|---|---|
| `stack` | 4 blocks (3 resident), 8 hypotheses of 5 keys, a stack for 2 | `MutualExclusion`, `HeapIsExact`, `WithinCapacity`, `ImplementsBeam`, `Terminates` | 47,943 |
| `search_beam` | 4 words, limit 2, stacks for 2, two answers of the language model | `HypothesesAreSound`, `BestHypoExists`, `SourceFrozen`, `Terminates` | 50,721 |
| `search_exact` | 10 words translated in pairs, limit 4, stacks that never fill; one chain of extensions of 10 words, limit 4, every span in the phrase table | `Optimal`, `CacheExact`, `WithinWindow`, `NoDeadEnd` | 681 |
| `search_unknown` | 2 words, limit 2, the second word has no phrase | `BestHypoExists` is violated | |
| `translate` | up to 3 lines of 5 source and 3 target phrases, 2 sentences, an output of 5 | `FindsTheLines`, `WordsReadBack`, `PrintsTheTranslation` | 319,378 |
| `scores` | files of up to 3 of 8 n-grams, order 3, up to 4 target words; up to 4 features of 9 lines, chains of 2 hypotheses | `ContextIsHistory`, `StateIsNgram`, `LayoutIsRight`, `TotalsAreDotProducts` | 391,029 |
| `language_model_score` | files of unigrams with no back-off | `ScoresEachNgram` is violated | |
| `configuration` | files in both formats and of options, 19 command lines | `WeightsPrecedence`, `OldWeightsDealt`, `OptionsFromSources`, `OptionsAgree` | 119,096 |
| `legacy` | 11 configurations, 3 paths of tables (one missing), up to 2 of 4 sentences, 2 threads | `LegacyWeights`, `DeviceHasTheTable`, `NoWordTwice`, `SuccessMeansKnown`, `LegacyEnds` | 46,281 |
| `numbers` | doubles of 6 and 5 bits, singles of 3 and 3, words of 12 and 14 | `WritesRight`, `ReadsRight` | 38,401 |
| `utilities` | see below | `VectorIsRight`, `ImplementsSet`, `ImplementsQueue`, `ChainDelivers`, `BlocksAreKept`, `RewindKeepsPlace`, `SortIsRight`, `BignumIsExact`, `WorkEnds` | 50,654 |
| `rewind_three_blocks` | as `utilities`, a stream of three blocks | `StreamInBlock` is violated | |

`utilities`, `scores` and `search_exact` put parts next to each other that have nothing to do
with one another: an initial state, or the first step, chooses the one that is at
work, and the others are as they are when they are done, or have not started.  The state space
is the sum of theirs, and no step of one is ever combined with one of another.

Why the bounds are enough.  In the chains of `search_exact`, with ten words and a limit of four, spans of every
length up to the window and jumps in both directions at the limit occur, and the
theorems lift the results to every length and limit.  Eight hypotheses at a
stack with tolerance 4 make adds that prune, replace, lose and are
justified by one that is pruned later; three places for four blocks make a block
wait to be placed while others spin.  In `search_beam` the stacks overflow, drop
the successors of a hypothesis and not of another, and recombine.  In
`search_exact` reordering is rewarded (the weight of the distortion feature may
have either sign) so that the order of the spans decides about later scores:
of two hypotheses with the same coverage the worse one leads to the best
translation, and survives only because its state differs.

The phrases of `translate` are prefixes of each other, empty, or unknown to the
file, and its output is filled to the last entry.  The files of the language
model in `scores` come in every order, an n-gram before those it starts or ends
with, and their order of three is less than the words of the target side; what is read
behind a context is one of two words, and some files have a context with both, so
that a longer n-gram must be found; the
nine lines of features have names used twice, a wrong line, a kind that there
is not, and sizes of one and two.  The old files of `configuration` combine up to
three tables that share a list of weights, with input weights, unknown kinds and
lists that are too short among them; its files of options have groups that fail
at each of the places where a group can, options that exclude each other, and
switches for options that the file has once, twice or not at all.

The configurations of `legacy` have names given and made, weights before
features, a table of fewer scores than the device reckons with and one of more, a
file that does not exist, and lines that end the program in each of its ways; the
tables lack a span or have all, so that sentences succeed, fail on the host, and
fault on the device.  Stacks of two places and a list of four
new hypotheses overflow, and a write past them faults or overwrites what lies there.

In `numbers` every double and single of the small format is written in its shortest
form and with 0, 2 and 3 digits, and some in the other ways; read are short decimals with
exponents over the whole range and beyond, the exact point half way to the next
number with something behind it or a little less, hexadecimals and octals, and
1,440 texts put together of the parts of the grammar under three sets of flags.
In a format this small the fast algorithms refuse more often than for 64
bits, so that both ways are taken by many numbers.  Two branches for very large or
small exponents are out of the scaled format's reach, both in `FastFixedDtoa`: a
number of more bits than a word whose exponent is at most that of the power of
ten it is split by, and one with an exponent below twice the word, which has no digits.

In `utilities`: six hypotheses, two of one key and two of one score, fill a vector
of four cells more than once, so that searches hit and miss at both ends and in
the middle, and prunes happen in an add and between adds.  Two workers and two
clients with three requests share a queue of two, so that both ends block.
Chains have two blocks of three entries, which run through seven programs with
inputs shorter and longer than a block, lines that go over the end of one, a
line longer than a block, and part of an entry at the end.  A stream has two blocks, and gets them full, half full
and empty.  Sorts of up to eight blocks have memory for a merge of two, of three,
of all, or too little.  Large integers of bigits of four bits reach the
full capacity and every carry.

The run `search_unknown` is a finding.  `GetBestHypo` asserts that it has found
a hypothesis.  A sentence with a word that the phrase table lacks never reaches
its last stack, and the assertion stops the device.  `BestHypoExists` holds in
`search_beam`, where each word has a phrase of its own; `NoDeadEnd` is the
reason, proved for every sentence: a phrase for the leftmost untranslated word
is always allowed.

The run `language_model_score` is another.  With the inclusive end no lookup of an
n-gram can succeed unless the word past the context happens to extend
it to a longer one, so that a model of unigrams gives every word the score 0.
The contexts are right all the same, whatever that memory holds, and so `scores` checks;
of a state it checks that it is that of the longest n-gram made of the context and what
was read, which is the right one but for its oldest word.

The run `rewind_three_blocks` is the third.  `AppendBlock` expects blocks with nothing in
them and passes over them, but it keeps them with the others.  A client that has
marked an entry before such a block, has read one after it and goes back comes to
it a second time, and `operator++` does not pass over it: the client stands at the
end of a block, where the assertion fails, and without assertions reads on from what
is there.  It takes three blocks.  With two, all that is kept is the block of the mark and
the empty one, and the stream waits for a third that does not exist, because whether there
is room for one more is asked before the loop over empty blocks, not in it.

More disagreements came up while modelling, which no property states:

* The option for the stack size says that 0 means no limit (`Parameter.cpp:86`);
  the first add to such a stack traps, and the modules assume a positive size.
* A switch `-weight` replaces the line at its own index, whichever feature that
  is for (`Parameter.cpp:1457`).
* The converted old format names its weights by a feature and an index, while
  features get no name from a line without one, so that `SetWeights` throws for it.
* "if parameter is just specified as, e.g. "-parameter" set it true"
  (`Parameter.cpp:1692`): a bare switch leaves a value that the file gives the flag, be it
  `false`.
* The help says that `n-best-factor` is 0 by default (`Parameter.cpp:274`); it is
  20 (`parameters/NBestOptions.cpp:38`).
* The destructor of a rewindable stream promises a poison to the workers behind
  it (`util/stream/rewindable_stream.hh:92-96`); `Poison` returns at once when no
  block is kept.
* In the legacy decoder the number that makes names of features unique is never
  increased, `Distortion` has no return statement, and the first coverage is used
  after it is freed.

Deadlock is not checked: each of the modelled programs ends.  Where ending is in
question it is a property of its own.

## Fairness

`Stack!Spec` assumes weak fairness of each block and of the prune kernel: the
device keeps issuing instructions of resident blocks and places a waiting block
when there is room.  It does not assume that the lock is granted fairly: a block
takes it once for each target phrase, so that the others have to stop competing
at some point.  `Search!Spec` assumes weak fairness of the whole next-state
relation: the host does not stop, and the device runs some block that can run.
`LegacyDecoder` assumes the same, and weak fairness of each of its threads, which
wait for nothing.

`SortedVector!Work` is the thread that is in `add` or `prune`, and nobody is
assumed to call them.  `PoolFairness` is weak fairness of each client, each worker
and the destructor, as threads of an operating system have it; a thread that waits for a
semaphore competes with others, and is not promised that it wins: the requests
are finite, so that it does in the end.  `ChainFairness` is that of each thread
of a chain and of its owner; each queue has one producer and one consumer.
`SortFairness` is that of the single thread that sorts.  `Rewindable` and the
other modules have no liveness properties and assume nothing.

## What is proved

Every theorem holds for every value of the constants, under the named assumptions
of the modules and the hypotheses the theorem states: a sentence of at least one
word and fewer than `NOT_FOUND_DEVICE`, an integer limit, phrase-table spans
inside the sentence, a positive stack size, integer scores, finitely many blocks,
and each iteration of a loop making a hypothesis of its own.  That the stack size
is positive is an assumption of `Stack` and of `Search`, and of the theorems about
the vector; `StackOps` makes do with a natural number.

*Derivations* (`SearchProofs`).  The inductive invariant
is `TypeOK`, `CountIsExact`, `GapIsFirst`, `WithinWindow` and `GapInReach`.
`NoDeadEnd` alone is not inductive: that the jump from the last span to the first
gap is within the limit (`GapInReach`) follows, for a span that covers the gap,
from where the words already translated can lie (`WithinWindow`), and for another
span from the return guard.  The lemma `SetValueKeepsCaches` states what
`SetValueNonOverlap` does to an exact coverage; all else rests on it.

*Stacks* (`TranslationProofs`).  The invariant is the conjunction of `TypeOK`,
`MutualExclusion`, `SeenIsFresh`, `HeapIsExact`, and the beam's own condition on
the collection.  `SeenIsFresh` says that what the add in progress has read is the
collection as it is: it holds because only the holder of the lock writes, and it
makes the two steps of an add one.  `WithinCapacity` and `BestKept` follow, and
`StackImplementsBeam` maps each step: `Write` to `Offer`, `PruneStack` to `Cut`,
all others to a stutter.

*The search* (`SearchProofs`).  `SoundHypotheses` and `SourceIsFrozen` rest on an
invariant of five parts.  `Control` relates the phase, the stage and the blocks;
`StackIsSound` says that a stack is finite and its hypotheses have exact coverages
of as many words as its number; the heap is the union of the stacks;
`ChainsAreSettled` puts the predecessor of every hypothesis into a stack that no
block can write to any more, which is why pruning cannot leave a pointer to a
deleted one; `BlocksAreSound` says that each block extends a hypothesis of the
source stack by a span it may take, so that what it adds goes to a later stack.

`AlwaysAnswers` is the theorem that `search_unknown` refutes where a word has no
phrase.  It asks for a phrase for every word, and for a bound on what a step can
lose that keeps the score of a whole derivation above the sentinel with which
`GetBestHypo` starts its comparison (`Manager.cu:138-160`).  The invariant
`NeverDry` follows a stack from one that is not empty to the next: by `NoDeadEnd`
the single word at the first gap is a span of one of the blocks, that block adds
to the next stack, and no add and no prune empties a stack.

`SearchIsExact` is the proved counterpart of `Optimal`: a search whose stacks stay
below their size (`RoomForAll`), for a language model with one answer, ends with a
hypothesis that scores as well as any derivation the guards allow.  What a
derivation is does not mention the search: `Closed` describes the sets that hold
the empty hypothesis and every extension of their members, and a derivation is in
all of them.  The invariant (`ExtensionsAreKept`) says that each extension of a
hypothesis of a finished stack is still to come or has in its stack one that
stands for it: of the same coverage and end, and no lower score.  That recombination
respects this is what `KeysAreRight` is for: keys are of coverage and end, so that
the guards and the scores to come are the same for two of the same key.

*The queue of the pool* (`UtilitiesProofs`).  `PoolInv` is `PoolTyped`, `Balanced`
(each cell is counted by a semaphore or is in the hands of one thread between its
wait and its post), `EndsMeet` (the cells from one end of the ring to the
other are as many as were filled and not read) and `WritersHold` (what a thread is
about to write is a request or the poison).  `PoolImplementsQueue` then maps the copy
of a producer to `Put` and that of a consumer to `Get`.

*The vector* (`UtilitiesProofs`).  The invariant has a part for each loop.
`Bisecting` says that the element looked for lies between the two bounds;
`Placed`, that the place found separates the smaller ones from the others, also
while the shift has a hole among them; `Adding`, that there is room; `Sorting` and
`Refilling`, what of `prune` is done; `Array`, that the array has no key twice;
`Ordered`, what the theorem says; `Accounted`, that each hypothesis is held or was
deleted, and not both.
The assumption `Sane` is that keys and scores are numbers and the size positive.

*The chain* (`ChainProofs`).  `ProgramsAssumption` has what `Chain::Complete`
asserts of a program, that its first worker fills the blocks and that a worker that
closes the loop is the last.  The invariant of `BlocksAreKept` is `RoundsAreRight` (where in its program each
chain is), `Linked` (each queue goes from one worker to the next), `NoneIsLost`
and `NoneIsDoubled` (every block is in one place, a queue or a pair of hands) and
`Draining` (what `Wait` has collected so far).  Each step takes a block from a
queue, or gives one to a queue, or neither; that no `Produce` has to wait, and that
`Wait` finds no more than there were, is counting.

`ChainAlwaysDelivers` takes that invariant on to what is in the blocks.  The entries that
come out of the first worker are a stream, and `StreamAfter(n)` is what the first n
workers make of it.  `Flows` says that there are two functions, `passed`, how many
entries each worker has passed on, and `pos`, where in the stream each block in a queue
begins, so that the queue of a worker holds without a gap what the worker before has
passed and it has not taken (`QueueFlows`), the block in its hands is the next one
(`HeldFlows`), what the source has read and not passed is what it carries
(`SourceFlows`), and what a worker has passed is in its file and its count (`Noted`).
They are not variables of the model: each step gives the ones after it, and the proof
names them.  A step of one worker leaves the blocks of the others as they are, as no
block is in two places (`Unspoiled`).  That the end of the stream is not mistaken is
`PoisonIsLast`: poison comes after all else in a queue, and a worker that has ended has
nothing left before it.  When all threads have ended, each has passed the whole
stream, so that `Join` finds delivered what `ChainDelivers` promises at the end of
`Wait`.  `FilesAssumption` says what the callers see to: no two workers of a chain use
the same file, as they would each move its position; and a file that is written from
its start on is empty before.  Blocks of no entry and less memory than the blocks need are refused
(`BadConfig`), and of such a chain nothing is said.

*The stream that goes back* (`UtilitiesProofs`).  `StreamKeepsPlace` assumes that there are
two blocks, or that no block arrives empty (`StreamsOf`): the run
`rewind_three_blocks` shows that it needs to.  That the client is where it thinks is not
inductive.  The invariant, `StreamInv`, relates three things.  `AreApart`: each block
is in one place, with the stream, on its way in or on its way out, so that
filling one that went out changes none that is kept.  `PlacedBack`: what has gone out
followed by what is in the kept blocks (`HeldBack`) is the stream as the client knows it, and an
entry of a kept block is at the offset of its block plus its place in it; the client's
entry and the mark are such entries.  `KeptWithoutMark` and `KeptWithMark`: without a mark
only the block of the client is kept, with one the first is that of the mark and none is
empty.  `Flush` moves blocks from the second part of `HeldBack` to the first
and leaves the whole as it is (`FlushKeeps`), so that offsets stay; a write
changes one entry of it, because kept blocks do not overlap (`WrittenBlock`);
a new block is put at its end (`ViewGrows`); and when the client stops, the last
block is cut where the client is, and what has gone out is the stream up to there
(`ViewStops`).  `StreamStaysInBlock` has the same invariant.

*Tries* (`TrieProofs`).  A lookup comes to a node if and only if the node is that
of the words looked up, and adding words leaves every other node with its words and
its value.  The lemmas are for words of any set: `TranslationProofs` takes them
for identifiers, `ScoresProofs` for words.

*Phrase table and output* (`TranslationProofs`).  `TableInv` says that the trie is
that of the lines read so far, in the identifiers of the vocabulary of that moment,
and that the vocabulary is one to one and only grows, so that what was read with
an earlier one stays what it is.  `UsedInv` relates the chain of hypotheses to the
lines whose phrases it took, and each end position to the lengths before it, modulo
2^64, starting from -1.  `OutputInv` has a part for each loop of the output: what
has been copied backwards, how far the reversal in place has come, what was
printed.  `SizesAssumption` has the numbers of the code: a vector of 100 entries,
words of 64 bits, `NOT_FOUND_DEVICE`.

*Language model* (`ScoresProofs`).  `ModelIsRight` says that the trie is that of
the n-grams read so far: a node that is found is that of a line, and each line has one.
So a lookup that finds a node has found an n-gram (`HitIsLongest`), and one that does not
has missed none (`MissIsPassedOver`), and `StateIsNgram` follows along the contexts that
`Score` backs off to (`ScoreIsLongest`); `ContextIsHistory` from the lemma that shifting a context
is the same as taking the end of a longer history (`ShiftIsHistory`).  Both
theorems are for words of any set (`MadeOf`).

*Features* (`ScoresProofs`).  `LayoutIsRight` is not inductive: that the slots of
two features are apart follows from their order (`SlotsAreLaid`, `StatesAreLaid`:
each starts where those before it end at the earliest, the last ends with the
total, and nothing lies between), that weights are of their feature from the same
statement about the lists set so far (`WeightsSoFar`).  `TotalsAreDotProducts` is
inductive with the types; what is hard about it is the sum.  `FoldFunction` adds in
an order that is left open and `FoldLeft` goes by a `CHOOSE` of a function: a group of
lemmas shows that both are what they are taken for (`TotalIsSum`, `SumsAdd`,
`SumOfPart`, `FoldExists`).  A target phrase's scores are assigned and not added;
the total is right all the same because each feature comes once, to slots
where nothing was (`IsolationIsGood`).

*The earlier decoder* (`LegacyProofs`).  The assumptions say what files and input
can be: lines of a table have words and numbers (`TablesAssumption`), lines of a
configuration are sections, blank ones or values, and `num-features` is a number
that is not negative, as `Scan<size_t>` reads it (`IniAssumption`), sentences are of
identifiers (`SentencesAssumption`).  `LegacyInv` follows the program through its
stages.  `Starting` says which features have their tables, `LookedUpSoFar` that
the path just looked up has the node of its words: the lookup goes on from the node
of the span that is shorter by a word, and if that has none, neither has the longer one,
because a table is closed under prefixes (`TableIsClosed`).  `OnTheDevice`
says that the memory of a path was read back as its phrases, `KnownSoFar` that
without a fault every span of the sentences so far has a node; that the fault is
never reset is why `SuccessAlwaysKnown` holds.  For `DeviceAlwaysHasTheTable` the
offsets of each block are sums of the sizes before it, and the walk of the
device adds the same sizes (`FlattenedAt`, `InitializeReads`, `ReadsBack`).

`WeightsInv` has the slots of the features, each from where those before it end
(`Slots`), and the weights after the lines so far (`WeightedBy`): a line writes the slots
of the first feature of its name, which are apart from all others, over those that an
earlier line wrote.

`NoWordTwice` is about what the stacks hold when a kernel starts or a sentence is
done; its invariant, `LinksInv`, is about every step in between.  `Extends` says
what a hypothesis of a slot or of a stack has to do with the one that it points
to: its words are in its coverage and not in that one's, and they are as many as
its stack number is higher.  Of the first hypothesis it says nothing, because its
coverage is memory that may be overwritten.  `SlotsAreSet` is for the valid slots
only: a slot that is not valid keeps a hypothesis of an earlier stack, which is why
`ThreadsAreAtSlots` has to remember, for a thread between its test of the flag and
its write of it, that the slot was set for this stack, whatever another thread has
made of the flag.  `StacksAreLinked` is then kept because a stack only grows while
others point into it, and `ChainIsRight` goes back along the pointers: each step
goes to a lower stack, so that the walk is over after as many steps as there are
words.  `CapacityAssumption` says that the size of the array is a number
(`NUM_NEW_HYPOS`, a `size_t`).

*Configuration and options* (`ConfigurationProofs`).  `InputAssumption` says what
files and command lines can be: sections with lines of words, any words and any
number of them, with one restriction: a line of a table in the old format has the
fields that its conversion reads, and the sizes in it are not negative, as
`Scan<size_t>` reads them (a line with fewer is read past its end).  Texts are
strings with the names that the program gives itself spelled out (`OwnTexts`),
because the provers cannot show of a literal that it is a string.

`WeightsPrecedence` needs three things.  `TypeOK` goes through every conversion of
the old format: whichever of them succeed, and whatever they append, each parameter
keeps lines that the conversions to come can read; the sums of sizes that deal the
weights out stay in range (`SumTo`).  `InOrder` says that the map is empty until it is
made and that no conversion comes twice.  `WeightsAreMapped` says that the map, when
it is made, has the last line of each name, with the lines to be added before the
others, and, when `WeightOverwrite` has ended, for each name the words after it.  The
loop over the words of `weight-overwrite` has an invariant of its own, `IsSavedUpTo`:
what stands before a word has given each name up to the last its words, an `x`
standing for the weight at that place before, while the words of the last name are
still collected (`ReadWord`, `Save`).  `PrecedenceHolds` then relates the place
of a name in the line to the words up to the next name.  The property is about
lines that start with a name and name each feature once (`PlainOverwrite`): the code
would give words before the first name to that name, and let an `x` of a second
mention keep what the first one gave.

`OptionsAgree` rests on what each group has set by the time of the check.  Each of the
three ways to MBR is ruled by one group (`Rules`), and no other touches it
(`Avoids`), so that when the check is reached each is on if and only if the settings ask
for it: the settings stay as they are once a group has been read (`GroupsAreSet`).  The
check is reached only if every group returned true; it refuses two of the three, turns
MBR on for one, and then the list and the path follow from what it compares
(`CheckedAgrees`).

`TypeOK`, `ClimbsStacks`, `BestKept`, `Balanced` and `AnswerIsBest` are theorems
that no run checks: the runs check what says more, or the same in a form that TLC
can evaluate.

Only model-checked:

* liveness (the ends of kernels, of the search, the pool, chains, sorts and of the
  legacy decoder), which TLAPS cannot prove under fairness;
* `Optimal`, whose reference enumerates all derivations with a recursive operator,
  and which also has stacks that fill;
* `OldWeightsDealt` and `OptionsFromSources`, which are about many rules, one for
  each of a small set of names, and compare them with a second statement of the same
  rules: each rule is met by the configurations of the run;
* the numbers and the large integers, whose modules are made of recursive operators;
* `SortIsRight`, which compares sums of weights over sequences: what a fold over a
  sequence adds up to needs an induction over it.


## Not modelled

* Scores are small integers, not floats; overflow to infinity and rounding are
  left out.  The modules of number conversion have floats, of a scaled format.
* Allocation succeeds, kernels launch, and a released lock publishes the writes
  made under it.  The code has no memory fence, so the last is an assumption
  about the device; see the hazards.  A block has one thread, as it is launched:
  the lockstep of the lanes of a warp, for which the comment at `Manager.cu:227`
  gave up larger blocks, is left out.
* What a write past the vector of 100 entries does: `TargetSide` bounds the chains
  by the capacity.
* A read past an array of no words may fault; the modules give it a value.
* How lines are split into words and numbers are scanned, printing, saving, and
  whether files exist (in `LegacySystem` one does not).  The groups of options that
  nothing compiles (server, syntax).
* Of the numbers: upper-case letters in exponents and hexadecimals, symbols for
  infinity and NaN that are NULL, the exception of `ParseNumber`, and
  `integer_to_string.cc`, a table of digits.
* Of the streams: streams over several chains at once, progress reports, timers,
  and system calls that fail.
* Of the legacy decoder: what it has but never reaches (`UnknownWordPenalty`,
  `PhrasePenalty`, `WordPenaltyProducer`, `CalcFutureScore`, the bitmaps and
  ranges of the host, `SquareMatrix`), its timer, and scores, which it computes
  and nothing reads.
* Hashing, memory mapping, compressed files, probing tables, and the other
  wrappers of `util/`: each is a call or two with no state between them.
* Tokenisation, the neural stub, the tests of containers, the edit distance tool.

## Plan

Done: the models of all the parts above; proofs about derivations, stacks, the
search, the queue of the pool, the sorted vector, the chain of workers and what it
delivers, the stream that goes back, the phrase table and the output, the language model, the features, the
configuration and its options, and the earlier decoder.

Left are, in this order:

1. Proofs that the conversion of the old format deals each weight once
   (`OldWeightsDealt`), from the lemmas about its types.
2. The lock under a weak memory: a model of the missing fence.
