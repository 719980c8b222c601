---------------------------- MODULE MCUtilities ----------------------------
(***************************************************************************)
(* What the program is built on: the sorted vector of a stack, and of the  *)
(* utilities the thread pool, chains of workers, the stream that can go    *)
(* back, the sort, and large integers.  They have nothing to do with one   *)
(* another: one of them is at work, and the others are as they are when    *)
(* they are done.                                                          *)
(***************************************************************************)
EXTENDS SortedVector, ThreadPool, Chain, Rewindable, TLC

VARIABLES
  sortJob, step, left, fileOf, offsetsOf, fdIn, streaming,   \* a sort
  bufferAt, queue, record, written, output,
  number, exact, quotient, exactQuotient, operations         \* large integers

-----------------------------------------------------------------------------
(* Six hypotheses, two of one key and two of one score, and a stack for two *)

Hypo(key, score) == [key |-> key, score |-> score]

VectorHypotheses ==
  {Hypo(1, 3), Hypo(2, 2), Hypo(2, 5), Hypo(3, 1), Hypo(4, 2), Hypo(5, 4)}

VectorIdle ==
  /\ pool = {} /\ freed = VectorHypotheses /\ vec = [coll |-> Empty, sorted |-> Empty]
  /\ pc = "idle" /\ job = "none" /\ adding = {} /\ k = 0 /\ hypo = Junk
  /\ l = 0 /\ r = -1 /\ found = FALSE /\ ind = 0 /\ dest = 0

-----------------------------------------------------------------------------
(* Two workers and two clients, who ask for three things in all, in a queue *)
(* of two                                                                   *)

PoolWorkers == {"w1", "w2"}
PoolClients == {"c1", "c2"}
PoolCallers == PoolWorkers \union PoolClients \union {"main"}
PoolRequests == [c \in PoolClients |-> IF c = "c1" THEN <<1, 2>> ELSE <<1>>]

PoolIdle ==
  /\ empty = 0 /\ used = 0 /\ storage = <<>> /\ produceAt = 0 /\ consumeAt = 0
  /\ at = [t \in Callers |-> "out"]
  /\ value = <<>>
  /\ asked = [c \in Clients |-> Len(Requests[c])]
  /\ poisons = 2 /\ handled = AllRequests /\ ended = Workers

-----------------------------------------------------------------------------
(* Chains of two blocks of three entries, some used twice *)

On(kind, name) == [kind |-> kind, file |-> name]
StreamOf(entries) == [kind |-> "Stream", entries |-> entries]
Just(kind) == [kind |-> kind]

ChainPrograms ==
  {<< <<On("Read", "a"), Just("Change"), On("WriteAndRecycle", "o")>>,
      <<On("PRead", "o"), Just("CountRecords"), On("PWriteAndRecycle", "old")>> >>,
   << <<StreamOf(<<1, 2, 3, 4>>), On("Write", "o"), Just("Change"), On("Write", "p")>>,
      <<StreamOf(<<>>)>> >>,
   << <<On("LineInput", "l"), Just("CountRecords"), On("WriteAndRecycle", "o")>> >>,
   << <<On("LineInput", "m"), On("WriteAndRecycle", "o")>> >>,
   << <<On("Read", "n"), Just("Recycler")>> >>,
   << <<On("PRead", "n"), Just("Recycler")>> >>,
   << <<On("PRead", "c"), On("Write", "o")>> >>}

\* Lines l fit into the blocks, though one goes over the end of the first; m is
\* one that does not; n has part of an entry at its end.
ChainFiles ==
  [a |-> <<1, 2, 3, 4, 5>>, c |-> <<1, 2, 3, 4>>, l |-> <<1, 9, 1, 9, 2, 2>>,
   m |-> <<1, 2, 3, 4, 9>>, n |-> <<1>>, old |-> <<7, 7, 7, 7, 7, 7>>, o |-> <<>>, p |-> <<>>]

ChainConfig == [entrySize |-> 2, blockCount |-> 2, totalMemory |-> 13]
RaggedFiles == {"n"}

ChainIdle ==
  /\ program = <<>> /\ file = <<>> /\ memory = <<>> /\ queues = <<>> /\ threads = <<>>
  /\ complete = FALSE /\ drained = 0 /\ main = "done"

-----------------------------------------------------------------------------
(* A stream of blocks of two entries; some come half full, or empty *)

StreamArrivals ==
  {<< <<1, 2>>, <<3, 4>>, <<5, 6>> >>, << <<1, 2>>, <<>>, <<3>> >>,
   << <<1, 2>>, <<3>>, <<4, 5>>, <<6>> >>}

StreamIdle ==
  /\ arriving = <<>> /\ inQueue = <<>> /\ outQueue = <<>> /\ cells = <<>> /\ kept = <<>>
  /\ keptIt = 1 /\ marked = 0 /\ current = 0 /\ blockEnd = 0 /\ hitPoison = TRUE
  /\ poisoned = TRUE /\ sent = <<>> /\ view = <<>> /\ place = 1 /\ markPlace = 0
  /\ client = "left"

-----------------------------------------------------------------------------
(* Sorts of up to eight blocks, in memory enough for a merge of two, of     *)
(* three, of all, or too little                                             *)

SortInputs ==
  {<<>>, << <<>> >>, << <<2, 1, 2>> >>, << <<2, 1>>, <<1>> >>,
   << <<3, 1>>, <<2, 2>>, <<1, 4>> >>, << <<3, 1>>, <<>>, <<2, 2>>, <<1>>, <<4>>, <<2, 3>> >>,
   << <<5>>, <<4>>, <<3>>, <<2>>, <<1>>, <<2>>, <<3>>, <<4>> >>,
   << <<5, 1, 2>>, <<4, 3, 2>>, <<1, 3, 2>>, <<1, 2, 2>>, <<3>>, <<2>> >>}

Memories(buffer, total, lazy, given) ==
  [buffer |-> buffer, total |-> total, lazy |-> lazy, memory |-> given]

SortMemories ==
  {Memories(3, 8, "default", 0), Memories(2, 9, "steal", 0), Memories(2, 10, "given", 5),
   Memories(4, 17, "given", 3), Memories(4, 17, "given", 9), Memories(1, 8, "default", 0),
   Memories(4, 15, "steal", 0)}

\* Every key stands for itself once.
SortJobs ==
  {[blocks |-> [n \in DOMAIN keys |-> [i \in DOMAIN keys[n] |-> <<keys[n][i], 1>>]],
    combine |-> combine] @@ m :
     keys \in SortInputs, m \in SortMemories, combine \in BOOLEAN}

Sorting == INSTANCE MergeSort
             WITH EntrySize <- 2, OutBlock <- 2, Jobs <- SortJobs, job <- sortJob

SortIdle ==
  /\ sortJob = <<>> /\ step = "refused" /\ left = <<>> /\ fileOf = <<>> /\ offsetsOf = <<>>
  /\ fdIn = "data" /\ streaming = FALSE /\ bufferAt = 0 /\ queue = <<>> /\ record = <<>>
  /\ written = 0 /\ output = <<>>

-----------------------------------------------------------------------------
(* Large integers: bigits of four bits in chunks of eight *)

BigOperands == {0, 1, 10, 255, 4095, 65535}
BigStrings == {<<>>, <<0, 0>>, <<1, 2, 3, 4, 5, 6>>, <<9, 9, 9, 9>>}

Large == INSTANCE Bignum
           WITH BigitSize <- 4, ChunkSize <- 8, Capacity <- 14, DecimalDigits <- 4,
                FivesInDouble <- 6, FivesInChunk <- 3, Operands <- BigOperands,
                Strings <- BigStrings, MaxValue <- 2 ^ 24, MaxOperations <- 3

BignumIdle ==
  /\ number = [n \in Large!Names |-> Large!Zero] /\ exact = [n \in Large!Names |-> 0]
  /\ quotient = 0 /\ exactQuotient = 0 /\ operations = 3

-----------------------------------------------------------------------------
sortVars == <<sortJob, step, left, fileOf, offsetsOf, fdIn, streaming, bufferAt, queue, record,
              written, output>>
bignumVars == <<number, exact, quotient, exactQuotient, operations>>

vars == <<vectorVars, poolVars, chainVars, rewindVars, sortVars, bignumVars>>

Init ==
  \/ VectorInit /\ PoolIdle /\ ChainIdle /\ StreamIdle /\ SortIdle /\ BignumIdle
  \/ VectorIdle /\ PoolInit /\ ChainIdle /\ StreamIdle /\ SortIdle /\ BignumIdle
  \/ VectorIdle /\ PoolIdle /\ ChainInit /\ StreamIdle /\ SortIdle /\ BignumIdle
  \/ VectorIdle /\ PoolIdle /\ ChainIdle /\ RewindInit /\ SortIdle /\ BignumIdle
  \/ VectorIdle /\ PoolIdle /\ ChainIdle /\ StreamIdle /\ Sorting!SortInit /\ BignumIdle
  \/ VectorIdle /\ PoolIdle /\ ChainIdle /\ StreamIdle /\ SortIdle /\ Large!BignumInit

Next ==
  \/ /\ VectorNext
     /\ UNCHANGED <<poolVars, chainVars, rewindVars, sortVars, bignumVars>>
  \/ /\ PoolNext
     /\ UNCHANGED <<vectorVars, chainVars, rewindVars, sortVars, bignumVars>>
  \/ /\ ChainNext
     /\ UNCHANGED <<vectorVars, poolVars, rewindVars, sortVars, bignumVars>>
  \/ /\ RewindNext
     /\ UNCHANGED <<vectorVars, poolVars, chainVars, sortVars, bignumVars>>
  \/ /\ Sorting!SortNext
     /\ UNCHANGED <<vectorVars, poolVars, chainVars, rewindVars, bignumVars>>
  \/ /\ Large!BignumNext
     /\ UNCHANGED <<vectorVars, poolVars, chainVars, rewindVars, sortVars>>

Spec ==
  /\ Init /\ [][Next]_vars
  /\ WF_vectorVars(Work)
  /\ PoolFairness /\ ChainFairness /\ Sorting!SortFairness

-----------------------------------------------------------------------------
\* Sorts are right: see MergeSort (stream/sort.hh).
SortIsRight == Sorting!SortIsRight

\* Large integers are what they should be: see Bignum (double-conversion/bignum.cc).
BignumIsExact == Large!BignumIsExact

(***************************************************************************)
(* Whatever has been started comes to an end: a call on the vector, the    *)
(* pool with all requests handled and its threads joined, the chain with   *)
(* its poison at the owner, the sort (Vector.h:173-207, thread_pool.hh:    *)
(* 31-41, stream/chain.cc:65-82, stream/sort.hh).                          *)
(***************************************************************************)
WorkEnds == Returns /\ PoolDrains /\ ChainEnds /\ Sorting!SortEnds

=============================================================================
