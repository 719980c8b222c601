----------------------------- MODULE MergeSort ------------------------------
(***************************************************************************)
(* Sort (util/stream/sort.hh): a chain sorts its blocks and writes them to *)
(* a file one after the other, with their lengths in a second file; passes *)
(* over the file merge groups of sorted blocks until the last merge fits   *)
(* in memory and can be done while the entries are read.                   *)
(*                                                                         *)
(* An entry is a key and how often it stands for it, which a combiner adds *)
(* up.  Lengths and memory are counted in the unit of EntrySize.           *)
(***************************************************************************)
EXTENDS Integers, Sequences, FiniteSets, SequencesExt, FiniteSetsExt

CONSTANTS EntrySize,              \* entry_size_
          OutBlock,               \* the block size of the chain for the output
          Jobs                    \* what to sort, with which memory

VARIABLES job,                    \* blocks, buffer_size, total_memory, lazy_memory, combiner
          step,                   \* where the sort is
          left,                   \* the blocks that are still to come
          fileOf,                 \* contents of the files behind data_ and data2
          offsetsOf,              \* offsets_ and offsets2
          fdIn,                   \* fd_in: which of the two is read
          streaming,              \* assert_one: the merge that feeds the output
          bufferAt,               \* buf: how much of the buffer has been given out
          queue,                  \* queue_: the stripes, each with its buffer
          record,                 \* the entry that is being put together, if any
          written,                \* written
          output                  \* what has come out at the end

sortVars == <<job, step, left, fileOf, offsetsOf, fdIn, streaming, bufferAt, queue, record,
              written, output>>

Files2 == {"data", "data2"}

Other(f) == IF f = "data" THEN "data2" ELSE "data"

Size(f) == Len(fileOf[f]) * EntrySize

-----------------------------------------------------------------------------
(* Offsets: the lengths of the sorted blocks, equal ones in one entry *)

Entry(length, run) == [length |-> length, run |-> run]

NoOffsets ==
  [log |-> <<>>, next |-> 1, cur |-> Entry(0, 0), blocks |-> 0, sum |-> 0]

\* Mutant: a length of its own is not seen to be one.
RunsOn(o, length) == o.blocks > 0

\* Whether a block is counted with the one before it.
SameLength(o, length) == length = o.cur.length

AppendLength(o, length) ==
  IF length = 0 THEN o
  ELSE IF SameLength(o, length) THEN [o EXCEPT !.blocks = @ + 1, !.cur.run = @ + 1]
  ELSE [o EXCEPT !.blocks = @ + 1, !.log = Append(@, o.cur), !.cur = Entry(length, 1)]

\* The first entry of the log stands for nothing and is skipped.
FinishedAppending(o) ==
  LET log == Append(o.log, o.cur)
  IN  IF o.blocks = 0 THEN [o EXCEPT !.log = log, !.next = 2, !.cur.run = 0]
      ELSE [o EXCEPT !.log = log, !.next = 3, !.cur = log[2]]

PeekSize(o) == o.cur.length

\* NextSize, without the size that it returns.
NextSize(o) ==
  LET one == [o EXCEPT !.sum = @ + o.cur.length, !.cur.run = @ - 1, !.blocks = @ - 1]
  IN  IF one.cur.run = 0 /\ one.blocks > 0
      THEN [one EXCEPT !.cur = one.log[one.next], !.next = @ + 1]
      ELSE one

Remaining(f) == offsetsOf[f].blocks

-----------------------------------------------------------------------------
(* Sorting the blocks *)

KeyOf(entry) == entry[1]

InOrder(entries) == SortSeq(entries, LAMBDA a, b : KeyOf(a) < KeyOf(b))

\* Sort::Sort makes buffer_size a multiple of the entries and checks it.
BufferSize == job.buffer - (job.buffer % EntrySize)

BadSortConfig == BufferSize = 0 \/ job.total < BufferSize * 4

SortInit ==
  /\ job \in Jobs
  /\ step = IF BadSortConfig THEN "refused" ELSE "blocks"
  /\ left = job.blocks
  /\ fileOf = [f \in Files2 |-> <<>>]
  /\ offsetsOf = [f \in Files2 |-> NoOffsets]
  /\ fdIn = "data"
  /\ streaming = FALSE
  /\ bufferAt = 0
  /\ queue = <<>>
  /\ record = <<>>
  /\ written = 0
  /\ output = <<>>

\* BlockSorter, and the WriteAndRecycle after it.
SortBlock ==
  /\ step = "blocks" /\ left # <<>>
  /\ left' = Tail(left)
  /\ offsetsOf' = [offsetsOf EXCEPT !["data"] = AppendLength(@, Len(Head(left)) * EntrySize)]
  /\ fileOf' = [fileOf EXCEPT !["data"] = @ \o InOrder(Head(left))]
  /\ UNCHANGED <<job, step, fdIn, streaming, bufferAt, queue, record, written, output>>

BlocksDone ==
  /\ step = "blocks" /\ left = <<>>
  /\ offsetsOf' = [offsetsOf EXCEPT !["data"] = FinishedAppending(@)]
  /\ step' = "merge"
  /\ UNCHANGED <<job, left, fileOf, fdIn, streaming, bufferAt, queue, record, written, output>>

-----------------------------------------------------------------------------
(* Merge *)

\* DefaultLazy for Output without a memory, none for StealCompleted.
LazyMemory ==
  LET arity == job.total \div BufferSize
  IN  CASE job.lazy = "default" -> (job.total * (arity - 1)) \div arity
        [] job.lazy = "steal" -> 0
        [] OTHER -> job.memory

LazyArity == Max({1, LazyMemory \div BufferSize})

IsLazy(f) ==
  Remaining(f) <= 1 \/ Remaining(f) <= LazyArity \/ Size(f) <= LazyMemory

\* A pass of the loop, with the memory of its MergingReader.
StartPass ==
  /\ step = "merge" /\ ~IsLazy(fdIn)
  /\ step' = "group"
  /\ UNCHANGED <<job, left, fileOf, offsetsOf, fdIn, streaming, bufferAt, queue, record,
                 written, output>>

Memory ==
  IF streaming THEN LazyMemory ELSE Min({job.total - 2 * BufferSize, Size(fdIn)})

\* Merge returns; data_ and offsets_ are the files that were written last.
Merged ==
  /\ step = "merge" /\ IsLazy(fdIn)
  /\ step' = IF job.lazy = "steal" THEN "stolen" ELSE "output"
  /\ output' = IF job.lazy = "steal" THEN fileOf[fdIn] ELSE output
  /\ UNCHANGED <<job, left, fileOf, offsetsOf, fdIn, streaming, bufferAt, queue, record,
                 written>>

-----------------------------------------------------------------------------
(* MergingReader *)

\* The size of a buffer, larger when fewer blocks are left.
PerBuffer(blocks) ==
  LET most == Max({BufferSize, Memory \div blocks}) IN most - (most % EntrySize)

\* Read of a stripe's buffer: what fits in it.
ReadBuffer(stripe, per) ==
  LET amount == Min({per, stripe.remaining})
      from   == stripe.offset \div EntrySize
  IN  [offset    |-> stripe.offset + amount,
       remaining |-> stripe.remaining - amount,
       buffer    |-> SubSeq(fileOf[fdIn], from + 1, from + amount \div EntrySize)]

\* The next block has a place in the memory.
HasRoom ==
  /\ Remaining(fdIn) > 0
  /\ bufferAt + Min({queue.per, PeekSize(offsetsOf[fdIn])}) <= Memory

NoQueue == <<>>

StartGroup ==
  /\ step = "group" /\ queue = NoQueue /\ Remaining(fdIn) > 0
  /\ queue' = [per |-> PerBuffer(Remaining(fdIn)), stripes |-> <<>>]
  /\ bufferAt' = 0
  /\ written' = 0
  /\ UNCHANGED <<job, step, left, fileOf, offsetsOf, fdIn, streaming, record, output>>

PushStripe ==
  /\ step = "group" /\ queue # NoQueue /\ HasRoom
  /\ LET o    == offsetsOf[fdIn]
         size == PeekSize(o)
     IN  /\ queue' = [queue EXCEPT !.stripes = Append(@,
               ReadBuffer([offset |-> o.sum, remaining |-> size], queue.per))]
         /\ bufferAt' = bufferAt + Min({size, queue.per})
         /\ offsetsOf' = [offsetsOf EXCEPT ![fdIn] = NextSize(@)]
  /\ UNCHANGED <<job, step, left, fileOf, fdIn, streaming, record, written, output>>

\* The two bugs that the code looks for.
TooFewStripes == Len(queue.stripes) < 2 /\ Remaining(fdIn) > 0

SecondGroup == streaming /\ Remaining(fdIn) > 0

GroupReady ==
  /\ step = "group" /\ queue # NoQueue /\ ~HasRoom
  /\ step' = IF TooFewStripes \/ SecondGroup THEN "abort" ELSE "pop"
  /\ UNCHANGED <<job, left, fileOf, offsetsOf, fdIn, streaming, bufferAt, queue, record,
                 written, output>>

TopOf(s) == Head(queue.stripes[s].buffer)

\* The stripes that the priority queue may have at its top.
Tops ==
  {s \in DOMAIN queue.stripes :
     \A r \in DOMAIN queue.stripes : KeyOf(TopOf(s)) <= KeyOf(TopOf(r))}

\* Increment, which reads again when the buffer is used up.
Popped(s) ==
  LET stripe == queue.stripes[s]
      rest   == Tail(stripe.buffer)
  IN  IF rest # <<>> THEN [queue EXCEPT !.stripes[s].buffer = rest]
      ELSE IF stripe.remaining > 0
      THEN [queue EXCEPT !.stripes[s] = ReadBuffer(stripe, queue.per)]
      ELSE [queue EXCEPT !.stripes = RemoveAt(@, s)]

Combines(into, option) == job.combine /\ KeyOf(into) = KeyOf(option)

Target == IF streaming THEN output ELSE fileOf[Other(fdIn)]

\* What the Stream has let go of goes to the file or to the output.
Put1(entries) ==
  IF streaming THEN output' = output \o entries /\ UNCHANGED fileOf
  ELSE fileOf' = [fileOf EXCEPT ![Other(fdIn)] = @ \o entries] /\ UNCHANGED output

Pop(s) ==
  /\ step = "pop" /\ queue.stripes # <<>>
  /\ s \in Tops
  /\ queue' = Popped(s)
  /\ \/ /\ record = <<>>
        /\ record' = <<TopOf(s)>>
        /\ UNCHANGED <<written, fileOf, output>>
     \/ /\ record # <<>> /\ Combines(record[1], TopOf(s))
        /\ record' = <<<<KeyOf(record[1]), record[1][2] + TopOf(s)[2]>>>>
        /\ UNCHANGED <<written, fileOf, output>>
     \/ /\ record # <<>> /\ ~Combines(record[1], TopOf(s))
        /\ record' = <<TopOf(s)>>
        /\ written' = written + 1
        /\ Put1(record)
  /\ UNCHANGED <<job, step, left, offsetsOf, fdIn, streaming, bufferAt>>

GroupDone ==
  /\ step = "pop" /\ queue.stripes = <<>>
  /\ Put1(record)
  /\ offsetsOf' = IF streaming THEN offsetsOf
                  ELSE [offsetsOf EXCEPT ![Other(fdIn)] =
                          AppendLength(@, (written + 1) * EntrySize)]
  /\ record' = <<>>
  /\ queue' = NoQueue
  /\ written' = written + 1
  /\ step' = "group"
  /\ UNCHANGED <<job, left, fdIn, streaming, bufferAt>>

\* A pass is done: the files change places, and the one that was read is empty.
PassDone ==
  /\ step = "group" /\ queue = NoQueue /\ Remaining(fdIn) = 0 /\ ~streaming
  /\ offsetsOf' = [offsetsOf EXCEPT ![Other(fdIn)] = FinishedAppending(@),
                                    ![fdIn] = NoOffsets]
  /\ fileOf' = [fileOf EXCEPT ![fdIn] = <<>>]
  /\ fdIn' = Other(fdIn)
  /\ step' = "merge"
  /\ UNCHANGED <<job, left, streaming, bufferAt, queue, record, written, output>>

-----------------------------------------------------------------------------
(* Output: the OwningMergingReader *)

OutputNothing ==
  /\ step = "output" /\ Remaining(fdIn) = 0
  /\ step' = "done"
  /\ UNCHANGED <<job, left, fileOf, offsetsOf, fdIn, streaming, bufferAt, queue, record,
                 written, output>>

\* ReadSingle, a block of the chain at a time: full ones as long as something
\* is left after them.
ReadSingle ==
  /\ step = "output" /\ Remaining(fdIn) = 1
  /\ LET o     == offsetsOf[fdIn]
         from  == o.sum \div EntrySize + Len(output)
         end   == (o.sum + PeekSize(o)) \div EntrySize
         until == Min({from + OutBlock, end})
     IN  /\ output' = output \o SubSeq(fileOf[fdIn], from + 1, until)
         /\ step' = IF from + OutBlock < end THEN step ELSE "done"
         /\ offsetsOf' = IF from + OutBlock < end THEN offsetsOf
                         ELSE [offsetsOf EXCEPT ![fdIn] = NextSize(@)]
  /\ UNCHANGED <<job, left, fileOf, fdIn, streaming, bufferAt, queue, record, written>>

OutputMerge ==
  /\ step = "output" /\ Remaining(fdIn) > 1
  /\ streaming' = TRUE
  /\ step' = "group"
  /\ UNCHANGED <<job, left, fileOf, offsetsOf, fdIn, bufferAt, queue, record, written, output>>

OutputDone ==
  /\ step = "group" /\ queue = NoQueue /\ Remaining(fdIn) = 0 /\ streaming
  /\ step' = "done"
  /\ UNCHANGED <<job, left, fileOf, offsetsOf, fdIn, streaming, bufferAt, queue, record,
                 written, output>>

SortNext ==
  \/ SortBlock \/ BlocksDone \/ StartPass \/ Merged
  \/ StartGroup \/ PushStripe \/ GroupReady \/ GroupDone \/ PassDone
  \/ OutputNothing \/ ReadSingle \/ OutputMerge \/ OutputDone
  \/ \E s \in DOMAIN (IF queue = NoQueue THEN <<>> ELSE queue.stripes) : Pop(s)

SortFairness == WF_sortVars(SortNext)

-----------------------------------------------------------------------------
AllEntries == FlattenSeq(job.blocks)

\* How much stands for a key.
Weight(entries, key) ==
  FoldLeft(LAMBDA sum, e : IF KeyOf(e) = key THEN sum + e[2] ELSE sum, 0, entries)

SortEnded == step \in {"done", "stolen"}

(***************************************************************************)
(* What comes out is sorted and stands for what went in, whatever the      *)
(* lengths of the blocks, the passes it took and the memory they had; and  *)
(* neither of the two things that would be a bug in the sort happens: a    *)
(* group of one stripe, which would go on for ever, and a lazy merge that  *)
(* takes more than one group (sort.hh:53-122, 160-183, 254-288, 416-473).  *)
(***************************************************************************)
SortIsRight ==
  /\ step # "abort"
  /\ SortEnded =>
       /\ \A n \in 1 .. (Len(output) - 1) : KeyOf(output[n]) <= KeyOf(output[n + 1])
       /\ \A key \in {KeyOf(e) : e \in ToSet(AllEntries)} \union {KeyOf(e) : e \in ToSet(output)} :
            Weight(output, key) = Weight(AllEntries, key)

(***************************************************************************)
(* The sort comes to an end: every pass leaves fewer blocks than it found  *)
(* (sort.hh:444-463).                                                      *)
(***************************************************************************)
SortEnds == <>(step \in {"done", "stolen", "abort", "refused"})

=============================================================================
