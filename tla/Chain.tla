------------------------------- MODULE Chain --------------------------------
(***************************************************************************)
(* Chains of workers (util/stream): blocks of memory go round from queue   *)
(* to queue, each worker takes one from the queue before it, works on it   *)
(* and passes it on, and the last one gives it back to the first.  A block *)
(* whose memory is NULL is poison, and ends every worker that it reaches.  *)
(*                                                                         *)
(* A queue is what module BoundedQueue promises, so that Produce and       *)
(* Consume are one step; what a worker does to its own block goes with the *)
(* Produce that follows.  Sizes are counted in entries.  An entry is a     *)
(* number; where lines matter it is a character, and Newline ends a line.  *)
(***************************************************************************)
EXTENDS Integers, Sequences, FiniteSets, SequencesExt, FiniteSetsExt

CONSTANTS Config,                 \* ChainConfig
          Programs,               \* rounds of jobs for one chain after the other
          Files,                  \* what is in the files before
          Ragged,                 \* those with part of an entry at the end
          Newline

VARIABLES program,                \* the rounds there are still to do
          file,                   \* the contents of each file
          memory,                 \* memory_: what is in each block
          queues,                 \* queues_
          threads,                \* threads_, each with its Link
          complete,               \* complete_called_
          drained,                \* i of Chain::Wait
          main                    \* where the thread is that owns the chain

chainVars == <<program, file, memory, queues, threads, complete, drained, main>>

\* Chain::Chain.
BadConfig ==
  \/ Config.entrySize = 0 \/ Config.blockCount = 0
  \/ Config.totalMemory < Config.entrySize * Config.blockCount

BlockSize ==
  Config.totalMemory \div (Config.blockCount * Config.entrySize)

Blocks == 1 .. Config.blockCount

NoMemory == 0

Block(mem, size) == [mem |-> mem, valid |-> size]

IsPoison(block) == block.mem = NoMemory

ChainInit ==
  /\ program \in Programs
  /\ file = Files
  /\ memory = [b \in Blocks |-> [e \in 1 .. BlockSize |-> 0]]
  /\ queues = <<>>
  /\ threads = <<>>
  /\ complete = FALSE
  /\ drained = 0
  /\ main = IF BadConfig THEN "refused" ELSE "build"

\* The jobs that fill blocks, that close the loop, that write to files.
Sources == {"Read", "PRead", "LineInput", "Stream"}
Sinks == {"Recycler", "WriteAndRecycle", "PWriteAndRecycle"}
Appenders == {"Write", "WriteAndRecycle"}
Writers == Appenders \union {"PWriteAndRecycle"}

HasFile(job) == job.kind \in {"Read", "PRead", "LineInput"} \union Writers

\* A chain is closed only after it has been started: the assertion of Complete.
\* Its first worker, and no other, fills blocks, and only the last one closes it.
ASSUME ProgramsAssumption ==
  \A p \in Programs :
    /\ p \in Seq(ToSet(p)) \ {<<>>}
    /\ \A round \in ToSet(p) :
         /\ round \in Seq(ToSet(round)) \ {<<>>}
         /\ \A n \in DOMAIN round :
              /\ round[n].kind \in Sources <=> n = 1
              /\ round[n].kind \in Sinks => n = Len(round)

\* No two workers of a chain use the same file.  What is written at the end of a
\* file starts it, and no chain before has written there.
ASSUME FilesAssumption ==
  /\ \A f \in DOMAIN Files : Files[f] \in Seq(Int)
  /\ \A p \in Programs : \A i \in DOMAIN p : \A n \in DOMAIN p[i] :
       LET job == p[i][n]
       IN  /\ job.kind = "Stream" => job.entries \in Seq(Int)
           /\ HasFile(job) =>
                /\ job.file \in DOMAIN Files
                /\ \A m \in DOMAIN p[i] :
                     m # n /\ HasFile(p[i][m]) => p[i][m].file # job.file
           /\ job.kind \in Appenders =>
                /\ Files[job.file] = <<>>
                /\ \A j \in 1 .. (i - 1) : \A m \in DOMAIN p[j] :
                     p[j][m].kind \in Writers => p[j][m].file # job.file

ASSUME ConfigAssumption ==
  Config.blockCount \in Nat /\ Config.entrySize \in Nat /\ Config.totalMemory \in Nat

-----------------------------------------------------------------------------
(* The owner of the chain *)

Round == Head(program)

\* A thread with its position: the queue it takes from, the one it gives to.
Thread(job, in, out) ==
  [job |-> job, in |-> in, out |-> out, at |-> "enter", block |-> Block(NoMemory, 0),
   offset |-> 0, carry |-> <<>>]

\* Mutant: one block stays behind.
AllBlocksButOne == [b \in 1 .. (Config.blockCount - 1) |-> Block(b, BlockSize)]

\* Chain::Start.
AllBlocks == [b \in Blocks |-> Block(b, BlockSize)]

Started == IF queues = <<>> THEN <<AllBlocks>> ELSE queues

\* operator>> of a worker, with Add.
AddWorker ==
  /\ main = "build" /\ Len(threads) < Len(Round)
  /\ LET job == Round[Len(threads) + 1]
     IN  /\ job.kind \notin Sinks
         /\ queues' = Append(Started, <<>>)
         /\ threads' = Append(threads, Thread(job, Len(Started), Len(Started) + 1))
  /\ UNCHANGED <<program, file, memory, complete, drained, main>>

\* operator>> of a worker that recycles, with Complete, which throws if it is
\* called twice: a program closes its chain once at most (ProgramsAssumption).
AddSink ==
  /\ main = "build" /\ Len(threads) < Len(Round)
  /\ LET job == Round[Len(threads) + 1]
     IN  /\ job.kind \in Sinks
         /\ threads' = Append(threads, Thread(job, Len(queues), 1))
  /\ complete' = TRUE
  /\ UNCHANGED <<program, file, memory, queues, drained, main>>

\* Chain::Wait, whose loop is closed here when no sink did.
CompleteLoop ==
  /\ main = "build" /\ Len(threads) = Len(Round) /\ ~complete
  /\ threads' = Append(threads, Thread([kind |-> "Recycler"], Len(queues), 1))
  /\ complete' = TRUE
  /\ main' = "join"
  /\ UNCHANGED <<program, file, memory, queues, drained>>

StartWait ==
  /\ main = "build" /\ Len(threads) = Len(Round) /\ complete
  /\ main' = "join"
  /\ UNCHANGED <<program, file, memory, queues, threads, complete, drained>>

Join ==
  /\ main = "join"
  /\ \A t \in DOMAIN threads : threads[t].at = "ended"
  /\ drained' = 0
  /\ main' = "drain"
  /\ UNCHANGED <<program, file, memory, queues, threads, complete>>

Drain ==
  /\ main = "drain" /\ Head(queues) # <<>>
  /\ LET block == Head(Head(queues))
     IN  /\ queues' = [queues EXCEPT ![1] = Tail(@)]
         /\ drained' = drained + 1
         /\ main' = IF IsPoison(block) THEN "clear"
                    ELSE IF drained = Config.blockCount THEN "abort" ELSE main
  /\ UNCHANGED <<program, file, memory, threads, complete>>

Clear ==
  /\ main = "clear"
  /\ queues' = <<>>
  /\ threads' = <<>>
  /\ complete' = FALSE
  /\ program' = Tail(program)
  /\ main' = IF Tail(program) = <<>> THEN "done" ELSE "build"
  /\ UNCHANGED <<file, memory, drained>>

-----------------------------------------------------------------------------
(* Links *)

Running(t) == t \in DOMAIN threads /\ main \notin {"abort", "terminated"}

CanProduce(t) == Len(queues[threads[t].out]) < Config.blockCount

Produced(t, block) == [queues EXCEPT ![threads[t].out] = Append(@, block)]

\* PRead looks at the size of its file first.
SizeIsWrong(t) ==
  /\ threads[t].at = "enter"
  /\ threads[t].job.kind = "PRead" /\ threads[t].job.file \in Ragged

\* Link::Init, and the second half of Link::operator++.
Consume(t) ==
  /\ Running(t) /\ threads[t].at \in {"enter", "next", "last"} /\ ~SizeIsWrong(t)
  /\ queues[threads[t].in] # <<>>
  /\ LET block == Head(queues[threads[t].in])
     IN  /\ queues' = [queues EXCEPT ![threads[t].in] = Tail(@)]
         /\ threads' = [threads EXCEPT ![t].block = block,
                          ![t].at = IF IsPoison(block) \/ @ = "last" THEN "poison" ELSE "work"]
  /\ UNCHANGED <<program, file, memory, complete, drained, main>>

\* The poison goes on: Link::Poison, operator++ or ~Link.  PWriteAndRecycle
\* cuts its file after that; nobody else uses it until the thread is joined.
PassPoison(t) ==
  /\ Running(t) /\ threads[t].at = "poison"
  /\ CanProduce(t)
  /\ queues' = Produced(t, [threads[t].block EXCEPT !.mem = NoMemory])
  /\ threads' = [threads EXCEPT ![t].at = "ended", ![t].block.mem = NoMemory]
  /\ file' = IF threads[t].job.kind = "PWriteAndRecycle"
             THEN [file EXCEPT ![threads[t].job.file] = SubSeq(@, 1, threads[t].offset)]
             ELSE file
  /\ UNCHANGED <<program, memory, complete, drained, main>>

\* A block is done: the first half of Link::operator++.
PassOn(t, size, next) ==
  /\ CanProduce(t)
  /\ queues' = Produced(t, [threads[t].block EXCEPT !.valid = size])
  /\ threads' = [threads EXCEPT ![t].at = next, ![t].block.mem = NoMemory]

Working(t, kinds) == Running(t) /\ threads[t].at = "work" /\ threads[t].job.kind \in kinds

\* What is in the block of t.
EntriesOf(t) == SubSeq(memory[threads[t].block.mem], 1, threads[t].block.valid)

\* The block of t with the entries at its start.
WithEntries(t, entries) ==
  [memory EXCEPT ![threads[t].block.mem] =
     entries \o SubSeq(@, Len(entries) + 1, BlockSize)]

-----------------------------------------------------------------------------
(* Workers that fill blocks *)

Offset(t) == threads[t].offset

FileOf(t) == file[threads[t].job.file]

\* The next entries, as many as there is room for.
NextOf(entries, offset, room) ==
  SubSeq(entries, offset + 1, Min({offset + room, Len(entries)}))

\* Read and PRead: what is left comes in a block of its own, then nothing.
ReadBlock(t) ==
  LET entries == NextOf(FileOf(t), Offset(t), BlockSize)
  IN  /\ Working(t, {"Read", "PRead"})
      /\ ~(threads[t].job.file \in Ragged /\ Len(entries) < BlockSize)
      /\ IF entries = <<>>
         THEN /\ threads' = [threads EXCEPT ![t].at = "poison"]
              /\ UNCHANGED <<queues, memory>>
         ELSE /\ CanProduce(t)
              /\ queues' = Produced(t, Block(threads[t].block.mem, Len(entries)))
              /\ memory' = WithEntries(t, entries)
              /\ threads' = [threads EXCEPT ![t].at = "next", ![t].block.mem = NoMemory,
                                            ![t].offset = @ + Len(entries)]
      /\ UNCHANGED <<program, file, complete, drained, main>>

\* A Stream that the client writes its entries to; at the end Poison sends the
\* block as far as it got, and takes one more to make it poison.
WriteStream(t) ==
  LET room    == threads[t].block.valid
      entries == NextOf(threads[t].job.entries, Offset(t), room)
  IN  /\ Working(t, {"Stream"})
      /\ CanProduce(t)
      /\ queues' = Produced(t, Block(threads[t].block.mem, Len(entries)))
      /\ memory' = WithEntries(t, entries)
      /\ threads' = [threads EXCEPT ![t].at = IF Len(entries) = room THEN "next" ELSE "last",
                                    ![t].block.mem = NoMemory, ![t].offset = @ + Len(entries)]
      /\ UNCHANGED <<program, file, complete, drained, main>>

\* Mutant: what follows the last newline is left out.
NoCarry(text, ends) == <<>>

\* What LineInput keeps for the next block.
Carry(text, ends) == SubSeq(text, Max(ends) + 1, Len(text))

\* LineInput: whole lines, but for what is left at the end of the file.
ReadLines(t) ==
  LET kept == threads[t].carry
      new  == NextOf(FileOf(t), Offset(t), BlockSize - Len(kept))
      text == kept \o new
      ends == {n \in DOMAIN text : text[n] = Newline}
  IN  /\ Working(t, {"LineInput"})
      /\ CanProduce(t)
      /\ memory' = WithEntries(t, text)
      /\ \/ /\ Len(text) < BlockSize
            /\ PassOn(t, Len(text), "last")
         \/ /\ Len(text) = BlockSize /\ ends # {}
            /\ queues' = Produced(t, Block(threads[t].block.mem, Max(ends)))
            /\ threads' = [threads EXCEPT ![t].at = "next", ![t].block.mem = NoMemory,
                                          ![t].offset = @ + Len(new),
                                          ![t].carry = Carry(text, ends)]
      /\ UNCHANGED <<program, file, complete, drained, main>>

\* An exception leaves the thread, and nothing catches it.
Throw(t) ==
  /\ Running(t)
  /\ \/ SizeIsWrong(t)
     \/ /\ Working(t, {"Read"})
        /\ threads[t].job.file \in Ragged
        /\ Len(NextOf(FileOf(t), Offset(t), BlockSize)) < BlockSize
     \/ /\ Working(t, {"LineInput"})
        /\ LET kept == threads[t].carry
               text == kept \o NextOf(FileOf(t), Offset(t), BlockSize - Len(kept))
           IN  Len(text) = BlockSize /\ Newline \notin ToSet(text)
  /\ main' = "terminated"
  /\ UNCHANGED <<program, file, memory, queues, threads, complete, drained>>

-----------------------------------------------------------------------------
(* Workers that use what is in the blocks *)

\* A worker that reads entries with a Stream and changes them in place.
ChangeStream(t) ==
  /\ Working(t, {"Change"})
  /\ PassOn(t, threads[t].block.valid, "next")
  /\ memory' = WithEntries(t, [n \in DOMAIN EntriesOf(t) |-> EntriesOf(t)[n] + 1])
  /\ UNCHANGED <<program, file, complete, drained, main>>

\* CountRecords; the offset is its count.
CountRecords(t) ==
  /\ Working(t, {"CountRecords"})
  /\ CanProduce(t)
  /\ queues' = Produced(t, threads[t].block)
  /\ threads' = [threads EXCEPT ![t].at = "next", ![t].block.mem = NoMemory,
                                ![t].offset = @ + threads[t].block.valid]
  /\ UNCHANGED <<program, file, memory, complete, drained, main>>

Write(t) ==
  /\ Working(t, {"Write"})
  /\ PassOn(t, threads[t].block.valid, "next")
  /\ file' = [file EXCEPT ![threads[t].job.file] = @ \o EntriesOf(t)]
  /\ UNCHANGED <<program, memory, complete, drained, main>>

WriteAndRecycle(t) ==
  /\ Working(t, {"WriteAndRecycle"})
  /\ PassOn(t, BlockSize, "next")
  /\ file' = [file EXCEPT ![threads[t].job.file] = @ \o EntriesOf(t)]
  /\ UNCHANGED <<program, memory, complete, drained, main>>

\* It writes at its own offset, over what the file has.
PWriteAndRecycle(t) ==
  /\ Working(t, {"PWriteAndRecycle"})
  /\ CanProduce(t)
  /\ queues' = Produced(t, Block(threads[t].block.mem, BlockSize))
  /\ threads' = [threads EXCEPT ![t].at = "next", ![t].block.mem = NoMemory,
                                ![t].offset = @ + threads[t].block.valid]
  /\ file' = [file EXCEPT ![threads[t].job.file] =
                SubSeq(@, 1, Offset(t)) \o EntriesOf(t)
                  \o SubSeq(@, Offset(t) + Len(EntriesOf(t)) + 1, Len(@))]
  /\ UNCHANGED <<program, memory, complete, drained, main>>

Recycle(t) ==
  /\ Working(t, {"Recycler"})
  /\ PassOn(t, BlockSize, "next")
  /\ UNCHANGED <<program, file, memory, complete, drained, main>>

ThreadStep(t) ==
  \/ Consume(t) \/ PassPoison(t) \/ Throw(t)
  \/ ReadBlock(t) \/ WriteStream(t) \/ ReadLines(t)
  \/ ChangeStream(t) \/ CountRecords(t) \/ Write(t)
  \/ WriteAndRecycle(t) \/ PWriteAndRecycle(t) \/ Recycle(t)

OwnerStep ==
  AddWorker \/ AddSink \/ CompleteLoop \/ StartWait \/ Join \/ Drain \/ Clear

\* No round has more threads than this.
MaxThreads == 5

ChainNext == OwnerStep \/ \E t \in 1 .. MaxThreads : ThreadStep(t)

ChainFairness ==
  WF_chainVars(OwnerStep) /\ \A t \in 1 .. MaxThreads : WF_chainVars(ThreadStep(t))

ChainSpec == ChainInit /\ [][ChainNext]_chainVars /\ ChainFairness

-----------------------------------------------------------------------------
\* The entries that leave the first n workers of a round, when all goes well.
SourceOf(job) ==
  IF job.kind = "Stream" THEN job.entries ELSE file[job.file]

Changes(jobs) == Cardinality({n \in DOMAIN jobs : jobs[n].kind = "Change"})

Expected(jobs, n) ==
  [e \in DOMAIN SourceOf(jobs[1]) |-> SourceOf(jobs[1])[e] + Changes(SubSeq(jobs, 1, n))]

(***************************************************************************)
(* What a chain writes is what went into it, with the changes of the       *)
(* workers before the writer: whatever the speed of the threads, however   *)
(* the entries fall into blocks, with blocks that are used again and a     *)
(* chain that is used again.  A count is that of the entries               *)
(* (io.cc:14-75, stream.hh:35-57, line_input.cc:18-49, chain.cc:28-32).    *)
(***************************************************************************)
ChainDelivers ==
  main = "clear" =>
    \A n \in DOMAIN Round :
      /\ Round[n].kind \in Writers => file[Round[n].file] = Expected(Round, n)
      /\ Round[n].kind = "CountRecords" => threads[n].offset = Len(Expected(Round, n))

HeldBlocks == {t \in DOMAIN threads : threads[t].at \in {"work", "poison"}}

\* The places in the queues, and what is there.
InQueues == UNION {{q} \X DOMAIN queues[q] : q \in DOMAIN queues}

BlockAt(p) == queues[p[1]][p[2]]

(***************************************************************************)
(* Blocks are neither lost nor doubled: as many as the chain was made with *)
(* are in the queues and with the workers, each in one place, or have      *)
(* become poison - so that no Produce ever has to wait, and Wait does not  *)
(* take out more than there were (chain.cc:65-101, 125-160).               *)
(***************************************************************************)
BlocksAreKept ==
  /\ main # "abort"
  /\ main \in {"build", "join"} /\ queues # <<>> =>
       /\ Cardinality(InQueues) + Cardinality(HeldBlocks) = Config.blockCount
       /\ \A i, j \in InQueues :
            i # j /\ ~IsPoison(BlockAt(i)) => BlockAt(i).mem # BlockAt(j).mem
       /\ \A i \in InQueues : \A t \in HeldBlocks :
            ~IsPoison(BlockAt(i)) => BlockAt(i).mem # threads[t].block.mem
       /\ \A s, t \in HeldBlocks :
            s # t /\ ~IsPoison(threads[s].block) => threads[s].block.mem # threads[t].block.mem
       /\ \A t \in HeldBlocks : CanProduce(t)

(***************************************************************************)
(* Every chain comes to an end: the poison that its source makes reaches   *)
(* each of its workers and the owner; or a file that is not what the       *)
(* source takes ends the program (chain.cc:65-82, io.cc:19, 33,            *)
(* line_input.cc:39).                                                      *)
(***************************************************************************)
ChainEnds == <>(main \in {"done", "terminated", "refused"})

=============================================================================
