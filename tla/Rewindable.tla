----------------------------- MODULE Rewindable -----------------------------
(***************************************************************************)
(* RewindableStream (util/stream/rewindable_stream.cc): a worker of a      *)
(* chain that keeps the blocks since a mark, so that its client can go     *)
(* back to the mark and read or write the entries again.                   *)
(*                                                                         *)
(* The blocks of the chain lie next to each other in one memory; an        *)
(* address is the number of an entry in it.  What goes out comes round     *)
(* again, filled with the next entries, as long as there are any.          *)
(***************************************************************************)
EXTENDS Integers, Sequences, FiniteSets, SequencesExt, FiniteSetsExt

CONSTANTS BlockCount, PerBlock,   \* block_count_, and the entries of a block
          Arrivals,               \* what may arrive: for each block, its entries
          NewEntry                 \* what the client writes

VARIABLES arriving,               \* blocks still to be filled, before the poison
          inQueue, outQueue,      \* in_, out_: blocks, or poison
          cells,                  \* the memory of the chain
          kept,                   \* blocks_
          keptIt,                 \* blocks_it_, from 1
          marked, current,        \* marked_, current_
          blockEnd,               \* block_end_
          hitPoison, poisoned,    \* hit_poison_, poisoned_
          sent,                   \* every block that has gone out, as it was
          view,                   \* the entries as the client knows them
          place, markPlace,       \* where the client is and where it marked
          client                  \* what the client is in

rewindVars == <<arriving, inQueue, outQueue, cells, kept, keptIt, marked, current,
                blockEnd, hitPoison, poisoned, sent, view, place, markPlace, client>>

NoMark == 0

PoisonBlock == [start |-> 0, valid |-> 0]

IsPoisonBlock(b) == b.start = 0

EndOf(b) == b.start + b.valid

BlockContents(mem, b) == SubSeq(mem, b.start, EndOf(b) - 1)

RewindInit ==
  /\ arriving \in Arrivals
  /\ inQueue = <<>>
  /\ outQueue = [n \in 1 .. BlockCount |->
                   [start |-> 1 + PerBlock * (n - 1), valid |-> PerBlock]]
  /\ cells = [a \in 1 .. BlockCount * PerBlock |-> 0]
  /\ kept = <<>>
  /\ keptIt = 1
  /\ marked = NoMark
  /\ current = NoMark
  /\ blockEnd = NoMark
  /\ hitPoison = FALSE
  /\ poisoned = FALSE
  /\ sent = <<>>
  /\ view = <<>>
  /\ place = 1
  /\ markPlace = 0
  /\ client = IF BlockCount < 2 THEN "refused" ELSE "append"

\* The rest of the chain: it reads a block, and fills it again.
Refill ==
  /\ outQueue # <<>> /\ arriving # <<>>
  /\ LET start   == Head(outQueue).start
         entries == Head(arriving)
     IN  /\ start # 0
         /\ inQueue' = Append(inQueue, [start |-> start, valid |-> Len(entries)])
         /\ cells' = [a \in DOMAIN cells |->
                        IF a \in start .. (start + Len(entries) - 1)
                        THEN entries[a - start + 1] ELSE cells[a]]
  /\ outQueue' = Tail(outQueue)
  /\ arriving' = Tail(arriving)
  /\ UNCHANGED <<kept, keptIt, marked, current, blockEnd, hitPoison, poisoned, sent,
                 view, place, markPlace, client>>

\* The poison of the source before, in a block of its own.
RefillPoison ==
  /\ outQueue # <<>> /\ arriving = <<>>
  /\ Head(outQueue).start # 0
  /\ PoisonBlock \notin ToSet(inQueue) /\ ~hitPoison
  /\ inQueue' = Append(inQueue, PoisonBlock)
  /\ outQueue' = Tail(outQueue)
  /\ UNCHANGED <<arriving, cells, kept, keptIt, marked, current, blockEnd, hitPoison,
                 poisoned, sent, view, place, markPlace, client>>

-----------------------------------------------------------------------------
\* Flush of the first n blocks.
Flush(blocks, n) ==
  /\ outQueue' = outQueue \o SubSeq(blocks, 1, n)
  /\ sent' = sent \o [b \in 1 .. n |-> BlockContents(cells, blocks[b])]
  /\ kept' = SubSeq(blocks, n + 1, Len(blocks))

\* AppendBlock, which passes over the blocks with nothing in them: here it is
\* too late for that, ...
TooManyBlocks ==
  /\ client = "append" /\ Len(kept) >= BlockCount
  /\ client' = "abort"
  /\ UNCHANGED <<arriving, inQueue, outQueue, cells, kept, keptIt, marked, current,
                 blockEnd, hitPoison, poisoned, sent, view, place, markPlace>>

\* ... there is no more, ...
NoMoreBlocks ==
  /\ \/ client = "append" /\ Len(kept) < BlockCount /\ hitPoison /\ UNCHANGED inQueue
     \/ /\ \/ client = "append" /\ Len(kept) < BlockCount /\ ~hitPoison
           \/ client = "append more"
        /\ inQueue # <<>> /\ IsPoisonBlock(Head(inQueue))
        /\ inQueue' = Tail(inQueue)
  /\ hitPoison' = TRUE
  /\ poisoned' = TRUE
  /\ client' = "out"
  /\ UNCHANGED <<arriving, outQueue, cells, kept, keptIt, marked, current, blockEnd,
                 sent, view, place, markPlace>>

\* ... or there is another.
NextBlock ==
  /\ \/ client = "append" /\ Len(kept) < BlockCount /\ ~hitPoison
     \/ client = "append more"
  /\ inQueue # <<>> /\ ~IsPoisonBlock(Head(inQueue))
  /\ LET b == Head(inQueue)
     IN  /\ kept' = Append(kept, b)
         /\ \/ /\ b.valid = 0
               /\ client' = "append more"
               /\ UNCHANGED <<current, blockEnd, keptIt, view>>
            \/ /\ b.valid > 0
               /\ client' = "out"
               /\ current' = b.start
               /\ blockEnd' = EndOf(b)
               /\ keptIt' = Len(kept) + 1
               /\ view' = view \o BlockContents(cells, b)
  /\ inQueue' = Tail(inQueue)
  /\ UNCHANGED <<arriving, outQueue, cells, marked, hitPoison, poisoned, sent, place,
                 markPlace>>

-----------------------------------------------------------------------------
(* What the client may do, as the assertions have it *)

Usable == client = "out" /\ ~poisoned

\* operator++.
Advance ==
  /\ Usable
  /\ place' = place + 1
  /\ \/ /\ current + 1 # blockEnd
        /\ current' = current + 1
        /\ UNCHANGED <<outQueue, kept, keptIt, blockEnd, sent, client>>
     \/ /\ current + 1 = blockEnd /\ keptIt < Len(kept)
        /\ keptIt' = keptIt + 1
        /\ current' = kept[keptIt + 1].start
        /\ blockEnd' = EndOf(kept[keptIt + 1])
        /\ UNCHANGED <<outQueue, kept, sent, client>>
     \/ /\ current + 1 = blockEnd /\ keptIt = Len(kept)
        /\ current' = current + 1
        /\ IF marked = NoMark
           THEN Flush(kept, keptIt) /\ keptIt' = 1
           ELSE keptIt' = keptIt + 1 /\ UNCHANGED <<outQueue, kept, sent>>
        /\ client' = "append"
        /\ UNCHANGED blockEnd
  /\ UNCHANGED <<arriving, inQueue, cells, marked, hitPoison, poisoned, view, markPlace>>

\* The client writes to the entry that it is at.
Put ==
  /\ Usable
  /\ cells[current] # NewEntry
  /\ cells' = [cells EXCEPT ![current] = NewEntry]
  /\ view' = [view EXCEPT ![place] = NewEntry]
  /\ UNCHANGED <<arriving, inQueue, outQueue, kept, keptIt, marked, current, blockEnd,
                 hitPoison, poisoned, sent, place, markPlace, client>>

Mark ==
  /\ Usable
  /\ marked' = current
  /\ Flush(kept, keptIt - 1)
  /\ keptIt' = 1
  /\ markPlace' = place
  /\ UNCHANGED <<arriving, inQueue, cells, current, blockEnd, hitPoison, poisoned, view,
                 place, client>>

Rewind ==
  /\ client = "out" /\ marked # NoMark
  /\ poisoned' = (poisoned /\ current = marked)
  /\ keptIt' = 1
  /\ current' = marked
  /\ blockEnd' = EndOf(kept[1])
  /\ place' = markPlace
  /\ UNCHANGED <<arriving, inQueue, outQueue, cells, kept, marked, hitPoison, sent, view,
                 markPlace, client>>

\* Mutant: the last block goes out as it came.
Untruncated(block, end) == block

\* SetValidSize of the last block.
Truncated(block, end) == [block EXCEPT !.valid = end - block.start]

\* Poison: the client is in the last block, and stops before its entry.
PoisonStream ==
  /\ Usable /\ keptIt = Len(kept)
  /\ Flush([kept EXCEPT ![keptIt] = Truncated(@, current)], keptIt)
  /\ keptIt' = 1
  /\ client' = "poison"
  /\ UNCHANGED <<arriving, inQueue, cells, marked, current, blockEnd, hitPoison, poisoned,
                 view, place, markPlace>>

\* It takes one more block to make it poison, unless it has had the poison.
SendPoisonBlock ==
  /\ client = "poison"
  /\ IF hitPoison THEN UNCHANGED inQueue
     ELSE inQueue # <<>> /\ inQueue' = Tail(inQueue)
  /\ outQueue' = Append(outQueue, PoisonBlock)
  /\ hitPoison' = TRUE
  /\ poisoned' = TRUE
  /\ client' = "done"
  /\ UNCHANGED <<arriving, cells, kept, keptIt, marked, current, blockEnd, sent, view,
                 place, markPlace>>

\* The destructor's Poison after the end was reached: without a mark there is
\* no block left and it returns, with one the assertion fails.
Destroy ==
  /\ client = "out" /\ poisoned
  /\ client' = IF kept = <<>> THEN "left" ELSE "assertion"
  /\ UNCHANGED <<arriving, inQueue, outQueue, cells, kept, keptIt, marked, current,
                 blockEnd, hitPoison, poisoned, sent, view, place, markPlace>>

RewindNext ==
  \/ Refill \/ RefillPoison
  \/ TooManyBlocks \/ NoMoreBlocks \/ NextBlock
  \/ Advance \/ Put \/ Mark \/ Rewind \/ PoisonStream \/ SendPoisonBlock \/ Destroy

RewindSpec == RewindInit /\ [][RewindNext]_rewindVars

-----------------------------------------------------------------------------
(***************************************************************************)
(* However the client goes forward, marks and goes back, the entry it is   *)
(* at is the one of its place in the stream, with what it last wrote       *)
(* there, though blocks go out and come back behind it; and what goes out  *)
(* is the stream up to where it stopped (rewindable_stream.cc:30-131).     *)
(***************************************************************************)
RewindKeepsPlace ==
  /\ Usable => cells[current] = view[place]
  /\ client = "done" => FlattenSeq(sent) = SubSeq(view, 1, place - 1)
  /\ client = "abort" => markPlace # 0

(***************************************************************************)
(* A client that may read is before the end of the block that it is in, as *)
(* assert(current_ < block_end_) has it (rewindable_stream.cc:53, 74).     *)
(* AppendBlock passes over empty blocks, but keeps them; operator++ does   *)
(* not when it comes to them again, after going back.                      *)
(***************************************************************************)
StreamInBlock == Usable => current < blockEnd

=============================================================================
