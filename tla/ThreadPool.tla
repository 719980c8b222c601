----------------------------- MODULE ThreadPool -----------------------------
(***************************************************************************)
(* A pool of threads and the queue between them (util/thread_pool.hh over  *)
(* util/pcqueue.hh).                                                       *)
(*                                                                         *)
(* The queue is a ring of cells, two semaphores that count the empty cells *)
(* and the used ones, and a mutex for each end.                            *)
(*                                                                         *)
(* A call has three steps: it takes its semaphore, then under the mutex it *)
(* copies the value and steps on, then it posts the other semaphore. A     *)
(* copy does not throw, and a wait that a signal interrupts is repeated.   *)
(* Nor does a handler: the program aborts if one does.                     *)
(***************************************************************************)
EXTENDS Integers, FiniteSets, Sequences, SequencesExt

CONSTANTS Callers,                \* the threads
          QueueSize,
          NoValue

VARIABLES empty, used,            \* empty_, used_
          storage,                \* storage_
          produceAt, consumeAt,   \* produce_at_, consume_at_: indices
          at,                     \* where each thread is
          value                   \* its val or out

queueVars == <<empty, used, storage, produceAt, consumeAt, at, value>>

Slots == 0 .. (QueueSize - 1)

\* Mutant: one cell too many is said to be empty.
OneTooMany == QueueSize + 1

EmptyAtFirst == QueueSize

QueueInit ==
  /\ empty = EmptyAtFirst
  /\ used = 0
  /\ storage = [c \in Slots |-> NoValue]
  /\ produceAt = 0
  /\ consumeAt = 0
  /\ at = [t \in Callers |-> "out"]
  /\ value = [t \in Callers |-> NoValue]

\* ++ and back to the start at the end.
NextCell(c) == IF c + 1 = QueueSize THEN 0 ELSE c + 1

-----------------------------------------------------------------------------
(* Produce *)

WaitEmpty(t, v) ==
  /\ at[t] = "out" /\ empty > 0
  /\ empty' = empty - 1
  /\ at' = [at EXCEPT ![t] = "write"]
  /\ value' = [value EXCEPT ![t] = v]
  /\ UNCHANGED <<used, storage, produceAt, consumeAt>>

WriteCell(t) ==
  /\ at[t] = "write"
  /\ storage' = [storage EXCEPT ![produceAt] = value[t]]
  /\ produceAt' = NextCell(produceAt)
  /\ at' = [at EXCEPT ![t] = "posting"]
  /\ UNCHANGED <<empty, used, consumeAt, value>>

PostUsed(t) ==
  /\ at[t] = "posting"
  /\ used' = used + 1
  /\ at' = [at EXCEPT ![t] = "out"]
  /\ value' = [value EXCEPT ![t] = NoValue]
  /\ UNCHANGED <<empty, storage, produceAt, consumeAt>>

-----------------------------------------------------------------------------
(* Consume *)

WaitUsed(t) ==
  /\ at[t] = "out" /\ used > 0
  /\ used' = used - 1
  /\ at' = [at EXCEPT ![t] = "read"]
  /\ UNCHANGED <<empty, storage, produceAt, consumeAt, value>>

ReadCell(t) ==
  /\ at[t] = "read"
  /\ value' = [value EXCEPT ![t] = storage[consumeAt]]
  /\ consumeAt' = NextCell(consumeAt)
  /\ at' = [at EXCEPT ![t] = "freeing"]
  /\ UNCHANGED <<empty, used, storage, produceAt>>

\* The call returns the value.
PostEmpty(t) ==
  /\ at[t] = "freeing"
  /\ empty' = empty + 1
  /\ at' = [at EXCEPT ![t] = "got"]
  /\ UNCHANGED <<used, storage, produceAt, consumeAt, value>>

\* The rest of a call that has its semaphore.
QueueStep(t) == WriteCell(t) \/ PostUsed(t) \/ ReadCell(t) \/ PostEmpty(t)

-----------------------------------------------------------------------------
At(where) == {t \in Callers : at[t] = where}

\* The cells that have been written and not yet read, oldest first.
Contents ==
  [n \in 1 .. (used + Cardinality(At("posting")) + Cardinality(At("read"))) |->
     storage[(consumeAt + n - 1) % QueueSize]]

-----------------------------------------------------------------------------
(***************************************************************************)
(* The pool of util/thread_pool.hh over this queue.                        *)
(* Clients call Produce; then the destructor sends each worker a poison    *)
(* and joins them. A worker ends at the first poison it gets.              *)
(***************************************************************************)

CONSTANTS Workers, Clients, Main, \* the Callers; Main is the destructor's
          Requests,               \* what each client asks for, in order
          Poison

ASSUME CallersAssumption ==
  /\ Callers = Workers \union Clients \union {Main}
  /\ IsFiniteSet(Callers)

ASSUME QueueSizeAssumption == QueueSize \in Nat \ {0}

ASSUME RequestsAssumption ==
  \A c \in Clients : Requests[c] \in Seq(ToSet(Requests[c]))

VARIABLES asked,                  \* how many requests each client has made
          poisons,                \* the loop of the destructor
          handled,                \* what the workers have handled
          ended                   \* the workers that have returned

poolVars == <<queueVars, asked, poisons, handled, ended>>

PoolInit ==
  /\ QueueInit
  /\ asked = [c \in Clients |-> 0]
  /\ poisons = 0
  /\ handled = <<>>
  /\ ended = {}

Ask(c) ==
  /\ asked[c] < Len(Requests[c])
  /\ WaitEmpty(c, Requests[c][asked[c] + 1])
  /\ asked' = [asked EXCEPT ![c] = @ + 1]
  /\ UNCHANGED <<poisons, handled, ended>>

\* Mutant: the first worker is not counted.
OnePoisonLess == Cardinality(Workers) - 1

NumPoisons == Cardinality(Workers)

\* ~ThreadPool, once the clients are done with the pool.
SendPoison ==
  /\ \A c \in Clients : at[c] = "out" /\ asked[c] = Len(Requests[c])
  /\ poisons < NumPoisons
  /\ WaitEmpty(Main, Poison)
  /\ poisons' = poisons + 1
  /\ UNCHANGED <<asked, handled, ended>>

StartConsume(w) ==
  /\ w \notin ended
  /\ WaitUsed(w)
  /\ UNCHANGED <<asked, poisons, handled, ended>>

Handle(w) ==
  /\ at[w] = "got"
  /\ at' = [at EXCEPT ![w] = "out"]
  /\ value' = [value EXCEPT ![w] = NoValue]
  /\ \/ /\ value[w] = Poison
        /\ ended' = ended \union {w}
        /\ UNCHANGED handled
     \/ /\ value[w] # Poison
        /\ handled' = Append(handled, value[w])
        /\ UNCHANGED ended
  /\ UNCHANGED <<empty, used, storage, produceAt, consumeAt, asked, poisons>>

Inside(t) == QueueStep(t) /\ UNCHANGED <<asked, poisons, handled, ended>>

PoolNext ==
  \/ SendPoison
  \/ \E c \in Clients : Ask(c)
  \/ \E w \in Workers : StartConsume(w) \/ Handle(w)
  \/ \E t \in Callers : Inside(t)

\* Every thread that can go on does.
PoolFairness ==
  /\ WF_poolVars(SendPoison)
  /\ \A c \in Clients : WF_poolVars(Ask(c))
  /\ \A w \in Workers : WF_poolVars(StartConsume(w) \/ Handle(w))
  /\ \A t \in Callers : WF_poolVars(Inside(t))

PoolSpec == PoolInit /\ [][PoolNext]_poolVars /\ PoolFairness

-----------------------------------------------------------------------------
(***************************************************************************)
(* The ring with its semaphores is a queue of limited length that is first *)
(* in, first out, with several threads at either end: a cell is written    *)
(* only after it was read, and read only after it was written              *)
(* (pcqueue.hh:92-124).                                                    *)
(***************************************************************************)
Fifo == INSTANCE BoundedQueue
          WITH items <- Contents,
               Values <- (UNION {ToSet(Requests[c]) : c \in Clients}) \union {Poison}

ImplementsQueue == Fifo!Init /\ [][Fifo!Next]_Contents

\* Every request, as often as it was asked for.
AllRequests == FoldLeft(LAMBDA all, c : all \o Requests[c], <<>>, SetToSeq(Clients))

Occurrences(seq, r) == Cardinality({n \in DOMAIN seq : seq[n] = r})

(***************************************************************************)
(* The destructor returns: every worker gets a poison, and by then every   *)
(* request has been handled, once (thread_pool.hh:24-41, 68-75).           *)
(***************************************************************************)
PoolDrains ==
  <>(/\ ended = Workers
     /\ at[Main] = "out"
     /\ \A r \in ToSet(AllRequests) :
          Occurrences(handled, r) = Occurrences(AllRequests, r))

=============================================================================
