------------------------------- MODULE Stack --------------------------------
(***************************************************************************)
(* One destination stack while the blocks of a ProcessStack kernel add     *)
(* their hypotheses to it, and the PruneStack kernel that follows          *)
(* (Manager.cu:116-141, Stack.cu, CUDA/Lock.h).                            *)
(*                                                                         *)
(* A block is a single thread: blocks(stackSize, inputSize, inputSize),    *)
(* one thread each.  It makes a hypothesis for each of its target phrases, *)
(* takes the lock of the stack, adds the hypothesis and releases the lock. *)
(* Stack::add reads the collection and then changes it, two steps here, so *)
(* that only the lock keeps two adds apart.  The device runs at most       *)
(* MaxResident blocks at a time; a block that has started stays until it   *)
(* ends.                                                                   *)
(***************************************************************************)
EXTENDS StackOps, Sequences

CONSTANTS Blocks,                 \* the blocks of the kernel
          Hypotheses,             \* the hypotheses they make
          Offers,                 \* the hypotheses of each block, in order
          MaxResident             \* blocks the device runs at a time

\* A stack for none has no room, and the first add traps: see SortedVector.
ASSUME StackSizeAssumption == StackSize \in Nat \ {0}

ASSUME HypothesesAssumption ==
  \A h \in Hypotheses : h.score \in Int

\* Every iteration of the target phrase loop makes a hypothesis of its own.
ASSUME OffersAssumption ==
  /\ Offers \in [Blocks -> Seq(Hypotheses)]
  /\ \A b, c \in Blocks : \A i \in DOMAIN Offers[b], j \in DOMAIN Offers[c] :
       Offers[b][i] = Offers[c][j] => b = c /\ i = j

ASSUME ResidencyAssumption ==
  /\ IsFiniteSet(Blocks)
  /\ MaxResident \in Nat \ {0}

VARIABLES mutex,                  \* *m_lock.mutex
          coll,                   \* m_coll
          heap,                   \* hypotheses allocated and not deleted
          pc,                     \* where each block stands
          done,                   \* target phrases each block is through with
          seen,                   \* the collection as the block's add read it
          pruned                  \* whether PruneStack has run

vars == <<mutex, coll, heap, pc, done, seen, pruned>>

Steps == {"waiting", "new", "lock", "read", "write", "unlock", "done"}

Current(b) == Offers[b][done[b] + 1]

InCritical(b) == pc[b] \in {"read", "write", "unlock"}

Resident == {b \in Blocks : pc[b] \notin {"waiting", "done"}}

Init ==
  /\ mutex = 0
  /\ coll = {}
  /\ heap = {}
  /\ pc = [b \in Blocks |-> "waiting"]
  /\ done = [b \in Blocks |-> 0]
  /\ seen = [b \in Blocks |-> {}]
  /\ pruned = FALSE

-----------------------------------------------------------------------------
\* The loop over the target phrases: back for the next one, or the end.
NextIteration(b) == IF done[b] < Len(Offers[b]) THEN "new" ELSE "done"

Launch(b) ==
  /\ pc[b] = "waiting"
  /\ Cardinality(Resident) < MaxResident
  /\ pc' = [pc EXCEPT ![b] = NextIteration(b)]
  /\ UNCHANGED <<mutex, coll, heap, done, seen, pruned>>

New(b) ==
  /\ pc[b] = "new"
  /\ heap' = heap \union {Current(b)}
  /\ pc' = [pc EXCEPT ![b] = "lock"]
  /\ UNCHANGED <<mutex, coll, done, seen, pruned>>

\* Mutant: the compare-and-swap is not one step, or its result is not tested.
AcquireUnchecked(b) ==
  /\ pc[b] = "lock"
  /\ mutex' = 1
  /\ pc' = [pc EXCEPT ![b] = "read"]
  /\ UNCHANGED <<coll, heap, done, seen, pruned>>

\* The successful atomicCAS of Lock::lock; a failed one changes nothing.
Acquire(b) ==
  /\ pc[b] = "lock"
  /\ mutex = 0
  /\ mutex' = 1
  /\ pc' = [pc EXCEPT ![b] = "read"]
  /\ UNCHANGED <<coll, heap, done, seen, pruned>>

Read(b) ==
  /\ pc[b] = "read"
  /\ seen' = [seen EXCEPT ![b] = coll]
  /\ pc' = [pc EXCEPT ![b] = "write"]
  /\ UNCHANGED <<mutex, coll, heap, done, pruned>>

\* Mutant: the loser of a recombination is not deleted.
WriteLeaks(b) ==
  /\ pc[b] = "write"
  /\ coll' \in Add(seen[b], Current(b))
  /\ heap' = heap \ ({h \in seen[b] : h.key # Current(b).key} \ coll')
  /\ done' = [done EXCEPT ![b] = @ + 1]
  /\ pc' = [pc EXCEPT ![b] = "unlock"]
  /\ UNCHANGED <<mutex, seen, pruned>>

\* Whatever add drops, the new hypothesis included, it deletes.
Write(b) ==
  /\ pc[b] = "write"
  /\ coll' \in Add(seen[b], Current(b))
  /\ heap' = heap \ ((seen[b] \union {Current(b)}) \ coll')
  /\ done' = [done EXCEPT ![b] = @ + 1]
  /\ pc' = [pc EXCEPT ![b] = "unlock"]
  /\ UNCHANGED <<mutex, seen, pruned>>

\* Mutant: the lock is left taken.
ReleaseForgotten(b) ==
  /\ pc[b] = "unlock"
  /\ pc' = [pc EXCEPT ![b] = NextIteration(b)]
  /\ UNCHANGED <<mutex, coll, heap, done, seen, pruned>>

Release(b) ==
  /\ pc[b] = "unlock"
  /\ mutex' = 0
  /\ pc' = [pc EXCEPT ![b] = NextIteration(b)]
  /\ UNCHANGED <<coll, heap, done, seen, pruned>>

\* PruneStack, launched after cudaDeviceSynchronize.
PruneStack ==
  /\ \A b \in Blocks : pc[b] = "done"
  /\ ~pruned
  /\ coll' \in Prune(coll)
  /\ heap' = heap \ (coll \ coll')
  /\ pruned' = TRUE
  /\ UNCHANGED <<mutex, pc, done, seen>>

BlockStep(b) ==
  \/ Launch(b) \/ New(b) \/ Acquire(b) \/ Read(b) \/ Write(b) \/ Release(b)

Next == PruneStack \/ \E b \in Blocks : BlockStep(b)

(***************************************************************************)
(* Fairness: the device keeps running every resident block, and places a   *)
(* waiting one when there is room.  Weak fairness of the lock is enough:   *)
(* each block takes it a bounded number of times, so that a block that     *)
(* spins finds it free in the end.                                         *)
(***************************************************************************)
Fairness == WF_vars(PruneStack) /\ \A b \in Blocks : WF_vars(BlockStep(b))

SafetySpec == Init /\ [][Next]_vars

Spec == SafetySpec /\ Fairness

-----------------------------------------------------------------------------
\* The hypotheses whose add has taken effect.
Offered == UNION {{Offers[b][i] : i \in 1 .. done[b]} : b \in Blocks}

TypeOK ==
  /\ mutex \in {0, 1}
  /\ coll \subseteq Hypotheses
  /\ heap \subseteq Hypotheses
  /\ pc \in [Blocks -> Steps]
  /\ done \in [Blocks -> Nat]
  /\ \A b \in Blocks :
       /\ done[b] <= Len(Offers[b])
       /\ pc[b] \in {"new", "lock", "read", "write"} => done[b] < Len(Offers[b])
  /\ seen \in [Blocks -> SUBSET Hypotheses]
  /\ pruned \in BOOLEAN

(***************************************************************************)
(* At most one block is between lock and unlock, and the mutex is taken    *)
(* exactly then (Manager.cu:128-133, Lock.h:29-34).                        *)
(***************************************************************************)
MutualExclusion ==
  /\ \A b, c \in Blocks : InCritical(b) /\ InCritical(c) => b = c
  /\ mutex = 1 <=> \E b \in Blocks : InCritical(b)

\* What makes the promise below inductive: an add changes the collection that
\* it read.
SeenIsFresh == \A b \in Blocks : pc[b] = "write" => seen[b] = coll

(***************************************************************************)
(* Memory: the live hypotheses are those of the stack and those whose      *)
(* block is still about to add them, so that none leaks, none the stack    *)
(* holds is deleted, and none is deleted twice (Stack.cu:70-77, 113-116).  *)
(***************************************************************************)
Holding(b) == pc[b] \in {"lock", "read", "write"}

HeapIsExact ==
  heap = coll \union {Current(b) : b \in {c \in Blocks : Holding(c)}}

(***************************************************************************)
(* The stack never outgrows what its constructor reserved: on the device   *)
(* Vector::reserve cannot grow, it traps (Vector.h:94-103, Stack.cu:16).   *)
(***************************************************************************)
WithinCapacity == Cardinality(coll) <= Tolerance

(***************************************************************************)
(* However the blocks interleave and however often the stack is pruned, it *)
(* holds a hypothesis that scores as well as the best one ever added.      *)
(***************************************************************************)
BestKept == \A h \in Offered : \E g \in coll : g.score >= h.score

(***************************************************************************)
(* The stack keeps its promise to the search: module Beam.                 *)
(***************************************************************************)
ABeam == INSTANCE Beam WITH offered <- Offered, kept <- coll

ImplementsBeam == ABeam!Spec

(***************************************************************************)
(* The kernel ends and the stack gets pruned: no block spins forever, even *)
(* when the device cannot run them all at once (Manager.cu:128-133, 227).  *)
(***************************************************************************)
Terminates == <>pruned

=============================================================================
