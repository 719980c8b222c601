---------------------------- MODULE SortedVector ----------------------------
(***************************************************************************)
(* The collection of a hypothesis stack as the code keeps it: a vector in  *)
(* the order of the keys (Set.h, Vector.h) that is searched by bisection   *)
(* and shifted at each insertion, and that prune rebuilds by way of an     *)
(* array in the order of the scores (Stack.cu, Array.h).                   *)
(*                                                                         *)
(* One thread at a time runs this, under the lock of the stack.  A step is *)
(* an iteration of a loop or a straight piece of code between two loops.   *)
(* The keys are numbers: only their order matters.                         *)
(***************************************************************************)
EXTENDS StackOps

CONSTANTS Hypotheses,             \* records with the fields key and score
          Junk                    \* what a cell holds before it is written

VARIABLES pool,                   \* hypotheses not yet added
          freed,                  \* hypotheses deleted
          vec,                    \* m_coll and sortedHypos: cells and size
          pc,                     \* the loop or the piece of code to run next
          job,                    \* what the search and the insertion are for
          adding,                 \* the hypothesis that add was called with
          k,                      \* i, in the loops of prune
          hypo,                   \* sought, and the val to be inserted
          l, r, found, ind,       \* upperBound: l, r, ret.first, ret.second
          dest                    \* Shift: destInd

search == <<l, r, found, ind>>

vectorVars == <<pool, freed, vec, pc, job, adding, k, hypo, search, dest>>

Cells == 0 .. (Tolerance - 1)

Empty == [cells |-> [i \in Cells |-> Junk], size |-> 0]

\* The vector that the search and the insertion work on.
Target == IF job = "sort" THEN "sorted" ELSE "coll"

ByKey(a, b) == a.key < b.key

\* Mutant: the worst come first.
ByScoreAscending(a, b) == a.score < b.score

\* HypothesisFutureScoreOrderer.
ByScore(a, b) == a.score > b.score

Before(a, b) == IF job = "sort" THEN ByScore(a, b) ELSE ByKey(a, b)

VectorInit ==
  /\ pool = Hypotheses
  /\ freed = {}
  /\ vec = [coll |-> Empty, sorted |-> Empty]
  /\ pc = "idle"
  /\ job = "none"
  /\ adding = {}
  /\ k = 0
  /\ hypo = Junk
  /\ l = 0 /\ r = -1 /\ found = FALSE /\ ind = 0
  /\ dest = 0

-----------------------------------------------------------------------------
(* upperBound: Vector.h and Array.h have the same. *)

\* The start of a search for h in a vector of that size, for that purpose.
Enter(purpose, h, size) ==
  /\ job' = purpose
  /\ hypo' = h
  /\ l' = 0
  /\ r' = size - 1
  /\ found' = FALSE
  /\ ind' = size
  /\ pc' = "search"

Above(x) == x + 1

\* Mutant: the index is not moved along.
IndexForgotten(x) == ind

Index(x) == IF x < ind THEN x ELSE ind

Search ==
  /\ pc = "search" /\ ~found /\ r >= l
  /\ LET x == (l + r) \div 2
         obj == vec[Target].cells[x]
     IN  \/ /\ Before(hypo, obj)
            /\ r' = x - 1
            /\ ind' = Index(x)
            /\ UNCHANGED <<l, found>>
         \/ /\ Before(obj, hypo)
            /\ l' = Above(x)
            /\ UNCHANGED <<r, found, ind>>
         \/ /\ ~Before(hypo, obj) /\ ~Before(obj, hypo)
            /\ found' = TRUE
            /\ ind' = x
            /\ UNCHANGED <<l, r>>
  /\ UNCHANGED <<pool, freed, vec, pc, job, adding, k, hypo, dest>>

\* add recombines when it has found the key; Set::insert asserts that it has not.
SearchEnds ==
  /\ pc = "search" /\ (found \/ r < l)
  /\ pc' = CASE job = "add" /\ found -> "recombine"
             [] job = "refill" /\ found -> "assert"
             [] OTHER -> "insert"
  /\ UNCHANGED <<pool, freed, vec, job, adding, k, hypo, search, dest>>

-----------------------------------------------------------------------------
(* Stack::add *)

Full(size) == size >= Tolerance

\* Stack::prune returns at once from a stack that is not full.  Otherwise it
\* sorts the hypotheses, the first one first; a stack for none has none.
StartPrune ==
  /\ k' = 0
  /\ IF vec.coll.size = 0
     THEN pc' = "delete" /\ UNCHANGED <<job, hypo, search>>
     ELSE Enter("sort", vec.coll.cells[0], 0)

AddHypo(h) ==
  /\ pc = "idle"
  /\ h \in pool
  /\ pool' = pool \ {h}
  /\ adding' = {h}
  /\ \/ /\ Full(vec.coll.size)
        /\ StartPrune
     \/ /\ ~Full(vec.coll.size)
        /\ Enter("add", h, vec.coll.size)
        /\ UNCHANGED k
  /\ UNCHANGED <<freed, vec, dest>>

Return ==
  /\ pc' = "idle"
  /\ job' = "none"
  /\ adding' = {}

RecombineHypo ==
  /\ pc = "recombine"
  /\ LET other == vec.coll.cells[ind]
     IN  IF hypo.score > other.score
         THEN /\ vec' = [vec EXCEPT !.coll.cells[ind] = hypo]
              /\ freed' = freed \union {other}
         ELSE /\ freed' = freed \union {hypo}
              /\ UNCHANGED vec
  /\ Return
  /\ UNCHANGED <<pool, k, hypo, search, dest>>

-----------------------------------------------------------------------------
(* insert: Vector.h and Array.h. *)

\* The stack's vector cannot grow on the device, it traps; the array can.
Traps == Target = "coll" /\ vec.coll.size >= Tolerance

Insert ==
  /\ pc = "insert"
  /\ \/ /\ Traps
        /\ pc' = "trap"
        /\ UNCHANGED <<vec, dest>>
     \/ /\ ~Traps
        /\ vec' = [vec EXCEPT ![Target].size = @ + 1]
        /\ dest' = vec[Target].size
        /\ pc' = "shift"
  /\ UNCHANGED <<pool, freed, job, adding, k, hypo, search>>

ShiftGoesOn == dest - 1 >= ind

Shift ==
  /\ pc = "shift" /\ ShiftGoesOn
  /\ vec' = [vec EXCEPT ![Target].cells[dest] = vec[Target].cells[dest - 1]]
  /\ dest' = dest - 1
  /\ UNCHANGED <<pool, freed, pc, job, adding, k, hypo, search>>

\* The value is stored, which ends an add, or an iteration of a loop of prune.
Stored == [vec EXCEPT ![Target].cells[ind] = hypo]

StoreAdded ==
  /\ pc = "shift" /\ ~ShiftGoesOn
  /\ job = "add"
  /\ vec' = Stored
  /\ Return
  /\ UNCHANGED <<pool, freed, k, hypo, search, dest>>

-----------------------------------------------------------------------------
(* Stack::prune *)

\* PruneStack, from the host.
PruneStack ==
  /\ pc = "idle"
  /\ vec.coll.size >= StackSize
  /\ StartPrune
  /\ UNCHANGED <<pool, freed, vec, adding, dest>>

\* The next hypothesis into score order; after the last, the stack is cleared
\* and the best one is put back.
StoreSorted ==
  /\ pc = "shift" /\ ~ShiftGoesOn
  /\ job = "sort"
  /\ \/ /\ k + 1 < vec.coll.size
        /\ vec' = Stored
        /\ k' = k + 1
        /\ Enter("sort", vec.coll.cells[k + 1], vec.sorted.size)
     \/ /\ k + 1 >= vec.coll.size
        /\ vec' = [Stored EXCEPT !.coll = Empty]
        /\ k' = 0
        /\ Enter("refill", Stored.sorted.cells[0], 0)
  /\ UNCHANGED <<pool, freed, adding, dest>>

StoreRefilled ==
  /\ pc = "shift" /\ ~ShiftGoesOn
  /\ job = "refill"
  /\ vec' = Stored
  /\ k' = k + 1
  /\ \/ /\ k' < StackSize
        /\ Enter("refill", vec.sorted.cells[k'], vec.coll.size)
     \/ /\ k' >= StackSize
        /\ pc' = "delete"
        /\ UNCHANGED <<job, hypo, search>>
  /\ UNCHANGED <<pool, freed, adding, dest>>

Dropped == {vec.sorted.cells[i] : i \in StackSize .. (vec.sorted.size - 1)}

\* The rest is deleted; the array goes out of scope; add goes on, if it is what
\* called prune.
Delete ==
  /\ pc = "delete"
  /\ freed' = freed \union Dropped
  /\ vec' = [vec EXCEPT !.sorted = Empty]
  /\ \/ /\ adding = {}
        /\ Return
        /\ UNCHANGED <<hypo, search>>
     \/ /\ \E h \in adding : Enter("add", h, vec.coll.size)
        /\ UNCHANGED adding
  /\ UNCHANGED <<pool, k, dest>>

Work ==
  \/ Search \/ SearchEnds \/ RecombineHypo \/ Insert \/ Shift
  \/ StoreAdded \/ StoreSorted \/ StoreRefilled \/ Delete

VectorNext == PruneStack \/ Work \/ \E h \in Hypotheses : AddHypo(h)

VectorSafety == VectorInit /\ [][VectorNext]_vectorVars

\* Fairness: the thread that is in add or prune goes on.
VectorSpec == VectorSafety /\ WF_vectorVars(Work)

-----------------------------------------------------------------------------
\* The cells of a vector that hold an element: a shift leaves one out, which the
\* value will fill.
Hole(v) == IF pc = "shift" /\ v = Target THEN {dest} ELSE {}

Filled(v) == (0 .. (vec[v].size - 1)) \ Hole(v)

Elements(v) == {vec[v].cells[i] : i \in Filled(v)}

(***************************************************************************)
(* The vector is in the strict order of the keys and the array in that of  *)
(* the scores, at every iteration of every loop, the hole that a shift     *)
(* moves left out (Set.h:38-50, Array.h:119-203, Vector.h:144-207).        *)
(***************************************************************************)
Ordered ==
  /\ \A i, j \in Filled("coll") :
       i < j => ByKey(vec.coll.cells[i], vec.coll.cells[j])
  /\ \A i, j \in Filled("sorted") :
       i < j => ~ByScore(vec.sorted.cells[j], vec.sorted.cells[i])

(***************************************************************************)
(* The bisection tells whether the key is there, and the index it gives is *)
(* that of the key or the one place to insert it (Vector.h:173-207).       *)
(***************************************************************************)
SearchIsRight ==
  pc = "search" /\ (found \/ r < l) =>
    LET v == vec[Target]
    IN  /\ found <=> \E i \in Filled(Target) :
                       /\ ~Before(hypo, v.cells[i])
                       /\ ~Before(v.cells[i], hypo)
        /\ \A i \in Filled(Target) :
             /\ i < ind => ~Before(hypo, v.cells[i])
             /\ i > ind => ~Before(v.cells[i], hypo)
             /\ i = ind => ~Before(v.cells[i], hypo)

(***************************************************************************)
(* Neither the assertion of Set::insert nor the trap of Vector::reserve is *)
(* reached: prune puts back no key twice, and add makes room in time       *)
(* (Set.h:42-44, Vector.h:94-103, Stack.cu:36, 107-111).                   *)
(***************************************************************************)
NeverFails == pc \notin {"assert", "trap"}

(***************************************************************************)
(* Between calls each hypothesis that was added is either in the vector or *)
(* deleted, and never both, though prune moves all of them out and some of *)
(* them back, and add replaces a cell in place (Stack.cu:60-83, 104-116).  *)
(***************************************************************************)
NothingLost ==
  pc = "idle" =>
    /\ Hypotheses \ pool = Elements("coll") \union freed
    /\ Elements("coll") \intersect freed = {}

(***************************************************************************)
(* The vector is right in all of these at once: in order, searched without *)
(* a miss, with no assertion or trap reached, and with nothing lost or     *)
(* freed that it holds (Vector.h:144-207, Set.h:36-52, Stack.cu:33-117).   *)
(***************************************************************************)
VectorIsRight == Ordered /\ SearchIsRight /\ NeverFails /\ NothingLost

(***************************************************************************)
(* What the vector holds changes as the set of module StackOps does.  While*)
(* prune puts hypotheses back, what counts is the sorted array; it is the  *)
(* vector again once the rest is deleted.                                  *)
(***************************************************************************)
ASet == INSTANCE HypothesisSet
          WITH coll <- IF job = "refill" THEN Elements("sorted")
                                         ELSE Elements("coll")

ImplementsSet == ASet!Spec

(***************************************************************************)
(* Every call returns: the bisection and the shift end (Vector.h:173-207,  *)
(* 323-337).                                                               *)
(***************************************************************************)
Returns == pc # "idle" ~> pc = "idle"

=============================================================================
