---------------------------- MODULE BoundedQueue ----------------------------
(***************************************************************************)
(* What PCQueue (util/pcqueue.hh) promises: a queue of limited length,     *)
(* first in, first out.                                                    *)
(***************************************************************************)
EXTENDS Naturals, Sequences

CONSTANTS Values, QueueSize

VARIABLE items

Init == items = <<>>

Put(v) == Len(items) < QueueSize /\ items' = Append(items, v)

Get == items # <<>> /\ items' = Tail(items)

Next == Get \/ \E v \in Values : Put(v)

Spec == Init /\ [][Next]_items

=============================================================================
