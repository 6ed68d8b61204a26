---------------------------- MODULE BoundedQueue ----------------------------
(***************************************************************************)
(* What a ring of src/common/spsc_ring.hpp promises to the two threads     *)
(* that share it: a FIFO queue of at most Capacity items.  A call that     *)
(* returns false (full or empty) is a stuttering step.  out is the item    *)
(* that the last successful try_pop handed to the consumer.                *)
(***************************************************************************)
EXTENDS Naturals, Sequences

CONSTANTS Items,      \* values of the element type T
          Capacity,   \* CapacityPow2
          NoItem      \* "nothing popped yet"

VARIABLES queue, out

vars == <<queue, out>>

Init ==
  /\ queue = <<>>
  /\ out = NoItem

\* try_push returned true.
Push(x) ==
  /\ Len(queue) < Capacity
  /\ queue' = Append(queue, x)
  /\ out' = out

\* try_pop returned true.
Pop ==
  /\ queue # <<>>
  /\ out' = Head(queue)
  /\ queue' = Tail(queue)

Next == Pop \/ \E x \in Items : Push(x)

Spec == Init /\ [][Next]_vars
=============================================================================
