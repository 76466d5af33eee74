--------------------------- MODULE BoundedBuffer ---------------------------
(***************************************************************************)
(* What the picture queue promises: a buffer of at most Capacity pictures  *)
(* from which they leave in the order they came.                           *)
(***************************************************************************)
EXTENDS Naturals, Sequences

CONSTANTS Capacity, Items

VARIABLE buffer

Init == buffer = <<>>

Enter(x) ==
  /\ Len(buffer) < Capacity
  /\ buffer' = Append(buffer, x)

Leave ==
  /\ buffer # <<>>
  /\ buffer' = Tail(buffer)

Next == Leave \/ \E x \in Items : Enter(x)

Spec == Init /\ [][Next]_buffer
=============================================================================
