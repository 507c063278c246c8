----------------------------- MODULE BoundedQueue -----------------------------
(***************************************************************************)
(* What a RingBuffer promises: a queue of at most Size values, oldest      *)
(* first, in which pushing onto a full queue drops the oldest value.       *)
(***************************************************************************)
EXTENDS Integers, Sequences

CONSTANTS Size, Values

VARIABLE items

Init == items = <<>>

Push(v) ==
  items' = IF Len(items) = Size THEN Append(Tail(items), v)
                                ELSE Append(items, v)

PopFront == items # <<>> /\ items' = Tail(items)

Clear == items' = <<>>

Next == (\E v \in Values : Push(v)) \/ PopFront \/ Clear

Spec == Init /\ [][Next]_items
=============================================================================
