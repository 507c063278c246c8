------------------------------ MODULE RingBuffer ------------------------------
(***************************************************************************)
(* RingBuffer<T, Size>, which holds the last processing times and sent     *)
(* timestamps of an output: an array with the index to write next, the     *)
(* index of the oldest value and a flag that tells full from empty.        *)
(***************************************************************************)
EXTENDS Integers, Sequences

CONSTANTS
  Size,    \* the capacity, a template parameter
  Values   \* the values pushed

ASSUME SizeAssumption == Size \in Nat \ {0}

VARIABLES
  buffer,  \* the array, its elements arbitrary before they are written
  head,    \* where the next value is written
  tail,    \* where the oldest value is
  full     \* head = tail means full, not empty

vars == <<buffer, head, tail, full>>

Indices == 0 .. Size - 1

TypeOK ==
  /\ buffer \in [Indices -> Values]
  /\ head \in Indices
  /\ tail \in Indices
  /\ full \in BOOLEAN

Init ==
  /\ buffer \in [Indices -> Values]
  /\ head = 0
  /\ tail = 0
  /\ full = FALSE

-----------------------------------------------------------------------------

(* empty(), size(), operator[], front() and back()                         *)
Empty == ~full /\ head = tail

Count == IF full THEN Size
         ELSE IF head >= tail THEN head - tail ELSE Size + head - tail

At(i) == buffer[IF tail + i >= Size THEN tail + i - Size ELSE tail + i]

Front == buffer[tail]

Back == buffer[IF head - 1 < 0 THEN head - 1 + Size ELSE head - 1]

-----------------------------------------------------------------------------

Push(v) ==
  /\ buffer' = [buffer EXCEPT ![head] = v]
  /\ tail' = IF full THEN (tail + 1) % Size ELSE tail
  /\ head' = (head + 1) % Size
  /\ full' = (head' = tail')

PopFront ==
  /\ ~Empty
  /\ full' = FALSE
  /\ tail' = (tail + 1) % Size
  /\ UNCHANGED <<buffer, head>>

Clear ==
  /\ full' = FALSE
  /\ head' = 0
  /\ tail' = 0
  /\ UNCHANGED buffer

Next == (\E v \in Values : Push(v)) \/ PopFront \/ Clear

Spec == Init /\ [][Next]_vars

-----------------------------------------------------------------------------
(* Properties.                                                             *)

(* The values in the buffer, oldest first.                                 *)
Contents == [i \in 1 .. Count |-> At(i - 1)]

Queue == INSTANCE BoundedQueue WITH items <- Contents

(* The ring buffer is a queue that forgets its oldest value when it is     *)
(* full: no push, pop or clear loses, repeats or reorders another value.   *)
IsBoundedQueue == Queue!Spec

(* The accessors agree with the queue: a full buffer is not taken for an   *)
(* empty one, front() is the oldest value and back() the newest.           *)
AccessorsAgree ==
  /\ Empty <=> Contents = <<>>
  /\ ~Empty => Front = Contents[1] /\ Back = Contents[Count]

=============================================================================
