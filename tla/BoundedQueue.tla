---------------------------- MODULE BoundedQueue ----------------------------
(***************************************************************************)
(* What a channel promises: values are taken in the order in which they    *)
(* were put, each once; at most cap of them wait in between; none is put   *)
(* after the channel is closed, and those put before can still be taken.   *)
(***************************************************************************)
EXTENDS Naturals, Sequences

CONSTANTS Value, Caps

VARIABLES
  cap,
  items,    \* values put and not yet taken
  taken,    \* all values taken
  closed

Init == cap \in Caps /\ items = <<>> /\ taken = <<>> /\ closed = FALSE

Put ==
  /\ ~closed /\ Len(items) < cap
  /\ \E v \in Value : items' = Append(items, v)
  /\ UNCHANGED <<cap, taken, closed>>

Take ==
  /\ items # <<>>
  /\ items' = Tail(items)
  /\ taken' = Append(taken, Head(items))
  /\ UNCHANGED <<cap, closed>>

\* A taker makes room for a value in the same step.
PutAndTake ==
  /\ ~closed
  /\ \E v \in Value :
       /\ items' = Tail(Append(items, v))
       /\ taken' = Append(taken, Head(Append(items, v)))
  /\ UNCHANGED <<cap, closed>>

Close == closed' = TRUE /\ UNCHANGED <<cap, items, taken>>

Next == Put \/ Take \/ PutAndTake \/ Close

Spec == Init /\ [][Next]_<<cap, items, taken, closed>>
=============================================================================
