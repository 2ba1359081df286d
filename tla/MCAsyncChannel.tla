--------------------------- MODULE MCAsyncChannel ---------------------------
(* Instances of AsyncChannel for TLC, and its refinement of BoundedQueue.  *)
EXTENDS AsyncChannel, TLC

Queue == INSTANCE BoundedQueue WITH items <- buf, taken <- received

\* Send, Recv and Close, with their races, are a bounded first-in first-out
\* queue that takes nothing once it is closed and loses nothing by closing.
ImplementsQueue == Queue!Spec
=============================================================================
