---------------------------- MODULE MCGlvmFrames ----------------------------
(* Instances of GlvmFrames for TLC.                                        *)
EXTENDS GlvmFrames, TLC

\* The refinement mapping: the activations that CallClosure put aside, each
\* below the native call it runs in, make one stack with the running one.
Entries(fs) == [i \in 1 .. Len(fs) |->
                  [kind |-> "fn", handlers |-> Len(heap[fs[i]].trys)]]
NativeEntry == [kind |-> "native", handlers |-> 0]
OneStack ==
  IF pc \in {"done", "released"} THEN <<>>
  ELSE FlattenSeq([a \in 1 .. Len(saved) |-> Append(Entries(saved[a]), NativeEntry)])
       \o Entries(frames)
       \o (IF pc = "native" THEN <<NativeEntry>> ELSE <<>>)

Calls == INSTANCE CallStack WITH stack <- OneStack, result <- outcome

\* execute(), doCall, doReturn, handleTry and CallClosure, with their lists
\* of frames put aside on the Go stack, behave as one stack on which an
\* error never passes a native call.
ImplementsCallStack == Calls!Spec

Symmetry == Permutations(FrameIds) \cup Permutations(ClosureIds)
=============================================================================
