----------------------------- MODULE GlvmFrames -----------------------------
(***************************************************************************)
(* Control state of the GLVM interpreter (internal/vm/vm.go): the stack of *)
(* call frames with their try handlers, the slices of captured values that *)
(* closures share with their frames, the activations of execute() that     *)
(* CallClosure nests inside a native call, and the MaxOps watchdog.        *)
(*                                                                         *)
(* The instruction that execute() fetches is chosen nondeterministically   *)
(* each time: the model stands for every program.  Instruction pointers    *)
(* are therefore left out (a handler is known by its stamp) and a register *)
(* holds one of a few data values.                                         *)
(***************************************************************************)
EXTENDS Naturals, Sequences, SequencesExt

CONSTANTS
  FrameIds,     \* identities of *Frame; bounds the frames alive at one time
  ClosureIds,   \* identities of []Value capture slices ever allocated
  Regs,         \* registers of a frame
  Param,        \* the register a call passes its argument in
  Data,         \* data values other than null and error strings
  Null, Err,    \* Null() and the string bound by a catch
  NoClosure,    \* the slice of a function without captures (nil)
  NoReg,        \* the frame awaits no result
  MaxUps,       \* captures of one closure
  MaxTrys,      \* TRY instructions executed in one run
  MaxOps        \* VM.MaxOps, 0 = unlimited

ASSUME FramesAssumption ==
  /\ Param \in Regs
  /\ NoReg \notin Regs
  /\ NoClosure \notin ClosureIds
  /\ Null # Err
  /\ {Null, Err} \cap Data = {}
  /\ MaxUps \in Nat /\ MaxTrys \in Nat /\ MaxOps \in Nat

VARIABLES
  frames,    \* vm.frames: frame pointers, the running frame last
  heap,      \* what each frame pointer points to
  saved,     \* the vm.frames that each nested CallClosure put aside
  natives,   \* the doCall invocations waiting for a Go function to return
  upvals,    \* contents of each capture slice
  pc,        \* who runs: execute(), a native function, or nobody
  outcome,   \* what the outermost execute() returned
  ops,       \* VM.Ops, counted up to MaxOps + 1
  tries,     \* TRY instructions executed
  \* history
  awaits,    \* the register in which a frame expects the result of its call
  capture,   \* the values a closure captured, as only SETUPV updates them
  returned,  \* closures of which some call has returned
  caught     \* how many errors each TRY has caught

vars == <<frames, heap, saved, natives, upvals, pc, outcome, ops, tries,
          awaits, capture, returned, caught>>

Val == Data \cup {Null, Err}
Stamps == 1 .. MaxTrys
Handler == [stamp : Stamps, errReg : Regs]
Frame == [regs : [Regs -> Val], cl : ClosureIds \cup {NoClosure},
          retReg : Regs, trys : Seq(Handler), nilled : BOOLEAN]

\* releaseFrame: registers, captures and handlers gone, proto = nil.
Nilled == [regs |-> [r \in Regs |-> Null], cl |-> NoClosure,
           retReg |-> Param, trys |-> <<>>, nilled |-> TRUE]

Suspended == UNION {Range(saved[i]) : i \in 1 .. Len(saved)}
Referenced == Range(frames) \cup Suspended
Cur == Last(frames)
\* A slice holds at least one capture; <<>> is one not allocated yet.
Allocated == {c \in ClosureIds : upvals[c] # <<>>}

-----------------------------------------------------------------------------
(* Frames and captures.                                                    *)

\* newFrame for a call of the closure whose slice is c.
NewFrame(c, arg, ret) ==
  [regs |-> [r \in Regs |-> IF r = Param THEN arg ELSE Null],
   cl |-> c, retReg |-> ret, trys |-> <<>>, nilled |-> FALSE]

\* The frames in S are no longer referenced; the collector takes them as
\* they are, so their capture slices stay.
Drop(h, S) == [f \in FrameIds |-> IF f \in S THEN Nilled ELSE h[f]]

\* releaseFrame nulls the slice that the frame shares with its closure.
ReleaseUpvals(S) ==
  [c \in ClosureIds |->
     IF \E f \in S : heap[f].cl = c
     THEN [i \in DOMAIN upvals[c] |-> Null] ELSE upvals[c]]

\* execute() returns o to Go with fs left in vm.frames: Run is over, or
\* CallClosure restores the frames it put aside and the native goes on.
Leave(fs, h, o) ==
  \/ /\ saved = <<>>
     /\ frames' = fs /\ heap' = h
     /\ pc' = "done" /\ outcome' = o
     /\ UNCHANGED saved
  \/ /\ saved # <<>>
     /\ frames' = Last(saved) /\ saved' = Front(saved)
     /\ heap' = Drop(h, Range(fs))
     /\ pc' = "native"
     /\ UNCHANGED outcome

\* The indexes of the frames that have a handler.
Handling == {i \in 1 .. Len(frames) : heap[frames[i]].trys # <<>>}

\* Mistake: the frames above the handler's are not dropped.
CatchKeepsCallees(i) ==
  LET f == frames[i]
      h == Last(heap[f].trys)
  IN /\ heap' = [heap EXCEPT ![f].trys = Front(@), ![f].regs[h.errReg] = Err]
     /\ caught' = [caught EXCEPT ![h.stamp] = @ + 1]
     /\ awaits' = [awaits EXCEPT ![f] = NoReg]
     /\ UNCHANGED frames

\* Mistake: the handler's own frame is dropped with the others.
CatchDropsHandler(i) ==
  LET f == frames[i]
      h == Last(heap[f].trys)
  IN /\ frames' = SubSeq(frames, 1, i)
     /\ heap' = Drop(heap, Range(SubSeq(frames, i, Len(frames))))
     /\ caught' = [caught EXCEPT ![h.stamp] = @ + 1]
     /\ awaits' = [awaits EXCEPT ![f] = NoReg]

\* Mistake: the handler stays installed.
CatchAgain(i) ==
  LET f == frames[i]
      h == Last(heap[f].trys)
      above == Range(SubSeq(frames, i + 1, Len(frames)))
  IN /\ frames' = SubSeq(frames, 1, i)
     /\ heap' = Drop([heap EXCEPT ![f].regs[h.errReg] = Err], above)
     /\ caught' = [caught EXCEPT ![h.stamp] = @ + 1]
     /\ awaits' = [awaits EXCEPT ![f] = NoReg]

\* Mistake: the handlers of a frame are taken first in, first out.
CatchOldest(i) ==
  LET f == frames[i]
      h == Head(heap[f].trys)
      above == Range(SubSeq(frames, i + 1, Len(frames)))
  IN /\ frames' = SubSeq(frames, 1, i)
     /\ heap' = Drop([heap EXCEPT ![f].trys = Tail(@),
                                  ![f].regs[h.errReg] = Err], above)
     /\ caught' = [caught EXCEPT ![h.stamp] = @ + 1]
     /\ awaits' = [awaits EXCEPT ![f] = NoReg]

\* handleTry: the topmost frame with a handler becomes the running frame,
\* the frames above it are dropped, the handler is used up.
Catch(i) ==
  LET f == frames[i]
      h == Last(heap[f].trys)
      above == Range(SubSeq(frames, i + 1, Len(frames)))
  IN /\ frames' = SubSeq(frames, 1, i)
     /\ heap' = Drop([heap EXCEPT ![f].trys = Front(@),
                                  ![f].regs[h.errReg] = Err], above)
     /\ caught' = [caught EXCEPT ![h.stamp] = @ + 1]
     /\ awaits' = [awaits EXCEPT ![f] = NoReg]

\* Mistake: the search for a handler starts at the bottom of the stack.
RaiseToOutermost ==
  \/ /\ \E i \in Handling : (\A j \in Handling : i <= j) /\ Catch(i)
     /\ pc' = "exec"
     /\ UNCHANGED <<saved, outcome>>
  \/ /\ Handling = {}
     /\ Leave(frames, heap, "error")
     /\ UNCHANGED <<caught, awaits>>

\* An error that execute() offers to handleTry before it gives up.
Raise ==
  \/ /\ \E i \in Handling : (\A j \in Handling : j <= i) /\ Catch(i)
     /\ pc' = "exec"
     /\ UNCHANGED <<saved, outcome>>
  \/ /\ Handling = {}
     /\ Leave(frames, heap, "error")
     /\ UNCHANGED <<caught, awaits>>

\* doReturn: the running frame is popped and released; its caller, if the
\* activation has one, finds v in the register it asked for.
Popped(v) ==
  LET rest == Front(frames)
      released == [heap EXCEPT ![Cur] = Nilled]
  IN IF rest = <<>> THEN released
     ELSE [released EXCEPT ![Last(rest)].regs[heap[Cur].retReg] = v]

Resumed ==
  LET rest == Front(frames)
  IN IF rest = <<>> THEN awaits ELSE [awaits EXCEPT ![Last(rest)] = NoReg]

DoReturn ==
  /\ upvals' = ReleaseUpvals({Cur})
  /\ returned' = returned \cup ({heap[Cur].cl} \ {NoClosure})
  /\ awaits' = Resumed

-----------------------------------------------------------------------------
(* execute(): one action per class of instruction.                         *)

\* Mistake: instructions are counted, the limit is not looked at.
FetchedUnchecked ==
  /\ pc = "exec"
  /\ ops' = ops + 1

\* The loop has fetched an instruction of the running frame and the
\* watchdog let it through.
Fetched ==
  /\ pc = "exec"
  /\ IF MaxOps = 0 THEN UNCHANGED ops ELSE ops < MaxOps /\ ops' = ops + 1

\* The watchdog: this instruction is one too many.  Not offered to a try.
OpsExceeded ==
  /\ pc = "exec"
  /\ MaxOps > 0 /\ ops >= MaxOps
  /\ ops' = MaxOps + 1
  /\ Leave(frames, heap, "error")
  /\ UNCHANGED <<natives, upvals, tries, awaits, capture, returned, caught>>

\* ip ran past the code: null is returned, and execute() with it, even
\* when the frame has a caller.
ImplicitReturn ==
  /\ pc = "exec"
  /\ DoReturn
  /\ Leave(Front(frames), Popped(Null), "value")
  /\ UNCHANGED <<ops, tries, natives, capture, caught>>

Halt ==
  /\ Fetched
  /\ Leave(frames, heap, "value")
  /\ UNCHANGED <<natives, upvals, tries, awaits, capture, returned, caught>>

\* MOVE, loads, arithmetic, comparisons, collections: a register changes.
\* NOP and jumps are the case in which it does not.
DataOp ==
  /\ Fetched
  /\ \E r \in Regs, v \in Val : heap' = [heap EXCEPT ![Cur].regs[r] = v]
  /\ UNCHANGED <<frames, saved, natives, upvals, pc, outcome, tries,
                 awaits, capture, returned, caught>>

\* Mistake: handleTry releases the frames that it drops.
OpFailsReleasing ==
  /\ Fetched
  /\ Raise
  /\ upvals' = ReleaseUpvals(Range(frames) \ Range(frames'))
  /\ UNCHANGED <<natives, tries, capture, returned>>

\* A type error, a division by zero, a failing doCall: a try may catch it.
OpFails ==
  /\ Fetched
  /\ Raise
  /\ UNCHANGED <<natives, upvals, tries, capture, returned>>

\* ASSERT, a bad constant, an unknown module, GETUPV out of bounds.
FatalError ==
  /\ Fetched
  /\ Leave(frames, heap, "error")
  /\ UNCHANGED <<natives, upvals, tries, awaits, capture, returned, caught>>

\* CALL of a script function: a frame is pushed.  The stack has no limit in
\* the code; here it ends with FrameIds.
Call ==
  /\ Fetched
  /\ \E f \in FrameIds \ Referenced, c \in Allocated \cup {NoClosure},
        arg, ret \in Regs :
       /\ frames' = Append(frames, f)
       /\ heap' = [heap EXCEPT ![f] = NewFrame(c, heap[Cur].regs[arg], ret)]
       /\ awaits' = [awaits EXCEPT ![Cur] = ret, ![f] = NoReg]
  /\ UNCHANGED <<saved, natives, upvals, pc, outcome, tries,
                 capture, returned, caught>>

\* CALL of a Go function, which runs inside doCall.
CallNative ==
  /\ Fetched
  /\ \E ret \in Regs :
       /\ natives' = Append(natives, [fr |-> Cur, ret |-> ret])
       /\ awaits' = [awaits EXCEPT ![Cur] = ret]
  /\ pc' = "native"
  /\ UNCHANGED <<frames, heap, saved, upvals, outcome, tries,
                 capture, returned, caught>>

\* RET and RETN: the activation goes on while it has a frame.
Return ==
  /\ Fetched
  /\ \E v \in {heap[Cur].regs[r] : r \in Regs} \cup {Null} :
       /\ DoReturn
       /\ \/ /\ Len(frames) > 1
             /\ frames' = Front(frames)
             /\ heap' = Popped(v)
             /\ UNCHANGED <<saved, pc, outcome>>
          \/ /\ Len(frames) = 1
             /\ Leave(<<>>, Popped(v), "value")
  /\ UNCHANGED <<natives, tries, capture, caught>>

\* CLOSURE copies registers of the frame into a slice of its own.
MakeClosure ==
  /\ Fetched
  /\ \E c \in ClosureIds \ Allocated, n \in 1 .. MaxUps :
       \E src \in [1 .. n -> Regs] :
         LET values == [i \in 1 .. n |-> heap[Cur].regs[src[i]]]
         IN /\ upvals' = [upvals EXCEPT ![c] = values]
            /\ capture' = [capture EXCEPT ![c] = values]
  /\ UNCHANGED <<frames, heap, saved, natives, pc, outcome, tries,
                 awaits, returned, caught>>

GetUpv ==
  /\ Fetched
  /\ heap[Cur].cl # NoClosure
  /\ \E r \in Regs, i \in DOMAIN upvals[heap[Cur].cl] :
       heap' = [heap EXCEPT ![Cur].regs[r] = upvals[heap[Cur].cl][i]]
  /\ UNCHANGED <<frames, saved, natives, upvals, pc, outcome, tries,
                 awaits, capture, returned, caught>>

SetUpv ==
  /\ Fetched
  /\ heap[Cur].cl # NoClosure
  /\ \E r \in Regs, i \in DOMAIN upvals[heap[Cur].cl] :
       /\ upvals' = [upvals EXCEPT ![heap[Cur].cl][i] = heap[Cur].regs[r]]
       /\ capture' = [capture EXCEPT ![heap[Cur].cl][i] = heap[Cur].regs[r]]
  /\ UNCHANGED <<frames, heap, saved, natives, pc, outcome, tries,
                 awaits, returned, caught>>

\* TRY pushes a handler on the running frame.
Try ==
  /\ Fetched
  /\ tries < MaxTrys /\ tries' = tries + 1
  /\ \E r \in Regs :
       heap' = [heap EXCEPT ![Cur].trys =
                  Append(@, [stamp |-> tries + 1, errReg |-> r])]
  /\ UNCHANGED <<frames, saved, natives, upvals, pc, outcome,
                 awaits, capture, returned, caught>>

EndTry ==
  /\ Fetched
  /\ heap' = IF heap[Cur].trys = <<>> THEN heap
             ELSE [heap EXCEPT ![Cur].trys = Front(@)]
  /\ UNCHANGED <<frames, saved, natives, upvals, pc, outcome, tries,
                 awaits, capture, returned, caught>>

-----------------------------------------------------------------------------
(* The Go function that a CALL runs.                                       *)

\* It returns a value, which doCall stores through the frame pointer that
\* it read before the call.
NativeReturns ==
  /\ pc = "native"
  /\ natives' = Front(natives)
  /\ pc' = "exec"
  /\ \E v \in Val :
       LET n == Last(natives)
       IN /\ heap' = [heap EXCEPT ![n.fr].regs[n.ret] = v]
          /\ awaits' = [awaits EXCEPT ![n.fr] = NoReg]
  /\ UNCHANGED <<frames, saved, upvals, outcome, ops, tries,
                 capture, returned, caught>>

\* It returns an error: doCall hands it to the try handlers of the frames
\* below, those of the running activation.
NativeFails ==
  /\ pc = "native"
  /\ natives' = Front(natives)
  /\ Raise
  /\ UNCHANGED <<upvals, ops, tries, capture, returned>>

\* Mistake: the callback's frame is pushed on the frames of its caller.
CallClosureOnTop ==
  /\ pc = "native"
  /\ \E f \in FrameIds \ Referenced, c \in Allocated \cup {NoClosure}, v \in Val :
       /\ saved' = Append(saved, frames)
       /\ frames' = Append(frames, f)
       /\ heap' = [heap EXCEPT ![f] = NewFrame(c, v, Param)]
       /\ awaits' = [awaits EXCEPT ![f] = NoReg]
  /\ pc' = "exec"
  /\ UNCHANGED <<natives, upvals, outcome, ops, tries,
                 capture, returned, caught>>

\* Mistake: each callback starts with a budget of its own.
CallClosureFreshBudget ==
  /\ pc = "native"
  /\ \E f \in FrameIds \ Referenced, c \in Allocated \cup {NoClosure}, v \in Val :
       /\ saved' = Append(saved, frames)
       /\ frames' = <<f>>
       /\ heap' = [heap EXCEPT ![f] = NewFrame(c, v, Param)]
       /\ awaits' = [awaits EXCEPT ![f] = NoReg]
  /\ pc' = "exec" /\ ops' = 0
  /\ UNCHANGED <<natives, upvals, outcome, tries,
                 capture, returned, caught>>

\* CallClosure: it calls back into the script, in an activation of its own.
CallClosure ==
  /\ pc = "native"
  /\ \E f \in FrameIds \ Referenced, c \in Allocated \cup {NoClosure}, v \in Val :
       /\ saved' = Append(saved, frames)
       /\ frames' = <<f>>
       /\ heap' = [heap EXCEPT ![f] = NewFrame(c, v, Param)]
       /\ awaits' = [awaits EXCEPT ![f] = NoReg]
  /\ pc' = "exec"
  /\ UNCHANGED <<natives, upvals, outcome, ops, tries,
                 capture, returned, caught>>

\* VM.Release after the run: what execute() left in vm.frames is released.
Release ==
  /\ pc = "done"
  /\ pc' = "released"
  /\ frames' = <<>>
  /\ heap' = Drop(heap, Range(frames))
  /\ upvals' = ReleaseUpvals(Range(frames))
  /\ UNCHANGED <<saved, natives, outcome, ops, tries,
                 awaits, capture, returned, caught>>

-----------------------------------------------------------------------------
(* Run pushes the frame of main.                                           *)
Init ==
  /\ \E f \in FrameIds, v \in Val :
       /\ frames = <<f>>
       /\ heap = [g \in FrameIds |->
                    IF g = f THEN NewFrame(NoClosure, v, Param) ELSE Nilled]
  /\ saved = <<>>
  /\ natives = <<>>
  /\ upvals = [c \in ClosureIds |-> <<>>]
  /\ pc = "exec"
  /\ outcome = "none"
  /\ ops = 0
  /\ tries = 0
  /\ awaits = [f \in FrameIds |-> NoReg]
  /\ capture = upvals
  /\ returned = {}
  /\ caught = [s \in Stamps |-> 0]

Execute ==
  \/ OpsExceeded \/ ImplicitReturn \/ Halt \/ DataOp \/ OpFails \/ FatalError
  \/ Call \/ CallNative \/ Return \/ MakeClosure \/ GetUpv \/ SetUpv
  \/ Try \/ EndTry

NativeEnds == NativeReturns \/ NativeFails

Next == Execute \/ NativeEnds \/ CallClosure \/ Release

Spec == Init /\ [][Next]_vars

\* execute() is a loop that is never preempted for good, and a Go function
\* that may call back into the script (the gui message loop) returns in the
\* end: without its return nothing below it on the Go stack can go on.
FairSpec == Spec /\ WF_vars(Execute) /\ SF_vars(NativeEnds)
-----------------------------------------------------------------------------
(* Properties.                                                             *)

\* The variables have their types.
TypeOK ==
  /\ frames \in Seq(FrameIds)
  /\ heap \in [FrameIds -> Frame]
  /\ saved \in Seq(Seq(FrameIds))
  /\ natives \in Seq([fr : FrameIds, ret : Regs])
  /\ upvals \in [ClosureIds -> Seq(Val)]
  /\ pc \in {"exec", "native", "done", "released"}
  /\ outcome \in {"none", "value", "error"}
  /\ ops \in 0 .. MaxOps + 1
  /\ tries \in 0 .. MaxTrys
  /\ awaits \in [FrameIds -> Regs \cup {NoReg}]
  /\ capture \in [ClosureIds -> Seq(Val)]
  /\ returned \subseteq ClosureIds
  /\ caught \in [Stamps -> Nat]

\* The activations, outermost first, and the pending call each rests on.
Activations == Append(saved, frames)

\* Every frame that is not running waits for exactly the call above it: the
\* register its callee writes on return (doCall's retReg) is the one the
\* frame's own CALL named, within an activation and, for the frame that
\* sits in a native call, across CallClosure.
CallChain ==
  /\ \A a \in 1 .. Len(Activations) :
       \A i \in 1 .. Len(Activations[a]) - 1 :
         pc \in {"exec", "native"} =>
           awaits[Activations[a][i]] = heap[Activations[a][i + 1]].retReg
  /\ \A n \in 1 .. Len(natives) :
       /\ natives[n].fr = Last(Activations[n])
       /\ awaits[natives[n].fr] = natives[n].ret
  /\ pc = "exec" => awaits[Cur] = NoReg

\* A frame that releaseFrame has taken apart (proto = nil) is never run or
\* returned to again, nor is one frame on the stack twice.
NoFrameReuse ==
  /\ \A f \in Referenced : ~heap[f].nilled
  /\ \A a, b \in 1 .. Len(Activations) :
       \A i \in 1 .. Len(Activations[a]), j \in 1 .. Len(Activations[b]) :
         Activations[a][i] = Activations[b][j] => a = b /\ i = j

\* While a callback runs, the frames below the native call that it came
\* from stay as they are ("cannot resume the outer function mid-execute",
\* CallClosure's comment).
SuspendedUntouched ==
  [][\A f \in Suspended \cap Suspended' : heap'[f] = heap[f]]_vars

\* The handlers installed in the frames on the stacks.
LiveStamps ==
  UNION {{heap[f].trys[i].stamp : i \in 1 .. Len(heap[f].trys)} : f \in Referenced}

\* The error goes to the handler installed last among all that are still
\* installed anywhere in the VM.
NewestHandlerCatches ==
  [][\A s \in Stamps :
       caught'[s] # caught[s] => s \in LiveStamps /\ \A t \in LiveStamps : t <= s]_vars

\* One TRY catches at most one error: a throw inside its own catch block
\* goes to an outer handler.
CatchOnce == \A s \in Stamps : caught[s] <= 1

\* A closure whose calls have not returned yet reads what it captured,
\* however its calls were abandoned (an exception, HALT, the watchdog).
CapturesUntilReturn ==
  pc # "released" =>
    \A c \in ClosureIds : c \notin returned => upvals[c] = capture[c]

\* docs/language.md:58: captures are copied when the closure is created.  So
\* whichever call of a closure is running reads the values captured then.
CapturesPersist ==
  pc = "exec" /\ heap[Cur].cl # NoClosure =>
    upvals[heap[Cur].cl] = capture[heap[Cur].cl]

\* MaxOps ends every run, even when callbacks fail on the watchdog over and
\* over and handlers catch the errors their natives report.
WatchdogEnds == <>(pc = "done")
=============================================================================
