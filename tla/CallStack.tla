------------------------------ MODULE CallStack ------------------------------
(***************************************************************************)
(* What the interpreter promises about control flow, with one stack for    *)
(* the whole VM: script calls and native calls nest, a callback runs above *)
(* the native that made it, and an error unwinds to the nearest handler    *)
(* but never past a native call, which it reaches as a Go error instead.   *)
(***************************************************************************)
EXTENDS Naturals, Sequences, SequencesExt, FiniteSetsExt

VARIABLES
  stack,    \* the calls in progress, the running one last
  result    \* "none" while the program runs

Fn(n) == [kind |-> "fn", handlers |-> n]
Native == [kind |-> "native", handlers |-> 0]

Running(kind) == stack # <<>> /\ Last(stack).kind = kind

\* Native calls confine an unwinding to the calls above the last of them.
Barrier(s) == Max({0} \cup {i \in 1 .. Len(s) : s[i].kind = "native"})
Catchers(s) == {i \in Barrier(s) + 1 .. Len(s) : s[i].handlers > 0}

Init == stack = <<Fn(0)>> /\ result = "none"

\* Every script call above the last native is over; without one the run is.
Unwind(s, o) ==
  /\ stack' = SubSeq(s, 1, Barrier(s))
  /\ result' = IF Barrier(s) = 0 THEN o ELSE result

Fail(s) ==
  IF Catchers(s) = {} THEN Unwind(s, "error")
  ELSE LET i == Max(Catchers(s))
       IN /\ stack' = Append(SubSeq(s, 1, i - 1), Fn(s[i].handlers - 1))
          /\ UNCHANGED result

Call == Running("fn") /\ stack' = Append(stack, Fn(0)) /\ UNCHANGED result
CallNative == Running("fn") /\ stack' = Append(stack, Native) /\ UNCHANGED result
CallBack == Running("native") /\ stack' = Append(stack, Fn(0)) /\ UNCHANGED result

\* A call comes back to the one below; the last one ends the run.
Return ==
  /\ Running("fn")
  /\ stack' = Front(stack)
  /\ result' = IF Len(stack) = 1 THEN "value" ELSE result

NativeReturns == Running("native") /\ stack' = Front(stack) /\ UNCHANGED result

Raise == Running("fn") /\ Fail(stack)
NativeFails == Running("native") /\ Fail(Front(stack))

\* HALT, an error no handler is offered, code that runs off its end.
Stop == Running("fn") /\ \E o \in {"value", "error"} : Unwind(stack, o)

EnterTry ==
  /\ Running("fn")
  /\ stack' = Append(Front(stack), Fn(Last(stack).handlers + 1))
  /\ UNCHANGED result

LeaveTry ==
  /\ Running("fn") /\ Last(stack).handlers > 0
  /\ stack' = Append(Front(stack), Fn(Last(stack).handlers - 1))
  /\ UNCHANGED result

Next ==
  \/ Call \/ CallNative \/ CallBack \/ Return \/ NativeReturns
  \/ Raise \/ NativeFails \/ Stop \/ EnterTry \/ LeaveTry

Spec == Init /\ [][Next]_<<stack, result>>
=============================================================================
