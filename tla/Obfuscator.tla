----------------------------- MODULE Obfuscator -----------------------------
(***************************************************************************)
(* internal/obfus, expandProto: the code of a function with instructions   *)
(* that do nothing between its own, and its jumps set right.  An           *)
(* instruction is a record of op, a, b and c; b of a jump is the distance  *)
(* from the next instruction.  The permutation of the constants is in      *)
(* Container.                                                              *)
(*                                                                         *)
(* What the code draws at random is the plan: for the i-th instruction the *)
(* number of NOPs and of dead instructions in front of it, repeated when   *)
(* the code is longer than the plan.                                       *)
(***************************************************************************)
EXTENDS Integers, Sequences, SequencesExt

Nop == [op |-> "NOP", a |-> 0, b |-> 0, c |-> 0]
JumpOver(n) == [op |-> "JMP", a |-> 0, b |-> n, c |-> 0]
\* junkInsn, one of its five: an instruction that would overwrite one of the
\* first four registers.
Junk == [op |-> "MOVE", a |-> 0, b |-> 1, c |-> 0]
Times(i, n) == [k \in 1 .. n |-> i]

Planned(plan, i) == plan[((i - 1) % Len(plan)) + 1]
Sled(p) == Times(Nop, p.nops) \o (IF p.dead = 0 THEN <<>> ELSE <<JumpOver(p.dead)>> \o Times(Junk, p.dead))

\* oldToNew: the address that each instruction gets, and the end behind a last NOP.
Places(code, plan) ==
  FoldLeft(LAMBDA at, i : Append(at, Last(at) + 1 + Len(Sled(Planned(plan, i + 1)))),
           <<Len(Sled(Planned(plan, 1)))>>, [i \in DOMAIN code |-> i])
Ending(at) == Last(at) + 1
NewTarget(at, k) ==
  CASE k < 0 -> 0
    [] k >= Len(at) - 1 -> Ending(at)
    [] OTHER -> at[k + 1]

Relative == {"JMP", "JT", "JF"}
\* Mistake: a jump keeps the distance it had.
KeepsDistance(code, at, i) == code[i]
Rewritten(code, at, i) ==
  IF code[i].op \notin Relative THEN code[i]
  ELSE [code[i] EXCEPT !.b = NewTarget(at, i + @) - at[i] - 1]

ExpandTo(code, plan, at) ==
  FlattenSeq([i \in DOMAIN code |-> Append(Sled(Planned(plan, i)), Rewritten(code, at, i))])
    \o Times(Nop, Last(at) - Last(Front(at))) \o Times(Junk, 2)
Expand(code, plan) == ExpandTo(code, plan, Places(code, plan))
=============================================================================
