----------------------- MODULE RegisterAllocator_proofs -----------------------
(***************************************************************************)
(* Proofs about RegisterAllocator, for any names, any number of registers  *)
(* and any depth of constructs: what a construct frees is what it holds,   *)
(* and nothing is handed out to two owners, below the point where the      *)
(* numbers of registers are cut to a byte.                                 *)
(***************************************************************************)
EXTENDS RegisterAllocator, FiniteSetTheorems, SequenceTheorems, WellFoundedInduction, TLAPS

-----------------------------------------------------------------------------
(* What a construct does to the variables that hold its registers.         *)

\* The variables that must hold a register for t, those that hold none after
\* it, and those that hold one after it.
Needs(t) == IF t.do \in {"free", "let", "bind", "pair"} THEN Range(t.at) ELSE {}
Taken(t) == IF t.do \in {"free", "let", "bind"} THEN Range(t.at) ELSE {}
Given(t) == IF t.do \in {"alloc", "reserve", "pair", "unbind"} THEN Range(t.at) ELSE {}

WellFormed(t) ==
  /\ t \in Todo
  /\ t.do \in {"alloc", "free", "reserve", "pair", "let", "bind", "unbind"} => t.at \in Seq(Slots)
  /\ t.do \in {"let", "bind", "unbind"} => Len(t.at) = 1
  /\ t.do = "free" => IsInjective(t.at)
  /\ t.do = "pair" => t.at = <<1, 2>>
  /\ t.do = "expr" => Len(t.at) = 1 /\ t.at[1] \in Slots \cup {Dest}

\* t is possible when the variables in H hold registers, and those in H2 do
\* afterwards; p and p2 say whether a name is bound for a block.
Step(t, H, H2, p, p2) ==
  /\ WellFormed(t)
  /\ Needs(t) \subseteq H
  /\ H2 = (H \ Taken(t)) \cup Given(t)
  /\ t.do = "bind" => p = "plain" /\ p2 = "bound"
  /\ t.do = "unbind" => p = "bound" /\ p2 = "plain"
  /\ t.do \notin {"bind", "unbind"} => p2 = p
  /\ p = "plain" \/ t.do \in {"block", "unbind"}
  /\ t.do \in {"func", "place"} => H = {}

\* What may be left to do for a construct that holds the variables in H and is
\* in phase p: held and phase tell how it goes on, to its end, where it holds
\* none.
Leads(todo, held, phase, H, p) ==
  /\ held[1] = H /\ phase[1] = p
  /\ held[Len(todo) + 1] = {} /\ phase[Len(todo) + 1] = "plain"
  /\ \A k \in 1 .. Len(todo) : Step(todo[k], held[k], held[k + 1], phase[k], phase[k + 1])
Plan(todo, H, p) ==
  /\ todo \in Seq(Todo)
  /\ \E held, phase : Leads(todo, held, phase, H, p)

Phase(c) == IF c.name = NoReg THEN "plain" ELSE "bound"
HeldIn(c) == {i \in Slots : c.slot[i] # NoReg}
Sound(c) ==
  IF c.block THEN c.todo = <<>> /\ HeldIn(c) = {} /\ c.name = NoReg
  ELSE Plan(c.todo, HeldIn(c), Phase(c))

-----------------------------------------------------------------------------
(* Who owns a register.                                                    *)

\* Of the first n compile functions in cs: name x means register r in the
\* scope loc or in one that will be restored.
Named(cs, n, loc, x, r) == loc[x] = r \/ \E c \in 1 .. n : cs[c].scope[x] = r

\* A variable that holds a register is alone in it.
TemporariesFit(cs, n, loc, free, next) ==
  \A c \in 1 .. n, i \in Slots : cs[c].slot[i] # NoReg =>
    /\ cs[c].slot[i] < next
    /\ \A d \in 1 .. n, j \in Slots : cs[d].slot[j] = cs[c].slot[i] => d = c /\ j = i
    /\ \A x \in Names : ~Named(cs, n, loc, x, cs[c].slot[i])
    /\ \A k \in 1 .. Len(free) : free[k] # cs[c].slot[i]

\* So is a name, which may mean a register in several scopes ...
NamesFit(cs, n, loc, free, next) ==
  \A x \in Names, r \in Reg : Named(cs, n, loc, x, r) =>
    /\ r < next
    /\ \A y \in Names : Named(cs, n, loc, y, r) => y = x
    /\ \A k \in 1 .. Len(free) : free[k] # r

\* ... and a place in the list of free registers.
FreeFit(free, next) ==
  \A k \in 1 .. Len(free) :
    /\ free[k] < next
    /\ \A l \in 1 .. Len(free) : free[l] = free[k] => l = k

Fits(cs, n, loc, free, next) ==
  next <= Bytes =>
    /\ TemporariesFit(cs, n, loc, free, next)
    /\ NamesFit(cs, n, loc, free, next)
    /\ FreeFit(free, next)

\* This holds now, and will again when a block ends.
AllFit(cs, loc, free, next) ==
  /\ Fits(cs, Len(cs), loc, free, next)
  /\ \A k \in 1 .. Len(cs) : cs[k].block => Fits(cs, k - 1, cs[k].scope, <<>>, cs[k].next)

\* The name that function c binds is bound: it alone differs from the scope
\* before, and means a register of its own.
BoundIn(cs, c, loc, next) ==
  LET x == cs[c].name IN
  x # NoReg =>
    /\ loc[x] # NoReg
    /\ \A y \in Names \ {x} : loc[y] = cs[c].scope[y]
    /\ next <= Bytes => \A d \in 1 .. c : cs[d].scope[x] # loc[x]

\* While the block of a bound name is compiled, this will hold when it ends.
Resumes(cs, c) ==
  /\ cs[c].name # NoReg => cs[c + 1].block
  /\ BoundIn(cs, c, cs[c + 1].scope, cs[c + 1].next)

AllBound(cs, loc, next) ==
  /\ cs # <<>> => BoundIn(cs, Len(cs), loc, next)
  /\ \A c \in 1 .. Len(cs) - 1 : Resumes(cs, c)

\* The inductive invariant, of any value of the variables.
InOrder(cs, loc, free, next) ==
  /\ cs \in Seq(Call) /\ loc \in Scope /\ free \in Seq(Reg) /\ next \in Nat
  /\ \A c \in 1 .. Len(cs) : Sound(cs[c])
  /\ AllFit(cs, loc, free, next)
  /\ AllBound(cs, loc, next)

RInv == failed \in BOOLEAN /\ InOrder(calls, locals, freeRegs, nextReg)

-----------------------------------------------------------------------------
(* Every expression and statement is a plan.                               *)

LEMMA SlotsAre == /\ Slots \subseteq Nat /\ 0 \notin Slots /\ Dest \in Nat
                  /\ 1 \in Slots /\ 2 \in Slots /\ 3 \in Slots /\ 4 \in Slots /\ 5 \in Slots
  BY RegisterAssumption DEF Slots, Dest

LEMMA RangeOfOne == \A x : Range(<<x>>) = {x} /\ IsInjective(<<x>>)
  BY DEF Range, IsInjective

LEMMA RangeOfTwo == \A x, y : Range(<<x, y>>) = {x, y} /\ (x # y => IsInjective(<<x, y>>))
  BY DEF Range, IsInjective

LEMMA RangeOfThree ==
  \A x, y, z : Range(<<x, y, z>>) = {x, y, z}
                 /\ (x # y /\ x # z /\ y # z => IsInjective(<<x, y, z>>))
  BY DEF Range, IsInjective

LEMMA RangeOfFour ==
  \A w, x, y, z : Range(<<w, x, y, z>>) = {w, x, y, z}
    /\ (w # x /\ w # y /\ w # z /\ x # y /\ x # z /\ y # z => IsInjective(<<w, x, y, z>>))
  BY DEF Range, IsInjective

LEMMA StepAlloc ==
  \A at \in Seq(Slots) : \A H, H2 :
    H2 = H \cup Range(at)  => Step(Alloc(at), H, H2, "plain", "plain")
<1>1. ASSUME NEW at \in Seq(Slots) PROVE Alloc(at) \in Todo
  BY SlotsAre, SeqMonotonic DEF Alloc, Todo, Kind
<1>. QED
  BY <1>1 DEF Alloc, Step, WellFormed, Needs, Taken, Given

LEMMA StepFree ==
  \A at \in Seq(Slots) : \A H, H2 :
    IsInjective(at) /\ Range(at) \subseteq H /\ H2 = H \ Range(at) 
      => Step(Free(at), H, H2, "plain", "plain")
<1>1. ASSUME NEW at \in Seq(Slots) PROVE Free(at) \in Todo
  BY SlotsAre, SeqMonotonic DEF Free, Todo, Kind
<1>. QED
  BY <1>1 DEF Free, Step, WellFormed, Needs, Taken, Given

LEMMA StepCompile ==
  \A i \in Slots \cup {Dest} : \A H : Step(Compile(i), H, H, "plain", "plain")
<1>1. ASSUME NEW i \in Slots \cup {Dest} PROVE Compile(i) \in Todo
  BY SlotsAre DEF Compile, Todo, Kind
<1>. QED
  BY <1>1 DEF Compile, Step, WellFormed, Needs, Taken, Given

LEMMA StepBlock == \A H : \A p \in {"plain", "bound"} : Step(Block, H, H, p, p)
  BY DEF Block, Step, WellFormed, Needs, Taken, Given, Todo, Kind

LEMMA StepBind ==
  \A i \in Slots : \A H, H2 : i \in H /\ H2 = H \ {i} => Step(Bind(i), H, H2, "plain", "bound")
<1>1. ASSUME NEW i \in Slots PROVE Bind(i) \in Todo /\ <<i>> \in Seq(Slots) /\ Len(<<i>>) = 1
  BY SlotsAre DEF Bind, Todo, Kind
<1>. QED
  BY <1>1, RangeOfOne DEF Bind, Step, WellFormed, Needs, Taken, Given

LEMMA StepUnbind ==
  \A i \in Slots : \A H, H2 : H2 = H \cup {i} => Step(Unbind(i), H, H2, "bound", "plain")
<1>1. ASSUME NEW i \in Slots PROVE Unbind(i) \in Todo /\ <<i>> \in Seq(Slots) /\ Len(<<i>>) = 1
  BY SlotsAre DEF Unbind, Todo, Kind
<1>. QED
  BY <1>1, RangeOfOne DEF Unbind, Step, WellFormed, Needs, Taken, Given

LEMMA StepOther ==
  /\ Step([do |-> "pair", at |-> <<1, 2>>], {1, 2}, {1, 2}, "plain", "plain")
  /\ Step([do |-> "func", at |-> <<>>], {}, {}, "plain", "plain")
  /\ Step([do |-> "let", at |-> <<1>>], {1}, {}, "plain", "plain")
<1>1. /\ [do |-> "pair", at |-> <<1, 2>>] \in Todo /\ [do |-> "func", at |-> <<>>] \in Todo
      /\ [do |-> "let", at |-> <<1>>] \in Todo
      /\ <<1, 2>> \in Seq(Slots) /\ <<1>> \in Seq(Slots) /\ Len(<<1>>) = 1
  BY SlotsAre DEF Todo, Kind
<1>. QED
  BY <1>1, RangeOfOne, RangeOfTwo DEF Step, WellFormed, Needs, Taken, Given

\* The lists of variables that are allocated and freed together.
LEMMA AllocSteps ==
  /\ Step(Alloc(<<1>>), {}, {1}, "plain", "plain")
  /\ Step(Alloc(<<1, 2>>), {}, {1, 2}, "plain", "plain")
  /\ Step(Alloc(<<2>>), {1}, {1, 2}, "plain", "plain")
  /\ Step(Alloc(<<3>>), {1, 2}, {1, 2, 3}, "plain", "plain")
  /\ Step(Alloc(<<2, 3, 4, 5>>), {1}, {1, 2, 3, 4, 5}, "plain", "plain")
  /\ Step(Alloc(<<2, 3, 4>>), {1}, {1, 2, 3, 4}, "plain", "plain")
  /\ Step(Alloc(<<2, 3>>), {1}, {1, 2, 3}, "plain", "plain")
  /\ Step(Alloc(<<4>>), {1, 2, 3}, {1, 2, 3, 4}, "plain", "plain")
<1>1. Step(Alloc(<<1>>), {}, {1}, "plain", "plain")
  <2>1. <<1>> \in Seq(Slots)
    BY SlotsAre
  <2>2. {1} = {} \cup Range(<<1>>)
    BY RangeOfOne
  <2>. QED
    BY <2>1, <2>2, StepAlloc
<1>2. Step(Alloc(<<1, 2>>), {}, {1, 2}, "plain", "plain")
  <2>1. <<1, 2>> \in Seq(Slots)
    BY SlotsAre
  <2>2. {1, 2} = {} \cup Range(<<1, 2>>)
    BY RangeOfTwo
  <2>. QED
    BY <2>1, <2>2, StepAlloc
<1>3. Step(Alloc(<<2>>), {1}, {1, 2}, "plain", "plain")
  <2>1. <<2>> \in Seq(Slots)
    BY SlotsAre
  <2>2. {1, 2} = {1} \cup Range(<<2>>)
    BY RangeOfOne
  <2>. QED
    BY <2>1, <2>2, StepAlloc
<1>4. Step(Alloc(<<3>>), {1, 2}, {1, 2, 3}, "plain", "plain")
  <2>1. <<3>> \in Seq(Slots)
    BY SlotsAre
  <2>2. {1, 2, 3} = {1, 2} \cup Range(<<3>>)
    BY RangeOfOne
  <2>. QED
    BY <2>1, <2>2, StepAlloc
<1>5. Step(Alloc(<<2, 3, 4, 5>>), {1}, {1, 2, 3, 4, 5}, "plain", "plain")
  <2>1. <<2, 3, 4, 5>> \in Seq(Slots)
    BY SlotsAre
  <2>2. {1, 2, 3, 4, 5} = {1} \cup Range(<<2, 3, 4, 5>>)
    BY RangeOfFour
  <2>. QED
    BY <2>1, <2>2, StepAlloc
<1>6. Step(Alloc(<<2, 3, 4>>), {1}, {1, 2, 3, 4}, "plain", "plain")
  <2>1. <<2, 3, 4>> \in Seq(Slots)
    BY SlotsAre
  <2>2. {1, 2, 3, 4} = {1} \cup Range(<<2, 3, 4>>)
    BY RangeOfThree
  <2>. QED
    BY <2>1, <2>2, StepAlloc
<1>7. Step(Alloc(<<2, 3>>), {1}, {1, 2, 3}, "plain", "plain")
  <2>1. <<2, 3>> \in Seq(Slots)
    BY SlotsAre
  <2>2. {1, 2, 3} = {1} \cup Range(<<2, 3>>)
    BY RangeOfTwo
  <2>. QED
    BY <2>1, <2>2, StepAlloc
<1>8. Step(Alloc(<<4>>), {1, 2, 3}, {1, 2, 3, 4}, "plain", "plain")
  <2>1. <<4>> \in Seq(Slots)
    BY SlotsAre
  <2>2. {1, 2, 3, 4} = {1, 2, 3} \cup Range(<<4>>)
    BY RangeOfOne
  <2>. QED
    BY <2>1, <2>2, StepAlloc
<1>. QED
  BY <1>1, <1>2, <1>3, <1>4, <1>5, <1>6, <1>7, <1>8

LEMMA FreeSteps ==
  /\ Step(Free(<<1>>), {1}, {}, "plain", "plain")
  /\ Step(Free(<<1, 2>>), {1, 2}, {}, "plain", "plain")
  /\ Step(Free(<<2, 1>>), {1, 2}, {}, "plain", "plain")
  /\ Step(Free(<<1, 2, 3>>), {1, 2, 3}, {}, "plain", "plain")
  /\ Step(Free(<<3, 1, 2>>), {1, 2, 3}, {}, "plain", "plain")
  /\ Step(Free(<<5, 2, 3, 4>>), {1, 2, 3, 4, 5}, {1}, "plain", "plain")
  /\ Step(Free(<<4, 1, 2, 3>>), {1, 2, 3, 4}, {}, "plain", "plain")
  /\ Step(Free(<<3, 4, 2>>), {1, 2, 3, 4}, {1}, "plain", "plain")
<1>1. Step(Free(<<1>>), {1}, {}, "plain", "plain")
  <2>1. <<1>> \in Seq(Slots) /\ IsInjective(<<1>>)
    BY SlotsAre, RangeOfOne
  <2>2. Range(<<1>>) \subseteq {1} /\ {} = {1} \ Range(<<1>>)
    BY RangeOfOne
  <2>. QED
    BY <2>1, <2>2, StepFree
<1>2. Step(Free(<<1, 2>>), {1, 2}, {}, "plain", "plain")
  <2>1. <<1, 2>> \in Seq(Slots) /\ IsInjective(<<1, 2>>)
    BY SlotsAre, RangeOfTwo
  <2>2. Range(<<1, 2>>) \subseteq {1, 2} /\ {} = {1, 2} \ Range(<<1, 2>>)
    BY RangeOfTwo
  <2>. QED
    BY <2>1, <2>2, StepFree
<1>3. Step(Free(<<2, 1>>), {1, 2}, {}, "plain", "plain")
  <2>1. <<2, 1>> \in Seq(Slots) /\ IsInjective(<<2, 1>>)
    BY SlotsAre, RangeOfTwo
  <2>2. Range(<<2, 1>>) \subseteq {1, 2} /\ {} = {1, 2} \ Range(<<2, 1>>)
    BY RangeOfTwo
  <2>. QED
    BY <2>1, <2>2, StepFree
<1>4. Step(Free(<<1, 2, 3>>), {1, 2, 3}, {}, "plain", "plain")
  <2>1. <<1, 2, 3>> \in Seq(Slots) /\ IsInjective(<<1, 2, 3>>)
    BY SlotsAre, RangeOfThree
  <2>2. Range(<<1, 2, 3>>) \subseteq {1, 2, 3} /\ {} = {1, 2, 3} \ Range(<<1, 2, 3>>)
    BY RangeOfThree
  <2>. QED
    BY <2>1, <2>2, StepFree
<1>5. Step(Free(<<3, 1, 2>>), {1, 2, 3}, {}, "plain", "plain")
  <2>1. <<3, 1, 2>> \in Seq(Slots) /\ IsInjective(<<3, 1, 2>>)
    BY SlotsAre, RangeOfThree
  <2>2. Range(<<3, 1, 2>>) \subseteq {1, 2, 3} /\ {} = {1, 2, 3} \ Range(<<3, 1, 2>>)
    BY RangeOfThree
  <2>. QED
    BY <2>1, <2>2, StepFree
<1>6. Step(Free(<<5, 2, 3, 4>>), {1, 2, 3, 4, 5}, {1}, "plain", "plain")
  <2>1. <<5, 2, 3, 4>> \in Seq(Slots) /\ IsInjective(<<5, 2, 3, 4>>)
    BY SlotsAre, RangeOfFour
  <2>2. Range(<<5, 2, 3, 4>>) \subseteq {1, 2, 3, 4, 5} /\ {1} = {1, 2, 3, 4, 5} \ Range(<<5, 2, 3, 4>>)
    BY RangeOfFour
  <2>. QED
    BY <2>1, <2>2, StepFree
<1>7. Step(Free(<<4, 1, 2, 3>>), {1, 2, 3, 4}, {}, "plain", "plain")
  <2>1. <<4, 1, 2, 3>> \in Seq(Slots) /\ IsInjective(<<4, 1, 2, 3>>)
    BY SlotsAre, RangeOfFour
  <2>2. Range(<<4, 1, 2, 3>>) \subseteq {1, 2, 3, 4} /\ {} = {1, 2, 3, 4} \ Range(<<4, 1, 2, 3>>)
    BY RangeOfFour
  <2>. QED
    BY <2>1, <2>2, StepFree
<1>8. Step(Free(<<3, 4, 2>>), {1, 2, 3, 4}, {1}, "plain", "plain")
  <2>1. <<3, 4, 2>> \in Seq(Slots) /\ IsInjective(<<3, 4, 2>>)
    BY SlotsAre, RangeOfThree
  <2>2. Range(<<3, 4, 2>>) \subseteq {1, 2, 3, 4} /\ {1} = {1, 2, 3, 4} \ Range(<<3, 4, 2>>)
    BY RangeOfThree
  <2>. QED
    BY <2>1, <2>2, StepFree
<1>. QED
  BY <1>1, <1>2, <1>3, <1>4, <1>5, <1>6, <1>7, <1>8

LEMMA NameSteps ==
  /\ Step(Bind(1), {1}, {}, "plain", "bound") /\ Step(Unbind(1), {}, {1}, "bound", "plain")
  /\ Step(Bind(4), {1, 2, 3, 4}, {1, 2, 3}, "plain", "bound")
  /\ Step(Unbind(4), {1, 2, 3}, {1, 2, 3, 4}, "bound", "plain")
<1>1. {} = {1} \ {1} /\ {1} = {} \cup {1} /\ {1, 2, 3} = {1, 2, 3, 4} \ {4}
      /\ {1, 2, 3, 4} = {1, 2, 3} \cup {4}
  OBVIOUS
<1>2. 1 \in Slots /\ 4 \in Slots
  BY SlotsAre
<1>. QED
  BY <1>1, <1>2, StepBind, StepUnbind

LEMMA OtherSteps ==
  /\ \A i \in 0 .. 5 : \A H : Step(Compile(i), H, H, "plain", "plain")
  /\ \A H : Step(Block, H, H, "plain", "plain") /\ Step(Block, H, H, "bound", "bound")
<1>1. \A i \in 0 .. 5 : i \in Slots \cup {Dest}
  BY SlotsAre DEF Dest
<1>. QED
  BY <1>1, StepCompile, StepBlock

\* Whatever can be done is a thing to do.
LEMMA StepIsTodo == \A t, H, H2, p, p2 : Step(t, H, H2, p, p2) => t \in Todo
  BY DEF Step, WellFormed


LEMMA UnaryExprPlan == Plan(UnaryExpr, {}, "plain")
<1>1. /\ Step(Alloc(<<1>>), {}, {1}, "plain", "plain")
      /\ Step(Compile(1), {1}, {1}, "plain", "plain")
      /\ Step(Free(<<1>>), {1}, {}, "plain", "plain")
  BY AllocSteps, FreeSteps, OtherSteps
<1> DEFINE held == <<{}, {1}, {1}, {}>>
           phase == [k \in 1 .. 4 |-> "plain"]
<1>2. UnaryExpr \in Seq(Todo) /\ Len(UnaryExpr) = 3
  <2>1. /\ Alloc(<<1>>) \in Todo
        /\ Compile(1) \in Todo
        /\ Free(<<1>>) \in Todo
    BY <1>1, StepIsTodo
  <2>. QED
    BY <2>1 DEF UnaryExpr
<1>3. Leads(UnaryExpr, held, phase, {}, "plain")
  <2>1. /\ held[1] = {} /\ phase[1] = "plain"
        /\ held[3 + 1] = {} /\ phase[3 + 1] = "plain"
    OBVIOUS
  <2>2. ASSUME NEW k \in 1 .. 3
        PROVE  Step(UnaryExpr[k], held[k], held[k + 1], phase[k], phase[k + 1])
    <3>1. k = 1 \/ k = 2 \/ k = 3
      OBVIOUS
    <3>. QED
      BY <1>1, <3>1 DEF UnaryExpr
  <2>. QED
    BY <1>2, <2>1, <2>2 DEF Leads
<1>. QED
  BY <1>2, <1>3 DEF Plan

LEMMA ExprStmtPlan == Plan(ExprStmt, {}, "plain")
<1>1. /\ Step(Alloc(<<1>>), {}, {1}, "plain", "plain")
      /\ Step(Compile(1), {1}, {1}, "plain", "plain")
      /\ Step(Free(<<1>>), {1}, {}, "plain", "plain")
  BY AllocSteps, FreeSteps, OtherSteps
<1> DEFINE held == <<{}, {1}, {1}, {}>>
           phase == [k \in 1 .. 4 |-> "plain"]
<1>2. ExprStmt \in Seq(Todo) /\ Len(ExprStmt) = 3
  <2>1. /\ Alloc(<<1>>) \in Todo
        /\ Compile(1) \in Todo
        /\ Free(<<1>>) \in Todo
    BY <1>1, StepIsTodo
  <2>. QED
    BY <2>1 DEF ExprStmt
<1>3. Leads(ExprStmt, held, phase, {}, "plain")
  <2>1. /\ held[1] = {} /\ phase[1] = "plain"
        /\ held[3 + 1] = {} /\ phase[3 + 1] = "plain"
    OBVIOUS
  <2>2. ASSUME NEW k \in 1 .. 3
        PROVE  Step(ExprStmt[k], held[k], held[k + 1], phase[k], phase[k + 1])
    <3>1. k = 1 \/ k = 2 \/ k = 3
      OBVIOUS
    <3>. QED
      BY <1>1, <3>1 DEF ExprStmt
  <2>. QED
    BY <1>2, <2>1, <2>2 DEF Leads
<1>. QED
  BY <1>2, <1>3 DEF Plan

LEMMA BinaryExprPlan == Plan(BinaryExpr, {}, "plain")
<1>1. /\ Step(Alloc(<<1, 2>>), {}, {1, 2}, "plain", "plain")
      /\ Step(Compile(1), {1, 2}, {1, 2}, "plain", "plain")
      /\ Step(Compile(2), {1, 2}, {1, 2}, "plain", "plain")
      /\ Step(Free(<<1, 2>>), {1, 2}, {}, "plain", "plain")
  BY AllocSteps, FreeSteps, OtherSteps
<1> DEFINE held == <<{}, {1, 2}, {1, 2}, {1, 2}, {}>>
           phase == [k \in 1 .. 5 |-> "plain"]
<1>2. BinaryExpr \in Seq(Todo) /\ Len(BinaryExpr) = 4
  <2>1. /\ Alloc(<<1, 2>>) \in Todo
        /\ Compile(1) \in Todo
        /\ Compile(2) \in Todo
        /\ Free(<<1, 2>>) \in Todo
    BY <1>1, StepIsTodo
  <2>. QED
    BY <2>1 DEF BinaryExpr
<1>3. Leads(BinaryExpr, held, phase, {}, "plain")
  <2>1. /\ held[1] = {} /\ phase[1] = "plain"
        /\ held[4 + 1] = {} /\ phase[4 + 1] = "plain"
    OBVIOUS
  <2>2. ASSUME NEW k \in 1 .. 4
        PROVE  Step(BinaryExpr[k], held[k], held[k + 1], phase[k], phase[k + 1])
    <3>1. k = 1 \/ k = 2 \/ k = 3 \/ k = 4
      OBVIOUS
    <3>. QED
      BY <1>1, <3>1 DEF BinaryExpr
  <2>. QED
    BY <1>2, <2>1, <2>2 DEF Leads
<1>. QED
  BY <1>2, <1>3 DEF Plan

LEMMA ShortCircuitPlan == Plan(ShortCircuit, {}, "plain")
<1>1. /\ Step(Compile(Dest), {}, {}, "plain", "plain")
  BY OtherSteps DEF Dest
<1> DEFINE held == <<{}, {}, {}>>
           phase == [k \in 1 .. 3 |-> "plain"]
<1>2. ShortCircuit \in Seq(Todo) /\ Len(ShortCircuit) = 2
  <2>1. /\ Compile(Dest) \in Todo
    BY <1>1, StepIsTodo
  <2>. QED
    BY <2>1 DEF ShortCircuit
<1>3. Leads(ShortCircuit, held, phase, {}, "plain")
  <2>1. /\ held[1] = {} /\ phase[1] = "plain"
        /\ held[2 + 1] = {} /\ phase[2 + 1] = "plain"
    OBVIOUS
  <2>2. ASSUME NEW k \in 1 .. 2
        PROVE  Step(ShortCircuit[k], held[k], held[k + 1], phase[k], phase[k + 1])
    <3>1. k = 1 \/ k = 2
      OBVIOUS
    <3>. QED
      BY <1>1, <3>1 DEF ShortCircuit
  <2>. QED
    BY <1>2, <2>1, <2>2 DEF Leads
<1>. QED
  BY <1>2, <1>3 DEF Plan

LEMMA TernaryExprPlan == Plan(TernaryExpr, {}, "plain")
<1>1. /\ Step(Alloc(<<1>>), {}, {1}, "plain", "plain")
      /\ Step(Compile(1), {1}, {1}, "plain", "plain")
      /\ Step(Free(<<1>>), {1}, {}, "plain", "plain")
      /\ Step(Compile(Dest), {}, {}, "plain", "plain")
  BY AllocSteps, FreeSteps, OtherSteps DEF Dest
<1> DEFINE held == <<{}, {1}, {1}, {}, {}, {}>>
           phase == [k \in 1 .. 6 |-> "plain"]
<1>2. TernaryExpr \in Seq(Todo) /\ Len(TernaryExpr) = 5
  <2>1. /\ Alloc(<<1>>) \in Todo
        /\ Compile(1) \in Todo
        /\ Free(<<1>>) \in Todo
        /\ Compile(Dest) \in Todo
    BY <1>1, StepIsTodo
  <2>. QED
    BY <2>1 DEF TernaryExpr
<1>3. Leads(TernaryExpr, held, phase, {}, "plain")
  <2>1. /\ held[1] = {} /\ phase[1] = "plain"
        /\ held[5 + 1] = {} /\ phase[5 + 1] = "plain"
    OBVIOUS
  <2>2. ASSUME NEW k \in 1 .. 5
        PROVE  Step(TernaryExpr[k], held[k], held[k + 1], phase[k], phase[k + 1])
    <3>1. k = 1 \/ k = 2 \/ k = 3 \/ k = 4 \/ k = 5
      OBVIOUS
    <3>. QED
      BY <1>1, <3>1 DEF TernaryExpr
  <2>. QED
    BY <1>2, <2>1, <2>2 DEF Leads
<1>. QED
  BY <1>2, <1>3 DEF Plan

LEMMA IndexExprPlan == Plan(IndexExpr, {}, "plain")
<1>1. /\ Step(Alloc(<<1>>), {}, {1}, "plain", "plain")
      /\ Step(Compile(1), {1}, {1}, "plain", "plain")
      /\ Step(Alloc(<<2>>), {1}, {1, 2}, "plain", "plain")
      /\ Step(Compile(2), {1, 2}, {1, 2}, "plain", "plain")
      /\ Step(Free(<<1, 2>>), {1, 2}, {}, "plain", "plain")
  BY AllocSteps, FreeSteps, OtherSteps
<1> DEFINE held == <<{}, {1}, {1}, {1, 2}, {1, 2}, {}>>
           phase == [k \in 1 .. 6 |-> "plain"]
<1>2. IndexExpr \in Seq(Todo) /\ Len(IndexExpr) = 5
  <2>1. /\ Alloc(<<1>>) \in Todo
        /\ Compile(1) \in Todo
        /\ Alloc(<<2>>) \in Todo
        /\ Compile(2) \in Todo
        /\ Free(<<1, 2>>) \in Todo
    BY <1>1, StepIsTodo
  <2>. QED
    BY <2>1 DEF IndexExpr
<1>3. Leads(IndexExpr, held, phase, {}, "plain")
  <2>1. /\ held[1] = {} /\ phase[1] = "plain"
        /\ held[5 + 1] = {} /\ phase[5 + 1] = "plain"
    OBVIOUS
  <2>2. ASSUME NEW k \in 1 .. 5
        PROVE  Step(IndexExpr[k], held[k], held[k + 1], phase[k], phase[k + 1])
    <3>1. k = 1 \/ k = 2 \/ k = 3 \/ k = 4 \/ k = 5
      OBVIOUS
    <3>. QED
      BY <1>1, <3>1 DEF IndexExpr
  <2>. QED
    BY <1>2, <2>1, <2>2 DEF Leads
<1>. QED
  BY <1>2, <1>3 DEF Plan

LEMMA MapExprPlan == Plan(MapExpr, {}, "plain")
<1>1. /\ Step(Alloc(<<1>>), {}, {1}, "plain", "plain")
      /\ Step(Compile(1), {1}, {1}, "plain", "plain")
      /\ Step(Alloc(<<2>>), {1}, {1, 2}, "plain", "plain")
      /\ Step(Compile(2), {1, 2}, {1, 2}, "plain", "plain")
      /\ Step(Free(<<1, 2>>), {1, 2}, {}, "plain", "plain")
  BY AllocSteps, FreeSteps, OtherSteps
<1> DEFINE held == <<{}, {1}, {1}, {1, 2}, {1, 2}, {}>>
           phase == [k \in 1 .. 6 |-> "plain"]
<1>2. MapExpr \in Seq(Todo) /\ Len(MapExpr) = 5
  <2>1. /\ Alloc(<<1>>) \in Todo
        /\ Compile(1) \in Todo
        /\ Alloc(<<2>>) \in Todo
        /\ Compile(2) \in Todo
        /\ Free(<<1, 2>>) \in Todo
    BY <1>1, StepIsTodo
  <2>. QED
    BY <2>1 DEF MapExpr
<1>3. Leads(MapExpr, held, phase, {}, "plain")
  <2>1. /\ held[1] = {} /\ phase[1] = "plain"
        /\ held[5 + 1] = {} /\ phase[5 + 1] = "plain"
    OBVIOUS
  <2>2. ASSUME NEW k \in 1 .. 5
        PROVE  Step(MapExpr[k], held[k], held[k + 1], phase[k], phase[k + 1])
    <3>1. k = 1 \/ k = 2 \/ k = 3 \/ k = 4 \/ k = 5
      OBVIOUS
    <3>. QED
      BY <1>1, <3>1 DEF MapExpr
  <2>. QED
    BY <1>2, <2>1, <2>2 DEF Leads
<1>. QED
  BY <1>2, <1>3 DEF Plan

LEMMA FieldExprPlan == Plan(FieldExpr, {}, "plain")
<1>1. /\ Step(Alloc(<<1>>), {}, {1}, "plain", "plain")
      /\ Step(Compile(1), {1}, {1}, "plain", "plain")
      /\ Step(Alloc(<<2>>), {1}, {1, 2}, "plain", "plain")
      /\ Step(Free(<<2, 1>>), {1, 2}, {}, "plain", "plain")
  BY AllocSteps, FreeSteps, OtherSteps
<1> DEFINE held == <<{}, {1}, {1}, {1, 2}, {}>>
           phase == [k \in 1 .. 5 |-> "plain"]
<1>2. FieldExpr \in Seq(Todo) /\ Len(FieldExpr) = 4
  <2>1. /\ Alloc(<<1>>) \in Todo
        /\ Compile(1) \in Todo
        /\ Alloc(<<2>>) \in Todo
        /\ Free(<<2, 1>>) \in Todo
    BY <1>1, StepIsTodo
  <2>. QED
    BY <2>1 DEF FieldExpr
<1>3. Leads(FieldExpr, held, phase, {}, "plain")
  <2>1. /\ held[1] = {} /\ phase[1] = "plain"
        /\ held[4 + 1] = {} /\ phase[4 + 1] = "plain"
    OBVIOUS
  <2>2. ASSUME NEW k \in 1 .. 4
        PROVE  Step(FieldExpr[k], held[k], held[k + 1], phase[k], phase[k + 1])
    <3>1. k = 1 \/ k = 2 \/ k = 3 \/ k = 4
      OBVIOUS
    <3>. QED
      BY <1>1, <3>1 DEF FieldExpr
  <2>. QED
    BY <1>2, <2>1, <2>2 DEF Leads
<1>. QED
  BY <1>2, <1>3 DEF Plan

LEMMA ArrayExprPlan == Plan(ArrayExpr, {}, "plain")
<1>1. /\ Step(Alloc(<<1, 2>>), {}, {1, 2}, "plain", "plain")
      /\ Step([do |-> "pair", at |-> <<1, 2>>], {1, 2}, {1, 2}, "plain", "plain")
      /\ Step(Compile(1), {1, 2}, {1, 2}, "plain", "plain")
      /\ Step(Compile(2), {1, 2}, {1, 2}, "plain", "plain")
      /\ Step(Free(<<1, 2>>), {1, 2}, {}, "plain", "plain")
  BY AllocSteps, FreeSteps, OtherSteps, StepOther
<1> DEFINE held == <<{}, {1, 2}, {1, 2}, {1, 2}, {1, 2}, {}>>
           phase == [k \in 1 .. 6 |-> "plain"]
<1>2. ArrayExpr \in Seq(Todo) /\ Len(ArrayExpr) = 5
  <2>1. /\ Alloc(<<1, 2>>) \in Todo
        /\ [do |-> "pair", at |-> <<1, 2>>] \in Todo
        /\ Compile(1) \in Todo
        /\ Compile(2) \in Todo
        /\ Free(<<1, 2>>) \in Todo
    BY <1>1, StepIsTodo
  <2>. QED
    BY <2>1 DEF ArrayExpr
<1>3. Leads(ArrayExpr, held, phase, {}, "plain")
  <2>1. /\ held[1] = {} /\ phase[1] = "plain"
        /\ held[5 + 1] = {} /\ phase[5 + 1] = "plain"
    OBVIOUS
  <2>2. ASSUME NEW k \in 1 .. 5
        PROVE  Step(ArrayExpr[k], held[k], held[k + 1], phase[k], phase[k + 1])
    <3>1. k = 1 \/ k = 2 \/ k = 3 \/ k = 4 \/ k = 5
      OBVIOUS
    <3>. QED
      BY <1>1, <3>1 DEF ArrayExpr
  <2>. QED
    BY <1>2, <2>1, <2>2 DEF Leads
<1>. QED
  BY <1>2, <1>3 DEF Plan

LEMMA FuncExprPlan == Plan(FuncExpr, {}, "plain")
<1>1. /\ Step([do |-> "func", at |-> <<>>], {}, {}, "plain", "plain")
  BY StepOther
<1> DEFINE held == <<{}, {}>>
           phase == [k \in 1 .. 2 |-> "plain"]
<1>2. FuncExpr \in Seq(Todo) /\ Len(FuncExpr) = 1
  <2>1. /\ [do |-> "func", at |-> <<>>] \in Todo
    BY <1>1, StepIsTodo
  <2>. QED
    BY <2>1 DEF FuncExpr
<1>3. Leads(FuncExpr, held, phase, {}, "plain")
  <2>1. held[1] = {} /\ held[2] = {} /\ phase[1] = "plain" /\ phase[2] = "plain"
    OBVIOUS
  <2>2. FuncExpr[1] = [do |-> "func", at |-> <<>>]
    BY DEF FuncExpr
  <2>. QED
    BY <1>1, <1>2, <2>1, <2>2 DEF Leads
<1>. QED
  BY <1>2, <1>3 DEF Plan

LEMMA LetStmtPlan == Plan(LetStmt, {}, "plain")
<1>1. /\ Step(Alloc(<<1>>), {}, {1}, "plain", "plain")
      /\ Step(Compile(1), {1}, {1}, "plain", "plain")
      /\ Step([do |-> "let", at |-> <<1>>], {1}, {}, "plain", "plain")
  BY AllocSteps, OtherSteps, StepOther
<1> DEFINE held == <<{}, {1}, {1}, {}>>
           phase == [k \in 1 .. 4 |-> "plain"]
<1>2. LetStmt \in Seq(Todo) /\ Len(LetStmt) = 3
  <2>1. /\ Alloc(<<1>>) \in Todo
        /\ Compile(1) \in Todo
        /\ [do |-> "let", at |-> <<1>>] \in Todo
    BY <1>1, StepIsTodo
  <2>. QED
    BY <2>1 DEF LetStmt
<1>3. Leads(LetStmt, held, phase, {}, "plain")
  <2>1. /\ held[1] = {} /\ phase[1] = "plain"
        /\ held[3 + 1] = {} /\ phase[3 + 1] = "plain"
    OBVIOUS
  <2>2. ASSUME NEW k \in 1 .. 3
        PROVE  Step(LetStmt[k], held[k], held[k + 1], phase[k], phase[k + 1])
    <3>1. k = 1 \/ k = 2 \/ k = 3
      OBVIOUS
    <3>. QED
      BY <1>1, <3>1 DEF LetStmt
  <2>. QED
    BY <1>2, <2>1, <2>2 DEF Leads
<1>. QED
  BY <1>2, <1>3 DEF Plan

LEMMA AssignLocalPlan == Plan(AssignLocal, {}, "plain")
<1>1. /\ Step(Compile(Dest), {}, {}, "plain", "plain")
  BY OtherSteps DEF Dest
<1> DEFINE held == <<{}, {}>>
           phase == [k \in 1 .. 2 |-> "plain"]
<1>2. AssignLocal \in Seq(Todo) /\ Len(AssignLocal) = 1
  <2>1. /\ Compile(Dest) \in Todo
    BY <1>1, StepIsTodo
  <2>. QED
    BY <2>1 DEF AssignLocal
<1>3. Leads(AssignLocal, held, phase, {}, "plain")
  <2>1. /\ held[1] = {} /\ phase[1] = "plain"
        /\ held[1 + 1] = {} /\ phase[1 + 1] = "plain"
    OBVIOUS
  <2>2. ASSUME NEW k \in 1 .. 1
        PROVE  Step(AssignLocal[k], held[k], held[k + 1], phase[k], phase[k + 1])
    <3>1. k = 1
      OBVIOUS
    <3>. QED
      BY <1>1, <3>1 DEF AssignLocal
  <2>. QED
    BY <1>2, <2>1, <2>2 DEF Leads
<1>. QED
  BY <1>2, <1>3 DEF Plan

LEMMA AssignIndexPlan == Plan(AssignIndex, {}, "plain")
<1>1. /\ Step(Alloc(<<1>>), {}, {1}, "plain", "plain")
      /\ Step(Compile(1), {1}, {1}, "plain", "plain")
      /\ Step(Alloc(<<2>>), {1}, {1, 2}, "plain", "plain")
      /\ Step(Compile(2), {1, 2}, {1, 2}, "plain", "plain")
      /\ Step(Alloc(<<3>>), {1, 2}, {1, 2, 3}, "plain", "plain")
      /\ Step(Compile(3), {1, 2, 3}, {1, 2, 3}, "plain", "plain")
      /\ Step(Free(<<1, 2, 3>>), {1, 2, 3}, {}, "plain", "plain")
  BY AllocSteps, FreeSteps, OtherSteps
<1> DEFINE held == <<{}, {1}, {1}, {1, 2}, {1, 2}, {1, 2, 3}, {1, 2, 3}, {}>>
           phase == [k \in 1 .. 8 |-> "plain"]
<1>2. AssignIndex \in Seq(Todo) /\ Len(AssignIndex) = 7
  <2>1. /\ Alloc(<<1>>) \in Todo
        /\ Compile(1) \in Todo
        /\ Alloc(<<2>>) \in Todo
        /\ Compile(2) \in Todo
        /\ Alloc(<<3>>) \in Todo
        /\ Compile(3) \in Todo
        /\ Free(<<1, 2, 3>>) \in Todo
    BY <1>1, StepIsTodo
  <2>. QED
    BY <2>1 DEF AssignIndex
<1>3. Leads(AssignIndex, held, phase, {}, "plain")
  <2>1. /\ held[1] = {} /\ phase[1] = "plain"
        /\ held[7 + 1] = {} /\ phase[7 + 1] = "plain"
    OBVIOUS
  <2>2. ASSUME NEW k \in 1 .. 7
        PROVE  Step(AssignIndex[k], held[k], held[k + 1], phase[k], phase[k + 1])
    <3>1. CASE k = 1
      BY <1>1, <3>1 DEF AssignIndex
    <3>2. CASE k = 2
      BY <1>1, <3>2 DEF AssignIndex
    <3>3. CASE k = 3
      BY <1>1, <3>3 DEF AssignIndex
    <3>4. CASE k = 4
      BY <1>1, <3>4 DEF AssignIndex
    <3>5. CASE k = 5
      BY <1>1, <3>5 DEF AssignIndex
    <3>6. CASE k = 6
      BY <1>1, <3>6 DEF AssignIndex
    <3>7. CASE k = 7
      BY <1>1, <3>7 DEF AssignIndex
    <3>. QED
      BY <3>1, <3>2, <3>3, <3>4, <3>5, <3>6, <3>7
  <2>. QED
    BY <1>2, <2>1, <2>2 DEF Leads
<1>. QED
  BY <1>2, <1>3 DEF Plan

LEMMA AssignFieldPlan == Plan(AssignField, {}, "plain")
<1>1. /\ Step(Alloc(<<1>>), {}, {1}, "plain", "plain")
      /\ Step(Compile(1), {1}, {1}, "plain", "plain")
      /\ Step(Alloc(<<2>>), {1}, {1, 2}, "plain", "plain")
      /\ Step(Compile(2), {1, 2}, {1, 2}, "plain", "plain")
      /\ Step(Alloc(<<3>>), {1, 2}, {1, 2, 3}, "plain", "plain")
      /\ Step(Free(<<3, 1, 2>>), {1, 2, 3}, {}, "plain", "plain")
  BY AllocSteps, FreeSteps, OtherSteps
<1> DEFINE held == <<{}, {1}, {1}, {1, 2}, {1, 2}, {1, 2, 3}, {}>>
           phase == [k \in 1 .. 7 |-> "plain"]
<1>2. AssignField \in Seq(Todo) /\ Len(AssignField) = 6
  <2>1. /\ Alloc(<<1>>) \in Todo
        /\ Compile(1) \in Todo
        /\ Alloc(<<2>>) \in Todo
        /\ Compile(2) \in Todo
        /\ Alloc(<<3>>) \in Todo
        /\ Free(<<3, 1, 2>>) \in Todo
    BY <1>1, StepIsTodo
  <2>. QED
    BY <2>1 DEF AssignField
<1>3. Leads(AssignField, held, phase, {}, "plain")
  <2>1. /\ held[1] = {} /\ phase[1] = "plain"
        /\ held[6 + 1] = {} /\ phase[6 + 1] = "plain"
    OBVIOUS
  <2>2. ASSUME NEW k \in 1 .. 6
        PROVE  Step(AssignField[k], held[k], held[k + 1], phase[k], phase[k + 1])
    <3>1. CASE k = 1
      BY <1>1, <3>1 DEF AssignField
    <3>2. CASE k = 2
      BY <1>1, <3>2 DEF AssignField
    <3>3. CASE k = 3
      BY <1>1, <3>3 DEF AssignField
    <3>4. CASE k = 4
      BY <1>1, <3>4 DEF AssignField
    <3>5. CASE k = 5
      BY <1>1, <3>5 DEF AssignField
    <3>6. CASE k = 6
      BY <1>1, <3>6 DEF AssignField
    <3>. QED
      BY <3>1, <3>2, <3>3, <3>4, <3>5, <3>6
  <2>. QED
    BY <1>2, <2>1, <2>2 DEF Leads
<1>. QED
  BY <1>2, <1>3 DEF Plan

LEMMA ForInStmtPlan == Plan(ForInStmt, {}, "plain")
<1>1. /\ Step(Alloc(<<1>>), {}, {1}, "plain", "plain")
      /\ Step(Compile(1), {1}, {1}, "plain", "plain")
      /\ Step(Alloc(<<2, 3, 4, 5>>), {1}, {1, 2, 3, 4, 5}, "plain", "plain")
      /\ Step(Free(<<5, 2, 3, 4>>), {1, 2, 3, 4, 5}, {1}, "plain", "plain")
      /\ Step(Alloc(<<2, 3, 4>>), {1}, {1, 2, 3, 4}, "plain", "plain")
      /\ Step(Bind(4), {1, 2, 3, 4}, {1, 2, 3}, "plain", "bound")
      /\ Step(Block, {1, 2, 3}, {1, 2, 3}, "bound", "bound")
      /\ Step(Unbind(4), {1, 2, 3}, {1, 2, 3, 4}, "bound", "plain")
      /\ Step(Free(<<4, 1, 2, 3>>), {1, 2, 3, 4}, {}, "plain", "plain")
  BY AllocSteps, FreeSteps, OtherSteps, NameSteps
<1> DEFINE held == <<{}, {1}, {1}, {1, 2, 3, 4, 5}, {1}, {1, 2, 3, 4}, {1, 2, 3}, {1, 2, 3}, {1, 2, 3, 4}, {}>>
           phase == [k \in 1 .. 10 |-> IF k \in {7, 8} THEN "bound" ELSE "plain"]
<1>2. ForInStmt \in Seq(Todo) /\ Len(ForInStmt) = 9
  <2>1. /\ Alloc(<<1>>) \in Todo
        /\ Compile(1) \in Todo
        /\ Alloc(<<2, 3, 4, 5>>) \in Todo
        /\ Free(<<5, 2, 3, 4>>) \in Todo
        /\ Alloc(<<2, 3, 4>>) \in Todo
        /\ Bind(4) \in Todo
        /\ Block \in Todo
        /\ Unbind(4) \in Todo
        /\ Free(<<4, 1, 2, 3>>) \in Todo
    BY <1>1, StepIsTodo
  <2>. QED
    BY <2>1 DEF ForInStmt
<1>3. Leads(ForInStmt, held, phase, {}, "plain")
  <2>1. /\ held[1] = {} /\ phase[1] = "plain"
        /\ held[9 + 1] = {} /\ phase[9 + 1] = "plain"
    OBVIOUS
  <2>2. ASSUME NEW k \in 1 .. 9
        PROVE  Step(ForInStmt[k], held[k], held[k + 1], phase[k], phase[k + 1])
    <3>1. CASE k = 1
      BY <1>1, <3>1 DEF ForInStmt
    <3>2. CASE k = 2
      BY <1>1, <3>2 DEF ForInStmt
    <3>3. CASE k = 3
      BY <1>1, <3>3 DEF ForInStmt
    <3>4. CASE k = 4
      BY <1>1, <3>4 DEF ForInStmt
    <3>5. CASE k = 5
      BY <1>1, <3>5 DEF ForInStmt
    <3>6. CASE k = 6
      BY <1>1, <3>6 DEF ForInStmt
    <3>7. CASE k = 7
      BY <1>1, <3>7 DEF ForInStmt
    <3>8. CASE k = 8
      BY <1>1, <3>8 DEF ForInStmt
    <3>9. CASE k = 9
      BY <1>1, <3>9 DEF ForInStmt
    <3>. QED
      BY <3>1, <3>2, <3>3, <3>4, <3>5, <3>6, <3>7, <3>8, <3>9
  <2>. QED
    BY <1>2, <2>1, <2>2 DEF Leads
<1>. QED
  BY <1>2, <1>3 DEF Plan

LEMMA SwitchStmtPlan == Plan(SwitchStmt, {}, "plain")
<1>1. /\ Step(Alloc(<<1>>), {}, {1}, "plain", "plain")
      /\ Step(Compile(1), {1}, {1}, "plain", "plain")
      /\ Step(Alloc(<<2, 3>>), {1}, {1, 2, 3}, "plain", "plain")
      /\ Step(Compile(3), {1, 2, 3}, {1, 2, 3}, "plain", "plain")
      /\ Step(Alloc(<<4>>), {1, 2, 3}, {1, 2, 3, 4}, "plain", "plain")
      /\ Step(Free(<<3, 4, 2>>), {1, 2, 3, 4}, {1}, "plain", "plain")
      /\ Step(Block, {1}, {1}, "plain", "plain")
      /\ Step(Free(<<1>>), {1}, {}, "plain", "plain")
  BY AllocSteps, FreeSteps, OtherSteps
<1> DEFINE held == <<{}, {1}, {1}, {1, 2, 3}, {1, 2, 3}, {1, 2, 3, 4}, {1}, {1}, {1}, {}>>
           phase == [k \in 1 .. 10 |-> "plain"]
<1>2. SwitchStmt \in Seq(Todo) /\ Len(SwitchStmt) = 9
  <2>1. /\ Alloc(<<1>>) \in Todo
        /\ Compile(1) \in Todo
        /\ Alloc(<<2, 3>>) \in Todo
        /\ Compile(3) \in Todo
        /\ Alloc(<<4>>) \in Todo
        /\ Free(<<3, 4, 2>>) \in Todo
        /\ Block \in Todo
        /\ Free(<<1>>) \in Todo
    BY <1>1, StepIsTodo
  <2>. QED
    BY <2>1 DEF SwitchStmt
<1>3. Leads(SwitchStmt, held, phase, {}, "plain")
  <2>1. /\ held[1] = {} /\ phase[1] = "plain"
        /\ held[9 + 1] = {} /\ phase[9 + 1] = "plain"
    OBVIOUS
  <2>2. ASSUME NEW k \in 1 .. 9
        PROVE  Step(SwitchStmt[k], held[k], held[k + 1], phase[k], phase[k + 1])
    <3>1. CASE k = 1
      BY <1>1, <3>1 DEF SwitchStmt
    <3>2. CASE k = 2
      BY <1>1, <3>2 DEF SwitchStmt
    <3>3. CASE k = 3
      BY <1>1, <3>3 DEF SwitchStmt
    <3>4. CASE k = 4
      BY <1>1, <3>4 DEF SwitchStmt
    <3>5. CASE k = 5
      BY <1>1, <3>5 DEF SwitchStmt
    <3>6. CASE k = 6
      BY <1>1, <3>6 DEF SwitchStmt
    <3>7. CASE k = 7
      BY <1>1, <3>7 DEF SwitchStmt
    <3>8. CASE k = 8
      BY <1>1, <3>8 DEF SwitchStmt
    <3>9. CASE k = 9
      BY <1>1, <3>9 DEF SwitchStmt
    <3>. QED
      BY <3>1, <3>2, <3>3, <3>4, <3>5, <3>6, <3>7, <3>8, <3>9
  <2>. QED
    BY <1>2, <2>1, <2>2 DEF Leads
<1>. QED
  BY <1>2, <1>3 DEF Plan

LEMMA TryStmtPlan == Plan(TryStmt, {}, "plain")
<1>1. /\ Step(Alloc(<<1>>), {}, {1}, "plain", "plain")
      /\ Step(Block, {1}, {1}, "plain", "plain")
      /\ Step(Bind(1), {1}, {}, "plain", "bound")
      /\ Step(Block, {}, {}, "bound", "bound")
      /\ Step(Unbind(1), {}, {1}, "bound", "plain")
      /\ Step(Free(<<1>>), {1}, {}, "plain", "plain")
  BY AllocSteps, FreeSteps, OtherSteps, NameSteps
<1> DEFINE held == <<{}, {1}, {1}, {}, {}, {1}, {}>>
           phase == [k \in 1 .. 7 |-> IF k \in {4, 5} THEN "bound" ELSE "plain"]
<1>2. TryStmt \in Seq(Todo) /\ Len(TryStmt) = 6
  <2>1. /\ Alloc(<<1>>) \in Todo
        /\ Block \in Todo
        /\ Bind(1) \in Todo
        /\ Unbind(1) \in Todo
        /\ Free(<<1>>) \in Todo
    BY <1>1, StepIsTodo
  <2>. QED
    BY <2>1 DEF TryStmt
<1>3. Leads(TryStmt, held, phase, {}, "plain")
  <2>1. /\ held[1] = {} /\ phase[1] = "plain"
        /\ held[6 + 1] = {} /\ phase[6 + 1] = "plain"
    OBVIOUS
  <2>2. ASSUME NEW k \in 1 .. 6
        PROVE  Step(TryStmt[k], held[k], held[k + 1], phase[k], phase[k + 1])
    <3>1. k = 1 \/ k = 2 \/ k = 3 \/ k = 4 \/ k = 5 \/ k = 6
      OBVIOUS
    <3>. QED
      BY <1>1, <3>1 DEF TryStmt
  <2>. QED
    BY <1>2, <2>1, <2>2 DEF Leads
<1>. QED
  BY <1>2, <1>3 DEF Plan

\* A function on 1 .. n with values in S is a sequence.
LEMMA FunctionIsSeq ==
  ASSUME NEW n \in Nat, NEW S, NEW f \in [1 .. n -> S]
  PROVE  f \in Seq(S) /\ Len(f) = n
<1>1. f \in Seq(S)
  BY SeqDef
<1>. QED
  BY <1>1, LenProperties

LEMMA UpToIs ==
  ASSUME NEW n \in 0 .. MaxArgs
  PROVE  /\ UpTo(n + 1) \in Seq(Slots) /\ Len(UpTo(n + 1)) = n + 1
         /\ Range(UpTo(n + 1)) = 1 .. n + 1 /\ IsInjective(UpTo(n + 1))
<1>1. n + 1 \in Nat /\ UpTo(n + 1) \in [1 .. n + 1 -> Slots]
  BY RegisterAssumption DEF UpTo, Slots
<1>2. Range(UpTo(n + 1)) = 1 .. n + 1 /\ IsInjective(UpTo(n + 1))
  BY <1>1 DEF UpTo, Range, IsInjective
<1>. QED
  BY <1>1, <1>2, FunctionIsSeq

LEMMA CallExprPlan ==
  ASSUME NEW n \in 0 .. MaxArgs
  PROVE  Plan(CallExpr(n), {}, "plain") /\ Len(CallExpr(n)) = n + 3
<1> DEFINE first == [do |-> "reserve", at |-> UpTo(n + 1)]
           args == [i \in 1 .. n + 1 |-> Compile(i)]
           last == Free(UpTo(n + 1))
           all == 1 .. n + 1
           held == [k \in 1 .. n + 4 |-> IF k = 1 \/ k = n + 4 THEN {} ELSE all]
           phase == [k \in 1 .. n + 4 |-> "plain"]
<1>1. n \in Nat
  BY RegisterAssumption
<1>2. Step(first, {}, all, "plain", "plain")
  <2>1. UpTo(n + 1) \in Seq(Nat) /\ UpTo(n + 1) \in Seq(Slots) /\ Range(UpTo(n + 1)) = all
    BY UpToIs, SlotsAre, SeqMonotonic
  <2>. QED
    BY <2>1 DEF Step, WellFormed, Needs, Taken, Given, Todo, Kind
<1>3. ASSUME NEW i \in 1 .. n + 1 PROVE Step(Compile(i), all, all, "plain", "plain")
  <2>1. i \in Slots
    BY <1>1, RegisterAssumption DEF Slots
  <2>. QED
    BY <2>1, StepCompile
<1>4. Step(last, all, {}, "plain", "plain")
  <2>1. {} = all \ Range(UpTo(n + 1)) /\ Range(UpTo(n + 1)) \subseteq all
    BY UpToIs
  <2>. QED
    BY <2>1, UpToIs, StepFree
<1>5. first \in Todo /\ last \in Todo /\ \A i \in 1 .. n + 1 : Compile(i) \in Todo
  BY <1>2, <1>3, <1>4, StepIsTodo
<1>6. args \in Seq(Todo) /\ Len(args) = n + 1 /\ \A i \in 1 .. n + 1 : args[i] = Compile(i)
  <2>1. args \in [1 .. n + 1 -> Todo] /\ n + 1 \in Nat
    BY <1>1, <1>5
  <2>. QED
    BY <2>1, FunctionIsSeq
<1>7. CallExpr(n) = (<<first>> \o args) \o <<last>>
  BY DEF CallExpr
<1> HIDE DEF first, args, last, all
<1>8. /\ <<first>> \in Seq(Todo) /\ Len(<<first>>) = 1 /\ <<first>>[1] = first
      /\ <<last>> \in Seq(Todo) /\ Len(<<last>>) = 1 /\ <<last>>[1] = last
  BY <1>5
<1>9. /\ <<first>> \o args \in Seq(Todo) /\ Len(<<first>> \o args) = n + 2
      /\ (<<first>> \o args)[1] = first
      /\ \A i \in 1 .. n + 1 : (<<first>> \o args)[i + 1] = Compile(i)
  BY <1>1, <1>6, <1>8, ConcatProperties
<1>10. /\ CallExpr(n) \in Seq(Todo) /\ Len(CallExpr(n)) = n + 3
       /\ CallExpr(n)[1] = first /\ CallExpr(n)[n + 3] = last
       /\ \A i \in 1 .. n + 1 : CallExpr(n)[i + 1] = Compile(i)
  <2> DEFINE p == <<first>> \o args
  <2> HIDE DEF p
  <2>1. p \in Seq(Todo) /\ Len(p) = n + 2 /\ p[1] = first
        /\ \A i \in 1 .. n + 1 : p[i + 1] = Compile(i)
    BY <1>9 DEF p
  <2>2. /\ p \o <<last>> \in Seq(Todo) /\ Len(p \o <<last>>) = n + 3
        /\ \A k \in 1 .. n + 2 : (p \o <<last>>)[k] = p[k]
        /\ (p \o <<last>>)[n + 3] = last
    BY <1>1, <1>8, <2>1, ConcatProperties
  <2>. QED
    BY <1>1, <1>7, <2>1, <2>2 DEF p
<1>11. /\ phase[1] = "plain" /\ held[1] = {}
       /\ \A k \in 1 .. n + 3 : /\ phase[k] = "plain" /\ phase[k + 1] = "plain"
                                /\ held[k] = IF k = 1 THEN {} ELSE all
                                /\ held[k + 1] = IF k = n + 3 THEN {} ELSE all
  BY <1>1
<1> HIDE DEF held, phase
<1>12. ASSUME NEW k \in 1 .. n + 3
       PROVE  Step(CallExpr(n)[k], held[k], held[k + 1], "plain", "plain")
  <2>2. CASE k = 1
    <3>1. held[k] = {} /\ held[k + 1] = all /\ CallExpr(n)[k] = first
      BY <1>1, <1>10, <1>11, <2>2
    <3>. QED
      BY <1>2, <3>1
  <2>3. CASE k = n + 3
    <3>1. held[k] = all /\ held[k + 1] = {} /\ CallExpr(n)[k] = last
      BY <1>1, <1>10, <1>11, <2>3
    <3>. QED
      BY <1>4, <3>1
  <2>4. CASE k \notin {1, n + 3}
    <3>1. PICK i \in 1 .. n + 1 : k = i + 1
      <4>1. k - 1 \in 1 .. n + 1 /\ k = (k - 1) + 1
        BY <1>1, <2>4
      <4>. QED
        BY <4>1
    <3>2. Step(Compile(i), all, all, "plain", "plain")
      BY <1>3
    <3>4. CallExpr(n)[k] = Compile(i)
      BY <1>10, <3>1
    <3>. QED
      BY <1>11, <2>4, <3>2, <3>4
  <2>. QED
    BY <2>2, <2>3, <2>4
<1>13. Leads(CallExpr(n), held, phase, {}, "plain")
  <2>1. held[(n + 3) + 1] = {} /\ phase[(n + 3) + 1] = "plain"
    BY <1>1, <1>11
  <2>. QED
    BY <1>1, <1>10, <1>11, <1>12, <2>1 DEF Leads
<1>. QED
  BY <1>10, <1>13 DEF Plan

LEMMA IfStmtPlan ==
  ASSUME NEW n \in Nat
  PROVE  Plan(IfStmt(n), {}, "plain") /\ Len(IfStmt(n)) = n + 3
<1> DEFINE held == [k \in 1 .. n + 4 |-> IF k \in {2, 3} THEN {1} ELSE {}]
           phase == [k \in 1 .. n + 4 |-> "plain"]
           branches == [i \in 1 .. n |-> Block]
           test == <<Alloc(<<1>>), Compile(1), Free(<<1>>)>>
<1>1. /\ Step(Alloc(<<1>>), {}, {1}, "plain", "plain")
      /\ Step(Compile(1), {1}, {1}, "plain", "plain")
      /\ Step(Free(<<1>>), {1}, {}, "plain", "plain")
      /\ Step(Block, {}, {}, "plain", "plain")
  BY AllocSteps, FreeSteps, OtherSteps
<1>2. Alloc(<<1>>) \in Todo /\ Compile(1) \in Todo /\ Free(<<1>>) \in Todo /\ Block \in Todo
  BY <1>1, StepIsTodo
<1>3. /\ test \in Seq(Todo) /\ Len(test) = 3
      /\ test[1] = Alloc(<<1>>) /\ test[2] = Compile(1) /\ test[3] = Free(<<1>>)
  BY <1>2
<1>4. branches \in Seq(Todo) /\ Len(branches) = n /\ \A i \in 1 .. n : branches[i] = Block
  <2>1. branches \in [1 .. n -> Todo]
    BY <1>2
  <2>. QED
    BY <2>1, FunctionIsSeq
<1>5. IfStmt(n) = test \o branches
  BY DEF IfStmt
<1> HIDE DEF test, branches
<1>6. /\ IfStmt(n) \in Seq(Todo) /\ Len(IfStmt(n)) = n + 3
      /\ \A k \in 1 .. 3 : IfStmt(n)[k] = test[k]
      /\ \A k \in 4 .. n + 3 : IfStmt(n)[k] = Block
  <2>1. /\ IfStmt(n) \in Seq(Todo) /\ Len(IfStmt(n)) = n + 3
        /\ \A k \in 1 .. 3 : IfStmt(n)[k] = test[k]
        /\ \A k \in 4 .. n + 3 : IfStmt(n)[k] = branches[k - 3]
    <3>1. /\ test \o branches \in Seq(Todo) /\ Len(test \o branches) = Len(test) + Len(branches)
          /\ \A k \in 1 .. Len(test) + Len(branches) :
               (test \o branches)[k] = IF k <= Len(test) THEN test[k] ELSE branches[k - Len(test)]
      BY <1>3, <1>4, ConcatProperties
    <3>. QED
      BY <1>3, <1>4, <1>5, <3>1
  <2>2. \A k \in 4 .. n + 3 : k - 3 \in 1 .. n
    OBVIOUS
  <2>. QED
    BY <1>4, <2>1, <2>2
<1>7. /\ phase[1] = "plain" /\ held[1] = {}
      /\ \A k \in 1 .. n + 3 : /\ phase[k] = "plain" /\ phase[k + 1] = "plain"
                               /\ held[k] = IF k \in {2, 3} THEN {1} ELSE {}
                               /\ held[k + 1] = IF k \in {1, 2} THEN {1} ELSE {}
  OBVIOUS
<1> HIDE DEF held, phase
<1>8. ASSUME NEW k \in 1 .. n + 3
      PROVE  Step(IfStmt(n)[k], held[k], held[k + 1], "plain", "plain")
  <2>1. CASE k \in 4 .. n + 3
    BY <1>1, <1>6, <1>7, <2>1
  <2>2. CASE k \in 1 .. 3
    <3>1. k = 1 \/ k = 2 \/ k = 3
      BY <2>2
    <3>. QED
      BY <1>1, <1>3, <1>6, <1>7, <3>1
  <2>. QED
    BY <2>1, <2>2
<1>9. Leads(IfStmt(n), held, phase, {}, "plain")
  <2>1. held[(n + 3) + 1] = {} /\ phase[(n + 3) + 1] = "plain"
    BY <1>7
  <2>. QED
    BY <1>6, <1>7, <1>8, <2>1 DEF Leads
<1>. QED
  BY <1>6, <1>9 DEF Plan

\* A program of expressions, statements and assignments.
Begins(todo) == todo # <<>> /\ Plan(todo, {}, "plain")

LEMMA BlockPlan == Begins(<<Block>>)
<1>1. Step(Block, {}, {}, "plain", "plain") /\ Block \in Todo
  BY OtherSteps, StepIsTodo
<1> DEFINE held == [k \in 1 .. 2 |-> {}]
           phase == [k \in 1 .. 2 |-> "plain"]
<1>2. <<Block>> \in Seq(Todo) /\ Len(<<Block>>) = 1 /\ <<Block>>[1] = Block /\ <<Block>> # <<>>
  BY <1>1
<1>3. Leads(<<Block>>, held, phase, {}, "plain")
  BY <1>1, <1>2 DEF Leads
<1>. QED
  BY <1>2, <1>3 DEF Plan, Begins

LEMMA NotEmpty == \A s \in Seq(Todo) : Len(s) > 0 => s # <<>>
  BY EmptySeq

LEMMA ExpressionsBegin == \A todo \in Expressions : Begins(todo)
<1>1. /\ Begins(UnaryExpr) /\ Begins(BinaryExpr) /\ Begins(ShortCircuit) /\ Begins(TernaryExpr)
      /\ Begins(IndexExpr) /\ Begins(FieldExpr) /\ Begins(ArrayExpr) /\ Begins(MapExpr)
      /\ Begins(FuncExpr)
  <2>1. Begins(UnaryExpr)
    BY UnaryExprPlan DEF UnaryExpr, Begins
  <2>2. Begins(BinaryExpr)
    BY BinaryExprPlan DEF BinaryExpr, Begins
  <2>3. Begins(ShortCircuit)
    BY ShortCircuitPlan DEF ShortCircuit, Begins
  <2>4. Begins(TernaryExpr)
    BY TernaryExprPlan DEF TernaryExpr, Begins
  <2>5. Begins(IndexExpr)
    BY IndexExprPlan DEF IndexExpr, Begins
  <2>6. Begins(FieldExpr)
    BY FieldExprPlan DEF FieldExpr, Begins
  <2>7. Begins(ArrayExpr)
    BY ArrayExprPlan DEF ArrayExpr, Begins
  <2>8. Begins(MapExpr)
    BY MapExprPlan DEF MapExpr, Begins
  <2>9. Begins(FuncExpr)
    BY FuncExprPlan DEF FuncExpr, Begins
  <2>. QED
    BY <2>1, <2>2, <2>3, <2>4, <2>5, <2>6, <2>7, <2>8, <2>9
<1>2. ASSUME NEW n \in 0 .. MaxArgs PROVE Begins(CallExpr(n))
  <2>1. CallExpr(n) \in Seq(Todo) /\ Len(CallExpr(n)) > 0
    BY CallExprPlan, RegisterAssumption DEF Plan
  <2>. QED
    BY <2>1, CallExprPlan, NotEmpty DEF Begins
<1>. QED
  BY <1>1, <1>2 DEF Expressions

LEMMA StatementsBegin == Begins(AssignLocal) /\ \A todo \in Statements : Begins(todo)
<1>1. Begins(LetStmt)
  BY LetStmtPlan DEF LetStmt, Begins
<1>2. Begins(ExprStmt)
  BY ExprStmtPlan DEF ExprStmt, Begins
<1>3. Begins(AssignIndex)
  BY AssignIndexPlan DEF AssignIndex, Begins
<1>4. Begins(AssignField)
  BY AssignFieldPlan DEF AssignField, Begins
<1>5. Begins(IfStmt(1)) /\ Begins(IfStmt(2))
  <2>1. ASSUME NEW n \in Nat PROVE Begins(IfStmt(n))
    <3>1. IfStmt(n) \in Seq(Todo) /\ Len(IfStmt(n)) > 0
      BY IfStmtPlan DEF Plan
    <3>. QED
      BY <3>1, IfStmtPlan, NotEmpty DEF Begins
  <2>. QED
    BY <2>1
<1>6. Begins(ForInStmt)
  BY ForInStmtPlan DEF ForInStmt, Begins
<1>7. Begins(SwitchStmt)
  BY SwitchStmtPlan DEF SwitchStmt, Begins
<1>8. Begins(TryStmt)
  BY TryStmtPlan DEF TryStmt, Begins
<1>9. Begins(AssignLocal)
  BY AssignLocalPlan DEF AssignLocal, Begins
<1>. QED
  BY <1>1, <1>2, <1>3, <1>4, <1>5, <1>6, <1>7, <1>8, <1>9, BlockPlan DEF Statements

\* What a plan begins with is possible, and the rest is a plan.
LEMMA PlanNext ==
  ASSUME NEW todo, NEW H, NEW p, Plan(todo, H, p), todo # <<>>
  PROVE  \E H2, p2 : Step(Head(todo), H, H2, p, p2) /\ Plan(Tail(todo), H2, p2)
<1> DEFINE n == Len(todo)
<1>1. todo \in Seq(Todo)
  BY DEF Plan
<1>2. /\ n \in Nat /\ n > 0 /\ Head(todo) = todo[1]
      /\ Tail(todo) \in Seq(Todo) /\ Len(Tail(todo)) = n - 1
      /\ \A k \in 1 .. n - 1 : Tail(todo)[k] = todo[k + 1]
  BY <1>1, HeadTailProperties, LenProperties, EmptySeq
<1>3. PICK held, phase : Leads(todo, held, phase, H, p)
  BY DEF Plan
<1> DEFINE h == [k \in 1 .. n |-> held[k + 1]]
           q == [k \in 1 .. n |-> phase[k + 1]]
<1>4. \A k \in 1 .. n : Step(todo[k], held[k], held[k + 1], phase[k], phase[k + 1])
  BY <1>3 DEF Leads
<1>5. Step(Head(todo), H, held[2], p, phase[2])
  <2>1. held[1] = H /\ phase[1] = p
    BY <1>3 DEF Leads
  <2>2. Step(todo[1], held[1], held[1 + 1], phase[1], phase[1 + 1])
    BY <1>2, <1>4
  <2>. QED
    BY <1>2, <2>1, <2>2
<1>6. h[1] = held[2] /\ q[1] = phase[2]
  BY <1>2
<1>7. ASSUME NEW k \in 1 .. n - 1
      PROVE  Step(Tail(todo)[k], h[k], h[k + 1], q[k], q[k + 1])
  <2>1. k \in 1 .. n /\ k + 1 \in 1 .. n
    BY <1>2
  <2>2. Step(todo[k + 1], held[k + 1], held[(k + 1) + 1], phase[k + 1], phase[(k + 1) + 1])
    BY <1>4, <2>1
  <2>3. h[k] = held[k + 1] /\ h[k + 1] = held[(k + 1) + 1]
        /\ q[k] = phase[k + 1] /\ q[k + 1] = phase[(k + 1) + 1]
    BY <2>1
  <2>. QED
    BY <1>2, <2>2, <2>3
<1> HIDE DEF h, q
<1>9. h[(n - 1) + 1] = {} /\ q[(n - 1) + 1] = "plain"
  <2>1. held[n + 1] = {} /\ phase[n + 1] = "plain"
    BY <1>3 DEF Leads
  <2>2. (n - 1) + 1 = n /\ n \in 1 .. n
    BY <1>2
  <2>. QED
    BY <2>1, <2>2 DEF h, q
<1>8. Leads(Tail(todo), h, q, held[2], phase[2])
  BY <1>2, <1>6, <1>7, <1>9 DEF Leads, n
<1>. QED
  BY <1>2, <1>5, <1>8 DEF Plan

-----------------------------------------------------------------------------
(* Registers change hands.                                                 *)

LEMMA NoRegIs == NoReg \notin Reg /\ NoReg \notin Names /\ NoReg = Bytes /\ Bytes \in Nat
                   /\ \A r \in Reg : r \in Nat /\ r < Bytes
  BY RegisterAssumption DEF NoReg, Reg

\* The variables of the functions in cs hold registers or none.
LEMMA SlotType ==
  ASSUME NEW cs \in Seq(Call), NEW c \in 1 .. Len(cs)
  PROVE  /\ cs[c] \in Call
         /\ \A i \in Slots : cs[c].slot[i] \in Reg \cup {NoReg}
         /\ \A x \in Names : cs[c].scope[x] \in Reg \cup {NoReg}
<1>1. cs[c] \in Call
  BY ElementOfSeq
<1>. QED
  BY <1>1 DEF Call, Scope

\* Owners may go.
LEMMA FewerFit ==
  ASSUME NEW cs \in Seq(Call), NEW n \in 0 .. Len(cs), NEW loc, NEW free \in Seq(Reg), NEW next \in Nat,
         NEW cs2 \in Seq(Call), NEW n2 \in 0 .. Len(cs2), NEW loc2, NEW free2 \in Seq(Reg), NEW next2 \in Nat,
         Fits(cs, n, loc, free, next), next <= next2,
         \A c \in 1 .. n2, i \in Slots : cs2[c].slot[i] # NoReg =>
           c \in 1 .. n /\ cs2[c].slot[i] = cs[c].slot[i],
         \A x \in Names, r \in Reg : Named(cs2, n2, loc2, x, r) => Named(cs, n, loc, x, r),
         \A k \in 1 .. Len(free2) : k \in 1 .. Len(free) /\ free2[k] = free[k]
  PROVE  Fits(cs2, n2, loc2, free2, next2)
<1>1. SUFFICES ASSUME next2 <= Bytes
               PROVE  /\ TemporariesFit(cs2, n2, loc2, free2, next2)
                      /\ NamesFit(cs2, n2, loc2, free2, next2)
                      /\ FreeFit(free2, next2)
  BY DEF Fits
<1>2. /\ TemporariesFit(cs, n, loc, free, next)
      /\ NamesFit(cs, n, loc, free, next)
      /\ FreeFit(free, next)
  BY <1>1, NoRegIs DEF Fits
<1>3. \A c \in 1 .. n2, i \in Slots : cs2[c].slot[i] \in Reg \cup {NoReg}
  BY SlotType
<1>4. TemporariesFit(cs2, n2, loc2, free2, next2)
  <2>1. SUFFICES ASSUME NEW c \in 1 .. n2, NEW i \in Slots, cs2[c].slot[i] # NoReg
                 PROVE  /\ cs2[c].slot[i] < next2
                        /\ \A d \in 1 .. n2, j \in Slots :
                             cs2[d].slot[j] = cs2[c].slot[i] => d = c /\ j = i
                        /\ \A x \in Names : ~Named(cs2, n2, loc2, x, cs2[c].slot[i])
                        /\ \A k \in 1 .. Len(free2) : free2[k] # cs2[c].slot[i]
    BY DEF TemporariesFit
  <2> DEFINE r == cs2[c].slot[i]
  <2>2. c \in 1 .. n /\ r = cs[c].slot[i] /\ r \in Reg
    BY <1>3, <2>1
  <2>3. /\ r < next
        /\ \A d \in 1 .. n, j \in Slots : cs[d].slot[j] = r => d = c /\ j = i
        /\ \A x \in Names : ~Named(cs, n, loc, x, r)
        /\ \A k \in 1 .. Len(free) : free[k] # r
    BY <1>2, <2>1, <2>2 DEF TemporariesFit
  <2>4. r < next2
    BY <2>2, <2>3, NoRegIs
  <2>5. \A d \in 1 .. n2, j \in Slots : cs2[d].slot[j] = r => d = c /\ j = i
    BY <2>1, <2>3
  <2>. QED
    BY <2>2, <2>3, <2>4, <2>5
<1>5. NamesFit(cs2, n2, loc2, free2, next2)
  <2>1. SUFFICES ASSUME NEW x \in Names, NEW r \in Reg, Named(cs2, n2, loc2, x, r)
                 PROVE  /\ r < next2
                        /\ \A y \in Names : Named(cs2, n2, loc2, y, r) => y = x
                        /\ \A k \in 1 .. Len(free2) : free2[k] # r
    BY DEF NamesFit
  <2>2. /\ r < next
        /\ \A y \in Names : Named(cs, n, loc, y, r) => y = x
        /\ \A k \in 1 .. Len(free) : free[k] # r
    BY <1>2, <2>1 DEF NamesFit
  <2>3. r < next2
    BY <2>2, NoRegIs
  <2>. QED
    BY <2>2, <2>3
<1>6. FreeFit(free2, next2)
  <2>1. \A k \in 1 .. Len(free2) : free2[k] < next2
    <3>1. \A k \in 1 .. Len(free2) : free2[k] \in Nat
      BY ElementOfSeq, NoRegIs
    <3>. QED
      BY <1>2, <3>1 DEF FreeFit
  <2>. QED
    BY <1>2, <2>1 DEF FreeFit
<1>. QED
  BY <1>4, <1>5, <1>6

\* Register r has no owner.
Unowned(cs, n, loc, free, r) ==
  /\ \A c \in 1 .. n, i \in Slots : cs[c].slot[i] # r
  /\ \A x \in Names : ~Named(cs, n, loc, x, r)
  /\ \A k \in 1 .. Len(free) : free[k] # r

\* The functions below the n-th, and the scope that it will restore, stay.
SameBelow(cs, cs2, n) ==
  /\ n \in 1 .. Len(cs) /\ n \in 1 .. Len(cs2)
  /\ \A c \in 1 .. n - 1 : cs2[c] = cs[c]

\* Variables G of the n-th function get registers that nobody owns.
LEMMA GrantFits ==
  ASSUME NEW cs \in Seq(Call), NEW cs2 \in Seq(Call), NEW n, SameBelow(cs, cs2, n),
         cs2[n].scope = cs[n].scope,
         NEW loc, NEW free \in Seq(Reg), NEW next \in Nat, Fits(cs, n, loc, free, next),
         NEW G \in SUBSET Slots,
         \A i \in Slots \ G : cs2[n].slot[i] = cs[n].slot[i],
         next <= Bytes =>
           /\ \A i \in G : /\ cs2[n].slot[i] < next
                           /\ Unowned(cs, n, loc, free, cs2[n].slot[i])
           /\ \A i, j \in G : cs2[n].slot[i] = cs2[n].slot[j] => i = j
  PROVE  Fits(cs2, n, loc, free, next)
<1>1. SUFFICES ASSUME next <= Bytes
               PROVE  /\ TemporariesFit(cs2, n, loc, free, next)
                      /\ NamesFit(cs2, n, loc, free, next)
                      /\ FreeFit(free, next)
  BY DEF Fits
<1>2. /\ TemporariesFit(cs, n, loc, free, next)
      /\ NamesFit(cs, n, loc, free, next)
      /\ FreeFit(free, next)
  BY <1>1 DEF Fits
<1>3. n \in Nat /\ n > 0 /\ n \in 1 .. Len(cs) /\ n \in 1 .. Len(cs2)
  BY LenProperties DEF SameBelow
<1>4. \A x, r : Named(cs2, n, loc, x, r) <=> Named(cs, n, loc, x, r)
  <2>1. \A c \in 1 .. n : cs2[c].scope = cs[c].scope
    <3>1. \A c \in 1 .. n : c = n \/ c \in 1 .. n - 1
      BY <1>3
    <3>. QED
      BY <3>1 DEF SameBelow
  <2>. QED
    BY <2>1 DEF Named
<1>5. \A c \in 1 .. n, i \in Slots :
        (c = n /\ i \in G) \/ cs2[c].slot[i] = cs[c].slot[i]
  <2>1. \A c \in 1 .. n : c = n \/ c \in 1 .. n - 1
    BY <1>3
  <2>. QED
    BY <2>1 DEF SameBelow
<1>6. TemporariesFit(cs2, n, loc, free, next)
  <2>1. SUFFICES ASSUME NEW c \in 1 .. n, NEW i \in Slots, cs2[c].slot[i] # NoReg
                 PROVE  /\ cs2[c].slot[i] < next
                        /\ \A d \in 1 .. n, j \in Slots :
                             cs2[d].slot[j] = cs2[c].slot[i] => d = c /\ j = i
                        /\ \A x \in Names : ~Named(cs2, n, loc, x, cs2[c].slot[i])
                        /\ \A k \in 1 .. Len(free) : free[k] # cs2[c].slot[i]
    BY DEF TemporariesFit
  <2> DEFINE r == cs2[c].slot[i]
  <2>2. CASE c = n /\ i \in G
    <3>1. r < next /\ Unowned(cs, n, loc, free, r)
          /\ \A j \in G : cs2[n].slot[j] = r => j = i
      BY <1>1, <2>2
    <3> HIDE DEF r
    <3>2. \A d \in 1 .. n, j \in Slots : cs2[d].slot[j] = r => d = c /\ j = i
      BY <1>5, <2>2, <3>1 DEF Unowned
    <3>3. (\A x \in Names : ~Named(cs2, n, loc, x, r)) /\ \A k \in 1 .. Len(free) : free[k] # r
      BY <1>4, <3>1 DEF Unowned
    <3>. QED
      BY <3>1, <3>2, <3>3 DEF r
  <2>3. CASE ~(c = n /\ i \in G)
    <3>1. r = cs[c].slot[i]
      BY <1>5, <2>3
    <3>2. /\ r < next
          /\ \A d \in 1 .. n, j \in Slots : cs[d].slot[j] = r => d = c /\ j = i
          /\ \A x \in Names : ~Named(cs, n, loc, x, r)
          /\ \A k \in 1 .. Len(free) : free[k] # r
      BY <1>2, <2>1, <3>1 DEF TemporariesFit
    <3>3. \A j \in G : cs2[n].slot[j] # r
      BY <1>1, <3>1 DEF Unowned
    <3>4. \A d \in 1 .. n, j \in Slots : cs2[d].slot[j] = r => d = c /\ j = i
      BY <1>5, <3>2, <3>3
    <3>. QED
      BY <1>4, <3>2, <3>4
  <2>. QED
    BY <2>2, <2>3
<1>7. NamesFit(cs2, n, loc, free, next)
  BY <1>2, <1>4 DEF NamesFit
<1>. QED
  BY <1>2, <1>6, <1>7

\* Variables at of the n-th function give their registers to the list.
LEMMA FreeFits ==
  ASSUME NEW cs \in Seq(Call), NEW cs2 \in Seq(Call), NEW n, SameBelow(cs, cs2, n),
         cs2[n].scope = cs[n].scope,
         NEW loc, NEW free \in Seq(Reg), NEW free2 \in Seq(Reg), NEW next \in Nat,
         Fits(cs, n, loc, free, next),
         NEW at \in Seq(Slots), IsInjective(at),
         \A i \in Slots \ Range(at) : cs2[n].slot[i] \in {cs[n].slot[i], NoReg},
         \A i \in Range(at) : cs[n].slot[i] # NoReg /\ cs2[n].slot[i] = NoReg,
         Len(free2) = Len(free) + Len(at),
         \A k \in 1 .. Len(free) : free2[k] = free[k],
         \A j \in 1 .. Len(at) : free2[Len(free) + j] = cs[n].slot[at[j]]
  PROVE  Fits(cs2, n, loc, free2, next)
<1>1. SUFFICES ASSUME next <= Bytes
               PROVE  /\ TemporariesFit(cs2, n, loc, free2, next)
                      /\ NamesFit(cs2, n, loc, free2, next)
                      /\ FreeFit(free2, next)
  BY DEF Fits
<1>2. /\ TemporariesFit(cs, n, loc, free, next)
      /\ NamesFit(cs, n, loc, free, next)
      /\ FreeFit(free, next)
  BY <1>1 DEF Fits
<1>3. n \in Nat /\ n > 0 /\ n \in 1 .. Len(cs) /\ n \in 1 .. Len(cs2)
      /\ Len(free) \in Nat /\ Len(at) \in Nat
  BY LenProperties DEF SameBelow
<1>4. \A x, r : Named(cs2, n, loc, x, r) <=> Named(cs, n, loc, x, r)
  <2>1. \A c \in 1 .. n : cs2[c].scope = cs[c].scope
    <3>1. \A c \in 1 .. n : c = n \/ c \in 1 .. n - 1
      BY <1>3
    <3>. QED
      BY <3>1 DEF SameBelow
  <2>. QED
    BY <2>1 DEF Named
<1>5. \A c \in 1 .. n, i \in Slots : cs2[c].slot[i] # NoReg =>
        cs2[c].slot[i] = cs[c].slot[i] /\ (c = n => i \notin Range(at))
  <2>1. \A c \in 1 .. n : c = n \/ c \in 1 .. n - 1
    BY <1>3
  <2>2. \A c \in 1 .. n - 1 : cs2[c] = cs[c] /\ c # n
    BY <1>3 DEF SameBelow
  <2>. QED
    BY <2>1, <2>2
<1>6. \A k \in 1 .. Len(free2) : \/ k \in 1 .. Len(free)
                                  \/ \E j \in 1 .. Len(at) : k = Len(free) + j
  <2>1. ASSUME NEW k \in 1 .. Len(free2), k \notin 1 .. Len(free)
        PROVE  k - Len(free) \in 1 .. Len(at) /\ k = Len(free) + (k - Len(free))
    BY <1>3, <2>1
  <2>. QED
    BY <2>1
<1>7. \A j \in 1 .. Len(at) : at[j] \in Slots /\ at[j] \in Range(at)
  <2>1. DOMAIN at = 1 .. Len(at)
    BY LenProperties
  <2>. QED
    BY <2>1, ElementOfSeq DEF Range
\* What a register is not: in the list before, or in a variable that is freed.
<1> DEFINE Lent(j) == cs[n].slot[at[j]]
<1>11. ASSUME NEW k \in 1 .. Len(free2)
       PROVE  \/ k \in 1 .. Len(free) /\ free2[k] = free[k]
              \/ \E j \in 1 .. Len(at) : k = Len(free) + j /\ free2[k] = Lent(j)
  <2>1. CASE k \in 1 .. Len(free)
    BY <2>1
  <2>2. CASE k \notin 1 .. Len(free)
    <3>1. PICK j \in 1 .. Len(at) : k = Len(free) + j
      BY <1>6, <2>2
    <3>2. free2[Len(free) + j] = Lent(j)
      OBVIOUS
    <3>. QED
      BY <3>1, <3>2
  <2>. QED
    BY <2>1, <2>2
<1> HIDE DEF Lent
<1>8. TemporariesFit(cs2, n, loc, free2, next)
  <2>1. SUFFICES ASSUME NEW c \in 1 .. n, NEW i \in Slots, cs2[c].slot[i] # NoReg
                 PROVE  /\ cs2[c].slot[i] < next
                        /\ \A d \in 1 .. n, j \in Slots :
                             cs2[d].slot[j] = cs2[c].slot[i] => d = c /\ j = i
                        /\ \A x \in Names : ~Named(cs2, n, loc, x, cs2[c].slot[i])
                        /\ \A k \in 1 .. Len(free2) : free2[k] # cs2[c].slot[i]
    BY DEF TemporariesFit
  <2> DEFINE r == cs2[c].slot[i]
  <2>2. r = cs[c].slot[i] /\ r # NoReg /\ (c = n => i \notin Range(at))
    BY <1>5, <2>1
  <2> HIDE DEF r
  <2>3. /\ r < next
        /\ \A d \in 1 .. n, j \in Slots : cs[d].slot[j] = r => d = c /\ j = i
        /\ \A x \in Names : ~Named(cs, n, loc, x, r)
        /\ \A k \in 1 .. Len(free) : free[k] # r
    BY <1>2, <2>2 DEF TemporariesFit
  <2>4. \A d \in 1 .. n, j \in Slots : cs2[d].slot[j] = r => d = c /\ j = i
    BY <1>5, <2>2, <2>3
  <2>5. ASSUME NEW j \in 1 .. Len(at), Lent(j) = r PROVE FALSE
    <3>1. at[j] \in Slots /\ at[j] \in Range(at) /\ cs[n].slot[at[j]] = r /\ n \in 1 .. n
      BY <1>3, <1>7, <2>5 DEF Lent
    <3>2. n = c /\ at[j] = i
      BY <2>3, <3>1
    <3>. QED
      BY <2>2, <3>1, <3>2
  <2>6. ASSUME NEW k \in 1 .. Len(free2) PROVE free2[k] # r
    <3>1. CASE k \in 1 .. Len(free) /\ free2[k] = free[k]
      BY <2>3, <3>1
    <3>2. CASE \E j \in 1 .. Len(at) : k = Len(free) + j /\ free2[k] = Lent(j)
      BY <2>5, <3>2
    <3>. QED
      BY <1>11, <3>1, <3>2
  <2>. QED
    BY <1>4, <2>3, <2>4, <2>6 DEF r
<1>12. ASSUME NEW j \in 1 .. Len(at)
       PROVE  /\ Lent(j) < next
              /\ \A x \in Names : ~Named(cs, n, loc, x, Lent(j))
              /\ \A k \in 1 .. Len(free) : free[k] # Lent(j)
              /\ \A l \in 1 .. Len(at) : Lent(l) = Lent(j) => l = j
  <2> DEFINE i == at[j]
  <2>1. n \in 1 .. n /\ i \in Slots /\ cs[n].slot[i] # NoReg /\ Lent(j) = cs[n].slot[i]
    BY <1>3, <1>7 DEF Lent
  <2> HIDE DEF i
  <2>2. /\ cs[n].slot[i] < next
        /\ \A d \in 1 .. n, h \in Slots : cs[d].slot[h] = cs[n].slot[i] => d = n /\ h = i
        /\ \A x \in Names : ~Named(cs, n, loc, x, cs[n].slot[i])
        /\ \A k \in 1 .. Len(free) : free[k] # cs[n].slot[i]
    BY <1>2, <2>1 DEF TemporariesFit
  <2>3. ASSUME NEW l \in 1 .. Len(at), Lent(l) = Lent(j) PROVE l = j
    <3>1. at[l] \in Slots /\ cs[n].slot[at[l]] = cs[n].slot[i]
      BY <1>7, <2>1, <2>3 DEF Lent
    <3>2. at[l] = at[j]
      BY <2>1, <2>2, <3>1 DEF i
    <3>3. DOMAIN at = 1 .. Len(at)
      BY LenProperties
    <3>. QED
      BY <3>2, <3>3 DEF IsInjective
  <2>. QED
    BY <2>1, <2>2, <2>3
<1>9. NamesFit(cs2, n, loc, free2, next)
  <2>1. SUFFICES ASSUME NEW x \in Names, NEW r \in Reg, Named(cs, n, loc, x, r)
                 PROVE  \A k \in 1 .. Len(free2) : free2[k] # r
    BY <1>2, <1>4 DEF NamesFit
  <2>2. \A k \in 1 .. Len(free) : free[k] # r
    BY <1>2, <2>1 DEF NamesFit
  <2>3. ASSUME NEW j \in 1 .. Len(at) PROVE Lent(j) # r
    <3>1. ~Named(cs, n, loc, x, Lent(j))
      BY <1>12
    <3>. QED
      BY <2>1, <3>1
  <2>4. ASSUME NEW k \in 1 .. Len(free2) PROVE free2[k] # r
    <3>1. CASE k \in 1 .. Len(free) /\ free2[k] = free[k]
      BY <2>2, <3>1
    <3>2. CASE \E j \in 1 .. Len(at) : k = Len(free) + j /\ free2[k] = Lent(j)
      BY <2>3, <3>2
    <3>. QED
      BY <1>11, <3>1, <3>2
  <2>. QED
    BY <2>4
<1>10. FreeFit(free2, next)
  <2>1. /\ \A k \in 1 .. Len(free) : free[k] < next
        /\ \A k, l \in 1 .. Len(free) : free[l] = free[k] => l = k
    BY <1>2 DEF FreeFit
  <2>2. \A k \in 1 .. Len(free2) : free2[k] < next
    BY <1>11, <1>12, <2>1
  <2>3. ASSUME NEW k \in 1 .. Len(free2), NEW l \in 1 .. Len(free2), free2[l] = free2[k]
        PROVE  l = k
    <3>1. CASE k \in 1 .. Len(free) /\ free2[k] = free[k]
      <4>1. CASE l \in 1 .. Len(free) /\ free2[l] = free[l]
        BY <2>1, <2>3, <3>1, <4>1
      <4>2. CASE \E j \in 1 .. Len(at) : l = Len(free) + j /\ free2[l] = Lent(j)
        BY <1>12, <2>3, <3>1, <4>2
      <4>. QED
        BY <1>11, <4>1, <4>2
    <3>2. CASE \E j \in 1 .. Len(at) : k = Len(free) + j /\ free2[k] = Lent(j)
      <4>1. CASE l \in 1 .. Len(free) /\ free2[l] = free[l]
        BY <1>12, <2>3, <3>2, <4>1
      <4>2. CASE \E j \in 1 .. Len(at) : l = Len(free) + j /\ free2[l] = Lent(j)
        BY <1>12, <2>3, <3>2, <4>2
      <4>. QED
        BY <1>11, <4>1, <4>2
    <3>. QED
      BY <1>11, <3>1, <3>2
  <2>. QED
    BY <2>2, <2>3 DEF FreeFit
<1>. QED
  BY <1>8, <1>9, <1>10

\* Variable s of the n-th function gives its register to the name z.
LEMMA NameFits ==
  ASSUME NEW cs \in Seq(Call), NEW cs2 \in Seq(Call), NEW n, SameBelow(cs, cs2, n),
         NEW loc, NEW loc2, NEW free \in Seq(Reg), NEW next \in Nat,
         Fits(cs, n, loc, free, next),
         NEW s \in Slots, cs[n].slot[s] # NoReg, cs2[n].slot[s] = NoReg,
         \A i \in Slots \ {s} : cs2[n].slot[i] = cs[n].slot[i],
         NEW z \in Names,
         \A x \in Names, r \in Reg : Named(cs2, n, loc2, x, r) =>
           Named(cs, n, loc, x, r) \/ (x = z /\ r = cs[n].slot[s])
  PROVE  Fits(cs2, n, loc2, free, next)
<1>1. SUFFICES ASSUME next <= Bytes
               PROVE  /\ TemporariesFit(cs2, n, loc2, free, next)
                      /\ NamesFit(cs2, n, loc2, free, next)
                      /\ FreeFit(free, next)
  BY DEF Fits
<1>2. /\ TemporariesFit(cs, n, loc, free, next)
      /\ NamesFit(cs, n, loc, free, next)
      /\ FreeFit(free, next)
  BY <1>1 DEF Fits
<1>3. n \in Nat /\ n > 0 /\ n \in 1 .. Len(cs) /\ n \in 1 .. Len(cs2)
  BY LenProperties DEF SameBelow
<1> DEFINE q == cs[n].slot[s]
<1>4. /\ q < next /\ q \in Reg
      /\ \A d \in 1 .. n, j \in Slots : cs[d].slot[j] = q => d = n /\ j = s
      /\ \A x \in Names : ~Named(cs, n, loc, x, q)
      /\ \A k \in 1 .. Len(free) : free[k] # q
  BY <1>2, <1>3, SlotType DEF TemporariesFit
<1>5. \A c \in 1 .. n, i \in Slots : cs2[c].slot[i] # NoReg =>
        cs2[c].slot[i] = cs[c].slot[i] /\ ~(c = n /\ i = s)
  <2>1. \A c \in 1 .. n : c = n \/ c \in 1 .. n - 1
    BY <1>3
  <2>2. \A c \in 1 .. n - 1 : cs2[c] = cs[c] /\ c # n
    BY <1>3 DEF SameBelow
  <2>. QED
    BY <2>1, <2>2
<1> HIDE DEF q
<1>6. \A x \in Names, r \in Reg : Named(cs2, n, loc2, x, r) =>
        Named(cs, n, loc, x, r) \/ (x = z /\ r = q)
  BY DEF q
<1>7. TemporariesFit(cs2, n, loc2, free, next)
  <2>1. SUFFICES ASSUME NEW c \in 1 .. n, NEW i \in Slots, cs2[c].slot[i] # NoReg
                 PROVE  /\ cs2[c].slot[i] < next
                        /\ \A d \in 1 .. n, j \in Slots :
                             cs2[d].slot[j] = cs2[c].slot[i] => d = c /\ j = i
                        /\ \A x \in Names : ~Named(cs2, n, loc2, x, cs2[c].slot[i])
                        /\ \A k \in 1 .. Len(free) : free[k] # cs2[c].slot[i]
    BY DEF TemporariesFit
  <2> DEFINE r == cs2[c].slot[i]
  <2>2. r = cs[c].slot[i] /\ r # NoReg /\ ~(c = n /\ i = s) /\ r \in Reg
    <3>1. r \in Reg \cup {NoReg}
      BY <1>3, SlotType
    <3>. QED
      BY <1>5, <2>1, <3>1
  <2> HIDE DEF r
  <2>3. /\ r < next
        /\ \A d \in 1 .. n, j \in Slots : cs[d].slot[j] = r => d = c /\ j = i
        /\ \A x \in Names : ~Named(cs, n, loc, x, r)
        /\ \A k \in 1 .. Len(free) : free[k] # r
    BY <1>2, <2>2 DEF TemporariesFit
  <2>4. \A d \in 1 .. n, j \in Slots : cs2[d].slot[j] = r => d = c /\ j = i
    BY <1>5, <2>2, <2>3
  <2>5. r # q
    BY <1>4, <2>2
  <2>6. \A x \in Names : ~Named(cs2, n, loc2, x, r)
    BY <1>6, <2>2, <2>3, <2>5
  <2>. QED
    BY <2>3, <2>4, <2>6 DEF r
<1>8. NamesFit(cs2, n, loc2, free, next)
  <2>1. ASSUME NEW x \in Names, NEW r \in Reg, Named(cs2, n, loc2, x, r)
        PROVE  /\ r < next
               /\ \A y \in Names : Named(cs2, n, loc2, y, r) => y = x
               /\ \A k \in 1 .. Len(free) : free[k] # r
    <3>1. CASE r = q
      BY <1>4, <1>6, <2>1, <3>1
    <3>2. CASE r # q
      BY <1>2, <1>6, <2>1, <3>2 DEF NamesFit
    <3>. QED
      BY <3>1, <3>2
  <2>. QED
    BY <2>1 DEF NamesFit
<1>. QED
  BY <1>2, <1>7, <1>8

-----------------------------------------------------------------------------
(* The compile functions in progress.                                      *)

\* A sequence without its last elements, and without the last one.
LEMMA PrefixIs ==
  ASSUME NEW S, NEW s \in Seq(S), NEW n \in 0 .. Len(s)
  PROVE  /\ SubSeq(s, 1, n) \in Seq(S) /\ Len(SubSeq(s, 1, n)) = n
         /\ \A k \in 1 .. n : SubSeq(s, 1, n)[k] = s[k]
<1>1. \A k \in 1 .. n : s[k] \in S
  BY LenProperties, ElementOfSeq
<1>. QED
  BY <1>1, LenProperties, SubSeqProperties

LEMMA FrontIs ==
  ASSUME NEW cs \in Seq(Call), cs # <<>>
  PROVE  /\ Front(cs) \in Seq(Call) /\ Len(Front(cs)) = Len(cs) - 1
         /\ Len(cs) \in Nat /\ Len(cs) > 0
         /\ \A k \in 1 .. Len(cs) - 1 : Front(cs)[k] = cs[k]
         /\ Last(cs) = cs[Len(cs)] /\ cs[Len(cs)] \in Call
<1>1. Len(cs) \in Nat /\ Len(cs) > 0
  BY LenProperties, EmptySeq
<1>2. cs[Len(cs)] \in Call
  BY <1>1, ElementOfSeq
<1>3. Len(cs) - 1 \in 0 .. Len(cs)
  BY <1>1
<1>. QED
  BY <1>1, <1>2, <1>3, PrefixIs DEF Front, Last

\* cs with c in the place of its last element.
Replaced(cs, c) == Append(Front(cs), c)

LEMMA ReplacedIs ==
  ASSUME NEW cs \in Seq(Call), cs # <<>>, NEW c \in Call
  PROVE  /\ Replaced(cs, c) \in Seq(Call) /\ Len(Replaced(cs, c)) = Len(cs)
         /\ Replaced(cs, c) # <<>>
         /\ \A k \in 1 .. Len(cs) - 1 : Replaced(cs, c)[k] = cs[k]
         /\ Replaced(cs, c)[Len(cs)] = c
         /\ Len(cs) \in Nat /\ Len(cs) > 0
<1> DEFINE f == Front(cs)
<1>1. /\ f \in Seq(Call) /\ Len(f) = Len(cs) - 1 /\ Len(cs) \in Nat /\ Len(cs) > 0
      /\ \A k \in 1 .. Len(cs) - 1 : f[k] = cs[k]
  BY FrontIs
<1> HIDE DEF f
<1>2. /\ Append(f, c) \in Seq(Call) /\ Append(f, c) # <<>>
      /\ Len(Append(f, c)) = Len(f) + 1
      /\ \A k \in 1 .. Len(f) : Append(f, c)[k] = f[k]
      /\ Append(f, c)[Len(f) + 1] = c
  BY <1>1, AppendProperties
<1>3. (Len(cs) - 1) + 1 = Len(cs)
  BY <1>1
<1>. QED
  BY <1>1, <1>2, <1>3 DEF Replaced, f

\* What is said of the first n functions depends on no others.
LEMMA SameFits ==
  ASSUME NEW cs \in Seq(Call), NEW cs2 \in Seq(Call), NEW n \in Nat,
         n <= Len(cs), n <= Len(cs2), \A c \in 1 .. n : cs2[c] = cs[c],
         NEW loc, NEW free \in Seq(Reg), NEW next \in Nat, Fits(cs, n, loc, free, next)
  PROVE  Fits(cs2, n, loc, free, next)
<1>1. n \in 0 .. Len(cs) /\ n \in 0 .. Len(cs2) /\ next <= next
  BY LenProperties
<1>2. \A x \in Names, r \in Reg : Named(cs2, n, loc, x, r) => Named(cs, n, loc, x, r)
  BY DEF Named
<1>3. \A c \in 1 .. n, i \in Slots : cs2[c].slot[i] # NoReg =>
        c \in 1 .. n /\ cs2[c].slot[i] = cs[c].slot[i]
  OBVIOUS
<1>. QED
  BY <1>1, <1>2, <1>3, FewerFit

\* The list of free registers may be emptied.
LEMMA NoneFits ==
  ASSUME NEW cs, NEW n, NEW loc, NEW free, NEW next, Fits(cs, n, loc, free, next)
  PROVE  Fits(cs, n, loc, <<>>, next)
<1>1. \A k \in 1 .. Len(<<>>) : FALSE
  OBVIOUS
<1>. QED
  BY <1>1 DEF Fits, TemporariesFit, NamesFit, FreeFit

LEMMA SameBound ==
  ASSUME NEW cs, NEW cs2, NEW c \in Nat, c > 0, \A d \in 1 .. c : cs2[d] = cs[d],
         NEW loc, NEW next, BoundIn(cs, c, loc, next)
  PROVE  BoundIn(cs2, c, loc, next)
  BY DEF BoundIn

LEMMA NoNameBound ==
  ASSUME NEW cs, NEW c, cs[c].name = NoReg, NEW loc, NEW next
  PROVE  BoundIn(cs, c, loc, next)
  BY DEF BoundIn

\* What holds of the functions below the last holds without it.
LEMMA BelowKeeps ==
  ASSUME NEW cs \in Seq(Call), NEW cs2 \in Seq(Call), NEW n \in Nat,
         n <= Len(cs), n <= Len(cs2), \A c \in 1 .. n : cs2[c] = cs[c],
         NEW loc, NEW free, NEW next, InOrder(cs, loc, free, next)
  PROVE  /\ \A k \in 1 .. n : Sound(cs2[k])
         /\ \A k \in 1 .. n : cs2[k].block => Fits(cs2, k - 1, cs2[k].scope, <<>>, cs2[k].next)
         /\ \A c \in 1 .. n - 1 : Resumes(cs2, c)
<1>1. AllFit(cs, loc, free, next) /\ AllBound(cs, loc, next) /\ \A c \in 1 .. Len(cs) : Sound(cs[c])
  BY DEF InOrder
<1>2. Len(cs) \in Nat /\ Len(cs2) \in Nat
  BY LenProperties
<1>3. \A k \in 1 .. n : Sound(cs2[k])
  BY <1>1, <1>2
<1>4. ASSUME NEW k \in 1 .. n, cs2[k].block
      PROVE  Fits(cs2, k - 1, cs2[k].scope, <<>>, cs2[k].next)
  <2>1. k \in 1 .. Len(cs) /\ cs2[k] = cs[k]
    BY <1>2
  <2> DEFINE m == k - 1
             sc == cs[k].scope
             nx == cs[k].next
  <2>2. Fits(cs, m, sc, <<>>, nx)
    BY <1>1, <1>4, <2>1 DEF AllFit
  <2>3. m \in Nat /\ m <= Len(cs) /\ m <= Len(cs2) /\ \A c \in 1 .. m : cs2[c] = cs[c]
    BY <1>2
  <2>4. nx \in Nat /\ <<>> \in Seq(Reg)
    <3>1. cs[k] \in Call
      BY <2>1, ElementOfSeq
    <3>2. cs[k].next \in Nat
      BY <3>1 DEF Call
    <3>. QED
      BY <3>2
  <2> HIDE DEF m, sc, nx
  <2>5. Fits(cs2, m, sc, <<>>, nx)
    BY <2>2, <2>3, <2>4, SameFits
  <2>. QED
    BY <2>1, <2>5 DEF m, sc, nx
<1>5. ASSUME NEW c \in 1 .. n - 1 PROVE Resumes(cs2, c)
  <2>1. /\ c \in Nat /\ c > 0 /\ c \in 1 .. Len(cs) - 1
        /\ cs2[c] = cs[c] /\ cs2[c + 1] = cs[c + 1] /\ \A d \in 1 .. c : cs2[d] = cs[d]
    BY <1>2
  <2>2. Resumes(cs, c)
    BY <1>1, <2>1 DEF AllBound
  <2>3. BoundIn(cs, c, cs[c + 1].scope, cs[c + 1].next) /\ (cs[c].name # NoReg => cs[c + 1].block)
    BY <2>2 DEF Resumes
  <2>4. BoundIn(cs2, c, cs[c + 1].scope, cs[c + 1].next)
    BY <2>1, <2>3, SameBound
  <2>. QED
    BY <2>1, <2>3, <2>4 DEF Resumes
<1>. QED
  BY <1>3, <1>4, <1>5

\* The last function, which is no block, becomes c2.
LEMMA ReplaceKeeps ==
  ASSUME NEW cs, NEW loc, NEW free, NEW next, InOrder(cs, loc, free, next),
         cs # <<>>, ~cs[Len(cs)].block,
         NEW c2 \in Call, ~c2.block, Plan(c2.todo, HeldIn(c2), Phase(c2)),
         NEW loc2 \in Scope, NEW free2 \in Seq(Reg), NEW next2 \in Nat,
         Fits(Replaced(cs, c2), Len(cs), loc2, free2, next2),
         BoundIn(Replaced(cs, c2), Len(cs), loc2, next2)
  PROVE  InOrder(Replaced(cs, c2), loc2, free2, next2)
<1> DEFINE n == Len(cs)
           s == Replaced(cs, c2)
<1>1. cs \in Seq(Call) /\ AllFit(cs, loc, free, next) /\ AllBound(cs, loc, next)
      /\ \A c \in 1 .. n : Sound(cs[c])
  BY DEF InOrder
<1>2. /\ s \in Seq(Call) /\ Len(s) = n /\ s # <<>> /\ n \in Nat /\ n > 0
      /\ \A k \in 1 .. n - 1 : s[k] = cs[k]
      /\ s[n] = c2
  BY <1>1, ReplacedIs
<1> HIDE DEF s
<1>3. \A k \in 1 .. n : k = n \/ k \in 1 .. n - 1
  BY <1>2
<1>4. /\ \A k \in 1 .. n - 1 : Sound(s[k])
      /\ \A k \in 1 .. n - 1 : s[k].block => Fits(s, k - 1, s[k].scope, <<>>, s[k].next)
      /\ \A c \in 1 .. (n - 1) - 1 : Resumes(s, c)
  <2>1. n - 1 \in Nat /\ n - 1 <= Len(cs) /\ n - 1 <= Len(s)
    BY <1>2
  <2>. QED
    BY <1>1, <1>2, <2>1, BelowKeeps
<1>5. \A k \in 1 .. n : Sound(s[k])
  BY <1>2, <1>3, <1>4 DEF Sound
<1>6. AllFit(s, loc2, free2, next2)
  <2>1. Fits(s, n, loc2, free2, next2)
    BY DEF s
  <2>2. \A k \in 1 .. n : s[k].block => k \in 1 .. n - 1
    BY <1>2, <1>3
  <2>. QED
    BY <1>2, <1>4, <2>1, <2>2 DEF AllFit
<1>7. AllBound(s, loc2, next2)
  <2>1. BoundIn(s, Len(s), loc2, next2)
    BY <1>2 DEF s
  <2>2. ASSUME NEW c \in 1 .. n - 1 PROVE Resumes(s, c)
    <3>1. CASE c + 1 = n
      <4>1. Resumes(cs, c) /\ s[c] = cs[c]
        BY <1>1, <1>2 DEF AllBound
      <4>2. s[c].name = NoReg
        BY <3>1, <4>1 DEF Resumes
      <4>. QED
        BY <4>2, NoNameBound DEF Resumes
    <3>2. CASE c + 1 # n
      BY <1>2, <1>4, <3>2
    <3>. QED
      BY <3>1, <3>2
  <2>. QED
    BY <1>2, <2>1, <2>2 DEF AllBound
<1>. QED
  BY <1>2, <1>5, <1>6, <1>7 DEF InOrder, s

\* No name is bound for the function that goes on: the next one it calls need
\* not be a block.
Unbound(cs) == cs # <<>> => cs[Len(cs)].name = NoReg

\* The last function, which is no block, returns.
LEMMA ReturnKeeps ==
  ASSUME NEW cs, NEW loc, NEW free, NEW next, InOrder(cs, loc, free, next),
         cs # <<>>, ~cs[Len(cs)].block
  PROVE  InOrder(Front(cs), loc, free, next) /\ Unbound(Front(cs))
<1> DEFINE n == Len(cs)
           f == Front(cs)
<1>1. /\ cs \in Seq(Call) /\ loc \in Scope /\ free \in Seq(Reg) /\ next \in Nat
      /\ AllFit(cs, loc, free, next) /\ AllBound(cs, loc, next)
  BY DEF InOrder
<1>2. /\ f \in Seq(Call) /\ Len(f) = n - 1 /\ n \in Nat /\ n > 0
      /\ \A k \in 1 .. n - 1 : f[k] = cs[k]
  BY <1>1, FrontIs
<1> HIDE DEF f
<1>3. n - 1 \in Nat /\ n - 1 <= Len(cs) /\ n - 1 <= Len(f)
  BY <1>2
<1>4. /\ \A k \in 1 .. n - 1 : Sound(f[k])
      /\ \A k \in 1 .. n - 1 : f[k].block => Fits(f, k - 1, f[k].scope, <<>>, f[k].next)
      /\ \A c \in 1 .. (n - 1) - 1 : Resumes(f, c)
  BY <1>1, <1>2, <1>3, BelowKeeps
<1>5. Fits(f, n - 1, loc, free, next)
  <2>1. Fits(cs, n, loc, free, next)
    BY <1>1 DEF AllFit
  <2>2. n \in 0 .. Len(cs) /\ n - 1 \in 0 .. Len(f) /\ next <= next
    BY <1>1, <1>2
  <2>3. \A x \in Names, r \in Reg : Named(f, n - 1, loc, x, r) => Named(cs, n, loc, x, r)
    <3>1. \A c \in 1 .. n - 1 : c \in 1 .. n /\ f[c].scope = cs[c].scope
      BY <1>2
    <3>. QED
      BY <3>1 DEF Named
  <2>4. \A c \in 1 .. n - 1, i \in Slots : f[c].slot[i] # NoReg =>
          c \in 1 .. n /\ f[c].slot[i] = cs[c].slot[i]
    BY <1>2
  <2>5. cs \in Seq(Call) /\ f \in Seq(Call) /\ free \in Seq(Reg) /\ next \in Nat
    BY <1>1, <1>2
  <2> DEFINE m == n - 1
  <2>6. /\ m \in 0 .. Len(f)
        /\ \A x \in Names, r \in Reg : Named(f, m, loc, x, r) => Named(cs, n, loc, x, r)
        /\ \A c \in 1 .. m, i \in Slots : f[c].slot[i] # NoReg =>
             c \in 1 .. n /\ f[c].slot[i] = cs[c].slot[i]
    BY <2>2, <2>3, <2>4
  <2> HIDE DEF m, n
  <2>7. n \in 0 .. Len(cs) /\ next <= next /\ Fits(cs, n, loc, free, next)
    BY <2>1, <2>2
  <2>8. Fits(f, m, loc, free, next)
    BY <2>5, <2>6, <2>7, FewerFit
  <2>. QED
    BY <2>8 DEF m
<1>6. AllFit(f, loc, free, next)
  BY <1>2, <1>4, <1>5 DEF AllFit
<1>7. ASSUME f # <<>> PROVE f[Len(f)].name = NoReg
  <2>1. n - 1 \in 1 .. n - 1 /\ (n - 1) + 1 = n
    BY <1>2, <1>7, EmptySeq
  <2>2. Resumes(cs, n - 1)
    BY <1>1, <2>1 DEF AllBound
  <2>3. cs[n - 1].name = NoReg
    BY <2>1, <2>2 DEF Resumes
  <2>. QED
    BY <1>2, <2>1, <2>3
<1>8. AllBound(f, loc, next)
  <2>1. f # <<>> => BoundIn(f, Len(f), loc, next)
    BY <1>7, NoNameBound
  <2>. QED
    BY <1>2, <1>4, <2>1 DEF AllBound
<1>. QED
  BY <1>1, <1>2, <1>4, <1>6, <1>7, <1>8 DEF InOrder, Unbound, f

\* A function is called, which holds no register yet.
LEMMA CallKeeps ==
  ASSUME NEW cs, NEW loc, NEW free, NEW next, InOrder(cs, loc, free, next),
         NEW d \in Call, Sound(d), HeldIn(d) = {}, d.name = NoReg,
         \A x \in Names : d.scope[x] \in {NoReg, loc[x]},
         d.block => d.scope = loc /\ d.next = next,
         ~d.block => Unbound(cs)
  PROVE  InOrder(Append(cs, d), loc, free, next)
<1> DEFINE n == Len(cs)
           s == Append(cs, d)
<1>1. /\ cs \in Seq(Call) /\ loc \in Scope /\ free \in Seq(Reg) /\ next \in Nat
      /\ AllFit(cs, loc, free, next) /\ AllBound(cs, loc, next)
  BY DEF InOrder
<1>2. /\ s \in Seq(Call) /\ Len(s) = n + 1 /\ n \in Nat /\ s # <<>>
      /\ \A k \in 1 .. n : s[k] = cs[k]
      /\ s[n + 1] = d
  BY <1>1, AppendProperties, LenProperties
<1> HIDE DEF s
<1>3. \A k \in 1 .. n + 1 : k = n + 1 \/ k \in 1 .. n
  BY <1>2
<1>4. /\ \A k \in 1 .. n : Sound(s[k])
      /\ \A k \in 1 .. n : s[k].block => Fits(s, k - 1, s[k].scope, <<>>, s[k].next)
      /\ \A c \in 1 .. n - 1 : Resumes(s, c)
  <2>1. n <= Len(cs) /\ n <= Len(s)
    BY <1>2
  <2>. QED
    BY <1>1, <1>2, <2>1, BelowKeeps
<1>5. Fits(cs, n, loc, free, next)
  BY <1>1 DEF AllFit
<1>6. \A c \in 1 .. n + 1, i \in Slots : s[c].slot[i] # NoReg =>
        c \in 1 .. n /\ s[c].slot[i] = cs[c].slot[i]
  <2>1. \A i \in Slots : d.slot[i] = NoReg
    BY DEF HeldIn
  <2>. QED
    BY <1>2, <1>3, <2>1
<1>7. \A x \in Names, r \in Reg : Named(s, n + 1, loc, x, r) => Named(cs, n, loc, x, r)
  <2>1. ASSUME NEW x \in Names, NEW r \in Reg, NEW c \in 1 .. n + 1, s[c].scope[x] = r
        PROVE  Named(cs, n, loc, x, r)
    <3>1. CASE c = n + 1
      BY <1>2, <2>1, <3>1, NoRegIs DEF Named
    <3>2. CASE c \in 1 .. n
      BY <1>2, <2>1, <3>2 DEF Named
    <3>. QED
      BY <1>3, <3>1, <3>2
  <2>. QED
    BY <2>1 DEF Named
<1>8. Fits(s, n + 1, loc, free, next)
  <2>1. n \in 0 .. Len(cs) /\ n + 1 \in 0 .. Len(s) /\ next <= next
    BY <1>1, <1>2
  <2>. QED
    BY <1>1, <1>2, <1>5, <1>6, <1>7, <2>1, FewerFit
<1>9. ASSUME d.block PROVE Fits(s, (n + 1) - 1, d.scope, <<>>, d.next)
  <2>1. n <= Len(cs) /\ n <= Len(s) /\ (n + 1) - 1 = n
    BY <1>2
  <2>2. Fits(s, n, loc, free, next)
    BY <1>1, <1>2, <1>5, <2>1, SameFits
  <2>. QED
    BY <1>9, <2>1, <2>2, NoneFits
<1>10. AllFit(s, loc, free, next)
  <2>1. ASSUME NEW k \in 1 .. n + 1, s[k].block PROVE Fits(s, k - 1, s[k].scope, <<>>, s[k].next)
    <3>1. CASE k = n + 1
      BY <1>2, <1>9, <2>1, <3>1
    <3>2. CASE k \in 1 .. n
      BY <1>4, <2>1, <3>2
    <3>. QED
      BY <1>3, <3>1, <3>2
  <2>. QED
    BY <1>2, <1>8, <2>1 DEF AllFit
<1>11. AllBound(s, loc, next)
  <2>1. BoundIn(s, Len(s), loc, next)
    BY <1>2, NoNameBound
  <2>2. ASSUME NEW c \in 1 .. n PROVE Resumes(s, c)
    <3>1. CASE c \in 1 .. n - 1
      BY <1>4, <3>1
    <3>2. CASE c = n
      <4>1. BoundIn(cs, n, loc, next) /\ n > 0 /\ cs # <<>> /\ s[n] = cs[n] /\ s[n + 1] = d
        <5>1. n > 0 /\ cs # <<>>
          BY <1>2, <3>2, EmptySeq
        <5>. QED
          BY <1>1, <1>2, <3>2, <5>1 DEF AllBound
      <4>2. BoundIn(s, n, loc, next)
        BY <1>2, <4>1, SameBound
      <4>3. CASE d.block
        BY <3>2, <4>1, <4>2, <4>3 DEF Resumes
      <4>4. CASE ~d.block
        <5>1. s[n].name = NoReg
          BY <4>1, <4>4 DEF Unbound
        <5>. QED
          BY <3>2, <5>1, NoNameBound DEF Resumes
      <4>. QED
        BY <4>3, <4>4
    <3>. QED
      BY <1>2, <3>1, <3>2
  <2>3. Len(s) - 1 = n
    BY <1>2
  <2>. QED
    BY <2>1, <2>2, <2>3 DEF AllBound
<1>12. \A k \in 1 .. Len(s) : Sound(s[k])
  BY <1>2, <1>3, <1>4
<1>. QED
  BY <1>1, <1>2, <1>10, <1>11, <1>12 DEF InOrder, s

\* The last block ends.
LEMMA BlockKeeps ==
  ASSUME NEW cs, NEW loc, NEW free, NEW next, InOrder(cs, loc, free, next),
         cs # <<>>, cs[Len(cs)].block
  PROVE  InOrder(Front(cs), cs[Len(cs)].scope, <<>>, cs[Len(cs)].next)
<1> DEFINE n == Len(cs)
           f == Front(cs)
           sc == cs[n].scope
           nx == cs[n].next
<1>1. /\ cs \in Seq(Call) /\ AllFit(cs, loc, free, next) /\ AllBound(cs, loc, next)
  BY DEF InOrder
<1>2. /\ f \in Seq(Call) /\ Len(f) = n - 1 /\ n \in Nat /\ n > 0
      /\ \A k \in 1 .. n - 1 : f[k] = cs[k]
      /\ sc \in Scope /\ nx \in Nat
  <2>1. cs[n] \in Call
    BY <1>1, FrontIs
  <2>. QED
    BY <1>1, <2>1, FrontIs DEF Call
<1>3. Fits(cs, n - 1, sc, <<>>, nx)
  <2>1. n \in 1 .. Len(cs)
    BY <1>2
  <2>. QED
    BY <1>1, <2>1 DEF AllFit
<1>4. n - 1 \in 1 .. n - 1 => BoundIn(cs, n - 1, sc, nx)
  <2>1. (n - 1) + 1 = n
    BY <1>2
  <2>. QED
    BY <1>1, <2>1 DEF AllBound, Resumes
<1> HIDE DEF f, sc, nx
<1>5. n - 1 \in Nat /\ n - 1 <= Len(cs) /\ n - 1 <= Len(f) /\ <<>> \in Seq(Reg)
  BY <1>2
<1>6. /\ \A k \in 1 .. n - 1 : Sound(f[k])
      /\ \A k \in 1 .. n - 1 : f[k].block => Fits(f, k - 1, f[k].scope, <<>>, f[k].next)
      /\ \A c \in 1 .. (n - 1) - 1 : Resumes(f, c)
  BY <1>1, <1>2, <1>5, BelowKeeps
<1>7. Fits(f, n - 1, sc, <<>>, nx)
  BY <1>1, <1>2, <1>3, <1>5, SameFits
<1>8. AllFit(f, sc, <<>>, nx)
  BY <1>2, <1>6, <1>7 DEF AllFit
<1>9. f # <<>> => BoundIn(f, Len(f), sc, nx)
  <2>1. SUFFICES ASSUME f # <<>> PROVE BoundIn(f, n - 1, sc, nx)
    BY <1>2
  <2>2. n - 1 \in Nat /\ n - 1 > 0 /\ n - 1 \in 1 .. n - 1
    BY <1>2, <2>1, EmptySeq
  <2>. QED
    BY <1>2, <1>4, <2>2, SameBound
<1>10. AllBound(f, sc, nx)
  BY <1>2, <1>6, <1>9 DEF AllBound
<1>. QED
  BY <1>2, <1>5, <1>6, <1>8, <1>10 DEF InOrder, f, sc, nx

-----------------------------------------------------------------------------
(* What each action does.                                                  *)

LEMMA InOrderIs ==
  ASSUME NEW cs, NEW loc, NEW free, NEW next, InOrder(cs, loc, free, next)
  PROVE  /\ cs \in Seq(Call) /\ loc \in Scope /\ free \in Seq(Reg) /\ next \in Nat
         /\ \A c \in 1 .. Len(cs) : Sound(cs[c])
         /\ Fits(cs, Len(cs), loc, free, next)
         /\ cs # <<>> => BoundIn(cs, Len(cs), loc, next)
  BY DEF InOrder, AllFit, AllBound

\* The innermost function goes on as c: it stays, or it returns.
LEMMA BecomesKeeps ==
  ASSUME calls \in Seq(Call), calls # <<>>,
         NEW c \in Call, ~c.block,
         NEW loc, NEW free, NEW next, InOrder(Replaced(calls, c), loc, free, next)
  PROVE  /\ InOrder(Becomes(c), loc, free, next)
         /\ c.name = NoReg => Unbound(Becomes(c))
<1> DEFINE s == Replaced(calls, c)
           n == Len(calls)
<1>1. /\ s \in Seq(Call) /\ Len(s) = n /\ s # <<>> /\ s[n] = c /\ n \in Nat /\ n > 0
      /\ \A k \in 1 .. n - 1 : s[k] = calls[k]
  BY ReplacedIs
<1>2. CASE c.todo = <<>>
  <2>1. InOrder(Front(s), loc, free, next) /\ Unbound(Front(s))
    BY <1>1, ReturnKeeps
  <2>2. /\ Front(calls) \in Seq(Call) /\ Len(Front(calls)) = n - 1
        /\ \A k \in 1 .. n - 1 : Front(calls)[k] = calls[k]
    BY FrontIs
  <2>3. /\ Front(s) \in Seq(Call) /\ Len(Front(s)) = n - 1
        /\ \A k \in 1 .. n - 1 : Front(s)[k] = calls[k]
    BY <1>1, FrontIs
  <2> DEFINE f == Front(calls)
             g == Front(s)
  <2> HIDE DEF f, g
  <2>4. f = g
    <3>1. f \in Seq(Call) /\ g \in Seq(Call) /\ Len(f) = Len(g) /\ \A k \in 1 .. Len(f) : f[k] = g[k]
      BY <2>2, <2>3 DEF f, g
    <3>. QED
      BY <3>1, SeqEqual
  <2>. QED
    BY <1>2, <2>1, <2>4 DEF Becomes, f, g
<1>3. CASE c.todo # <<>>
  <2>1. Becomes(c) = s
    BY <1>3 DEF Becomes, Replaced
  <2>. QED
    BY <1>1, <2>1 DEF Unbound
<1>. QED
  BY <1>2, <1>3

\* What a function that has something to do is like, and what its plan says.
LEMMA DoingIs ==
  ASSUME RInv, NEW what, Doing(what)
  PROVE  /\ calls # <<>> /\ Len(calls) \in Nat /\ Len(calls) > 0
         /\ Top = calls[Len(calls)] /\ Top \in Call /\ ~Top.block
         /\ Head(Top.todo).do = what /\ Head(Top.todo).at = At
         /\ Tail(Top.todo) \in Seq(Todo)
         /\ At \in Seq(Nat)
         /\ \E H2, p2 : /\ Step(Head(Top.todo), HeldIn(Top), H2, Phase(Top), p2)
                        /\ Plan(Tail(Top.todo), H2, p2)
<1>1. calls \in Seq(Call) /\ calls # <<>> /\ \A c \in 1 .. Len(calls) : Sound(calls[c])
  BY InOrderIs DEF RInv, Doing
<1>2. /\ Len(calls) \in Nat /\ Len(calls) > 0 /\ Top = calls[Len(calls)] /\ Top \in Call
  BY <1>1, FrontIs DEF Top
<1>3. Top.todo # <<>> /\ Head(Top.todo).do = what
  BY DEF Doing
<1> HIDE DEF Top
<1>4. Sound(Top)
  BY <1>1, <1>2
<1>5. ~Top.block /\ Plan(Top.todo, HeldIn(Top), Phase(Top))
  BY <1>3, <1>4 DEF Sound
<1>6. \E H2, p2 : /\ Step(Head(Top.todo), HeldIn(Top), H2, Phase(Top), p2)
                  /\ Plan(Tail(Top.todo), H2, p2)
  BY <1>3, <1>5, PlanNext
<1>7. Top.todo \in Seq(Todo)
  BY <1>2 DEF Call
<1>8. Tail(Top.todo) \in Seq(Todo) /\ Head(Top.todo) \in Todo
  BY <1>3, <1>7, HeadTailProperties
<1>9. At \in Seq(Nat)
  BY <1>8 DEF At, Todo
<1>. QED
  BY <1>1, <1>2, <1>3, <1>5, <1>6, <1>8, <1>9 DEF At

\* A function is bound to no name unless its plan is in the other phase.
LEMMA PhaseIs ==
  /\ \A c : Phase(c) = "plain" <=> c.name = NoReg
  /\ \A t, H, H2, p, p2 : Step(t, H, H2, p, p2) /\ t.do \notin {"block", "unbind"} => p = "plain"
  BY DEF Phase, Step

\* Variables at of the innermost function get the registers regs.
LEMMA AssignedIs ==
  ASSUME NEW at \in Seq(Slots), NEW S, NEW regs \in [DOMAIN at -> S],
         Top.slot \in [Slots -> S]
  PROVE  /\ Assigned(at, regs) \in [Slots -> S]
         /\ \A i \in Range(at) : \E j \in 1 .. Len(at) : at[j] = i /\ Assigned(at, regs)[i] = regs[j]
         /\ \A i \in Slots \ Range(at) : Assigned(at, regs)[i] = Top.slot[i]
         /\ Range(at) \subseteq Slots
<1> DEFINE a == Assigned(at, regs)
<1>1. DOMAIN at = 1 .. Len(at) /\ \A j \in 1 .. Len(at) : at[j] \in Slots
  BY LenProperties, ElementOfSeq
<1>2. ASSUME NEW i \in Slots, NEW j \in DOMAIN at, at[j] = i
      PROVE  \E k \in 1 .. Len(at) : at[k] = i /\ a[i] = regs[k]
  <2> DEFINE k == CHOOSE k \in DOMAIN at : at[k] = i
  <2>1. k \in DOMAIN at /\ at[k] = i
    BY <1>2
  <2>2. a[i] = regs[k]
    BY <1>2 DEF Assigned
  <2>. QED
    BY <1>1, <2>1, <2>2
<1>3. ASSUME NEW i \in Slots, ~\E j \in DOMAIN at : at[j] = i PROVE a[i] = Top.slot[i]
  BY <1>3 DEF Assigned
<1>4. \A i : i \in Range(at) <=> \E j \in DOMAIN at : at[j] = i
  BY DEF Range
<1>5. Range(at) \subseteq Slots
  BY <1>1, <1>4
<1>6. \A i \in Slots : a[i] \in S
  <2>1. \A j \in DOMAIN at : regs[j] \in S
    OBVIOUS
  <2>. QED
    BY <1>1, <1>2, <1>3, <2>1
<1>7. a \in [Slots -> S]
  <2>1. DOMAIN a = Slots /\ a = [i \in Slots |-> a[i]]
    BY DEF Assigned
  <2> HIDE DEF a
  <2>. QED
    BY <1>6, <2>1
<1> HIDE DEF a
<1>8. \A i \in Range(at) : \E j \in 1 .. Len(at) : at[j] = i /\ a[i] = regs[j]
  BY <1>2, <1>4, <1>5
<1>9. \A i \in Slots \ Range(at) : a[i] = Top.slot[i]
  BY <1>3, <1>4
<1>. QED
  BY <1>5, <1>7, <1>8, <1>9 DEF a

LEMMA OneElement ==
  ASSUME NEW S, NEW s \in Seq(S), Len(s) = 1
  PROVE  Range(s) = {Head(s)} /\ Head(s) = s[1] /\ Head(s) \in S
<1>1. s # <<>> /\ DOMAIN s = {1}
  <2>1. DOMAIN s = 1 .. Len(s)
    BY LenProperties
  <2>2. 1 .. 1 = {1}
    OBVIOUS
  <2>. QED
    BY <2>1, <2>2
<1>2. Head(s) = s[1] /\ s[1] \in S
  BY <1>1, HeadTailProperties, ElementOfSeq
<1>. QED
  BY <1>1, <1>2 DEF Range

LEMMA ModIs ==
  ASSUME NEW a \in Nat
  PROVE  a % Bytes \in Reg /\ (a < Bytes => a % Bytes = a)
<1>1. Bytes \in Nat /\ Bytes > 0
  BY RegisterAssumption
<1>2. a % Bytes \in 0 .. Bytes - 1
  BY <1>1
<1>3. a < Bytes => a % Bytes = a
  BY <1>1
<1>. QED
  BY <1>2, <1>3 DEF Reg

LEMMA LeastNat ==
  ASSUME NEW T, T \subseteq Nat, T # {}
  PROVE  \E x \in T : \A y \in T : x <= y
<1>1. PICK x \in T : \A y \in T : ~ (<<y, x>> \in OpToRel(<, Nat))
  BY WFMin, NatLessThanWellFounded
<1>2. \A y \in T : ~ (y < x)
  BY <1>1 DEF OpToRel
<1>. QED
  BY <1>2

\* The list of free registers when the first j of regs have been freed, for j
\* up to m.
Listing(f, regs, m) ==
  f = [j \in 0 .. m |->
         IF j = 0 THEN freeRegs
         ELSE IF \E x \in Names : locals[x] = regs[j] THEN f[j - 1]
         ELSE Append(f[j - 1], regs[j])]

LEMMA FreedDef ==
  ASSUME NEW regs
  PROVE  Freed(regs) = (CHOOSE f : Listing(f, regs, Len(regs)))[Len(regs)]
  BY DEF Freed, Listing

LEMMA ListingAt ==
  ASSUME NEW regs, NEW m, NEW f, Listing(f, regs, m), NEW j \in 0 .. m
  PROVE  f[j] = IF j = 0 THEN freeRegs
                ELSE IF \E x \in Names : locals[x] = regs[j] THEN f[j - 1]
                ELSE Append(f[j - 1], regs[j])
  BY DEF Listing

\* There is such a list.
LEMMA ListingGrows ==
  ASSUME NEW regs, NEW m \in Nat, NEW f, Listing(f, regs, m)
  PROVE  \E g : Listing(g, regs, m + 1)
<1> DEFINE n == m + 1
           last == IF \E x \in Names : locals[x] = regs[n] THEN f[m] ELSE Append(f[m], regs[n])
           g == [j \in 0 .. n |-> IF j <= m THEN f[j] ELSE last]
           e(j) == IF j = 0 THEN freeRegs
                   ELSE IF \E x \in Names : locals[x] = regs[j] THEN g[j - 1]
                   ELSE Append(g[j - 1], regs[j])
<1>1. \A j \in 0 .. m : g[j] = f[j]
  OBVIOUS
<1>2. g[n] = last
  OBVIOUS
<1>3. DOMAIN g = 0 .. n /\ g = [j \in DOMAIN g |-> g[j]]
  OBVIOUS
<1> HIDE DEF g
<1>4. ASSUME NEW j \in 0 .. n PROVE g[j] = e(j)
  <2>1. CASE j = 0
    <3>1. j \in 0 .. m /\ g[j] = f[j]
      BY <1>1, <2>1
    <3>. QED
      BY <2>1, <3>1, ListingAt
  <2>2. CASE j # 0 /\ j \in 0 .. m
    <3>1. g[j] = f[j] /\ j - 1 \in 0 .. m
      BY <1>1, <2>2
    <3>2. g[j - 1] = f[j - 1]
      BY <1>1, <3>1
    <3>3. f[j] = IF \E x \in Names : locals[x] = regs[j] THEN f[j - 1] ELSE Append(f[j - 1], regs[j])
      BY <2>2, ListingAt
    <3>. QED
      BY <2>2, <3>1, <3>2, <3>3
  <2>3. CASE j = n
    <3>1. j # 0 /\ j - 1 = m /\ m \in 0 .. m
      BY <2>3
    <3>2. g[j - 1] = f[m]
      BY <1>1, <3>1
    <3>. QED
      BY <1>2, <2>3, <3>1, <3>2
  <2>4. j \in 0 .. m \/ j = n
    OBVIOUS
  <2>. QED
    BY <2>1, <2>2, <2>3, <2>4
<1> HIDE DEF e
<1>5. g = [j \in 0 .. n |-> e(j)]
  BY <1>3, <1>4
<1>6. Listing(g, regs, n)
  BY <1>5 DEF Listing, e
<1>. QED
  BY <1>6

LEMMA ListingExists ==
  ASSUME NEW regs, NEW n \in Nat
  PROVE  \E f : Listing(f, regs, n)
<1> DEFINE T == {m \in Nat : ~ \E f : Listing(f, regs, m)}
<1>1. SUFFICES ASSUME T # {} PROVE FALSE
  OBVIOUS
<1>2. PICK m \in T : \A y \in T : m <= y
  <2>1. T \subseteq Nat
    OBVIOUS
  <2> HIDE DEF T
  <2>. QED
    BY <1>1, <2>1, LeastNat
<1>3. CASE m = 0
  <2> DEFINE f == [j \in 0 .. 0 |-> freeRegs]
  <2>1. DOMAIN f = 0 .. 0 /\ \A j \in 0 .. 0 : j = 0 /\ f[j] = freeRegs
    OBVIOUS
  <2>2. Listing(f, regs, 0)
    BY DEF Listing
  <2>. QED
    BY <1>3, <2>2
<1>4. CASE m # 0
  <2>1. m - 1 \in Nat /\ (m - 1) + 1 = m /\ ~(m <= m - 1)
    BY <1>4
  <2>2. m - 1 \notin T
    BY <1>2, <2>1
  <2>3. PICK f : Listing(f, regs, m - 1)
    BY <2>1, <2>2
  <2>4. \E g : Listing(g, regs, m)
    BY <2>1, <2>3, ListingGrows
  <2>. QED
    BY <2>4
<1>. QED
  BY <1>3, <1>4

\* The list of free registers after free: the registers at its end, if none of
\* them is a local.
LEMMA FreedIs ==
  ASSUME freeRegs \in Seq(Reg), NEW regs \in Seq(Reg)
  PROVE  /\ Freed(regs) \in Seq(Reg)
         /\ (\A j \in 1 .. Len(regs) : \A x \in Names : locals[x] # regs[j]) =>
              /\ Len(Freed(regs)) = Len(freeRegs) + Len(regs)
              /\ \A k \in 1 .. Len(freeRegs) : Freed(regs)[k] = freeRegs[k]
              /\ \A j \in 1 .. Len(regs) : Freed(regs)[Len(freeRegs) + j] = regs[j]
<1> DEFINE n == Len(regs)
           m == Len(freeRegs)
           f == CHOOSE f : Listing(f, regs, n)
           None == \A j \in 1 .. n : \A x \in Names : locals[x] # regs[j]
           Good(j) == /\ f[j] \in Seq(Reg)
                      /\ None => /\ Len(f[j]) = m + j
                                 /\ \A k \in 1 .. m : f[j][k] = freeRegs[k]
                                 /\ \A k \in 1 .. j : f[j][m + k] = regs[k]
<1>1. n \in Nat /\ m \in Nat
  BY LenProperties
<1>2. Listing(f, regs, n)
  BY <1>1, ListingExists
<1>3. Freed(regs) = f[n]
  BY FreedDef
<1> HIDE DEF f
<1>4. Good(0)
  <2>1. f[0] = freeRegs
    BY <1>1, <1>2, ListingAt
  <2>. QED
    BY <1>1, <2>1
<1>5. ASSUME NEW j \in 1 .. n, Good(j - 1) PROVE Good(j)
  <2> DEFINE g == f[j - 1]
  <2>1. f[j] = IF \E x \in Names : locals[x] = regs[j] THEN g ELSE Append(g, regs[j])
    BY <1>1, <1>2, ListingAt
  <2>2. regs[j] \in Reg /\ g \in Seq(Reg)
    BY <1>5, ElementOfSeq
  <2>3. /\ Append(g, regs[j]) \in Seq(Reg)
        /\ Len(Append(g, regs[j])) = Len(g) + 1
        /\ \A k \in 1 .. Len(g) : Append(g, regs[j])[k] = g[k]
        /\ Append(g, regs[j])[Len(g) + 1] = regs[j]
    BY <2>2, AppendProperties
  <2>4. f[j] \in Seq(Reg)
    BY <2>1, <2>2, <2>3
  <2>5. ASSUME None
        PROVE  /\ Len(f[j]) = m + j
               /\ \A k \in 1 .. m : f[j][k] = freeRegs[k]
               /\ \A k \in 1 .. j : f[j][m + k] = regs[k]
    <3>1. /\ Len(g) = m + (j - 1)
          /\ \A k \in 1 .. m : g[k] = freeRegs[k]
          /\ \A k \in 1 .. j - 1 : g[m + k] = regs[k]
      BY <1>5, <2>5
    <3>2. f[j] = Append(g, regs[j])
      BY <2>1, <2>5
    <3> HIDE DEF g
    <3>3. Len(f[j]) = m + j
      BY <1>1, <2>3, <3>1, <3>2
    <3>4. ASSUME NEW k \in 1 .. m PROVE f[j][k] = freeRegs[k]
      <4>1. k \in 1 .. Len(g)
        BY <1>1, <3>1
      <4>. QED
        BY <2>3, <3>1, <3>2, <4>1
    <3>5. ASSUME NEW k \in 1 .. j PROVE f[j][m + k] = regs[k]
      <4>1. CASE k = j
        <5>1. m + k = Len(g) + 1
          BY <1>1, <3>1, <4>1
        <5>. QED
          BY <2>3, <3>2, <4>1, <5>1
      <4>2. CASE k # j
        <5>1. m + k \in 1 .. Len(g) /\ k \in 1 .. j - 1
          BY <1>1, <3>1, <4>2
        <5>. QED
          BY <2>3, <3>1, <3>2, <5>1
      <4>. QED
        BY <4>1, <4>2
    <3>. QED
      BY <3>3, <3>4, <3>5
  <2>. QED
    BY <2>4, <2>5
<1> HIDE DEF Good
<1>6. \A j \in 0 .. n : Good(j)
  <2> DEFINE T == {j \in 0 .. n : ~Good(j)}
  <2>1. SUFFICES ASSUME T # {} PROVE FALSE
    OBVIOUS
  <2>2. PICK j \in T : \A y \in T : j <= y
    <3>1. T \subseteq Nat
      BY <1>1
    <3> HIDE DEF T
    <3>. QED
      BY <2>1, <3>1, LeastNat
  <2>3. j \in 1 .. n
    BY <1>1, <1>4, <2>2
  <2>4. j - 1 \in 0 .. n /\ ~(j <= j - 1)
    BY <1>1, <2>3
  <2>5. Good(j - 1)
    BY <2>2, <2>4
  <2>. QED
    BY <1>5, <2>2, <2>3, <2>5
<1>. QED
  BY <1>1, <1>3, <1>6 DEF Good

LEMMA StepKeeps ==
  ASSUME RInv, calls # <<>>, ~Top.block,
         NEW c \in Call, ~c.block, Plan(c.todo, HeldIn(c), Phase(c)),
         NEW loc \in Scope, NEW free \in Seq(Reg), NEW next \in Nat,
         Fits(Replaced(calls, c), Len(calls), loc, free, next),
         BoundIn(Replaced(calls, c), Len(calls), loc, next)
  PROVE  /\ InOrder(Replaced(calls, c), loc, free, next)
         /\ InOrder(Becomes(c), loc, free, next)
         /\ c.name = NoReg => Unbound(Becomes(c))
<1>1. InOrder(calls, locals, freeRegs, nextReg) /\ calls \in Seq(Call)
  BY InOrderIs DEF RInv
<1>2. ~calls[Len(calls)].block
  BY <1>1, FrontIs DEF Top
<1>3. InOrder(Replaced(calls, c), loc, free, next)
  BY <1>1, <1>2, ReplaceKeeps
<1>. QED
  BY <1>1, <1>3, BecomesKeeps

\* The innermost function after it has done its first thing, with the
\* variables slot.
After(slot) == [Top EXCEPT !.todo = Tail(@), !.slot = slot]

LEMMA AfterIs ==
  ASSUME RInv, NEW what, Doing(what), what \notin {"block", "bind", "unbind"},
         NEW slot \in [Slots -> Reg \cup {NoReg}],
         {i \in Slots : slot[i] # NoReg} =
           (HeldIn(Top) \ Taken(Head(Top.todo))) \cup Given(Head(Top.todo))
  PROVE  /\ After(slot) \in Call /\ ~After(slot).block
         /\ After(slot).name = NoReg /\ After(slot).scope = Top.scope
         /\ After(slot).slot = slot
         /\ Plan(After(slot).todo, HeldIn(After(slot)), Phase(After(slot)))
<1>1. /\ Top \in Call /\ ~Top.block /\ Tail(Top.todo) \in Seq(Todo)
      /\ Head(Top.todo).do = what
  BY DoingIs
<1>2. PICK H2, p2 : /\ Step(Head(Top.todo), HeldIn(Top), H2, Phase(Top), p2)
                    /\ Plan(Tail(Top.todo), H2, p2)
  BY DoingIs
<1>3. /\ H2 = (HeldIn(Top) \ Taken(Head(Top.todo))) \cup Given(Head(Top.todo))
      /\ p2 = Phase(Top) /\ Phase(Top) = "plain"
  BY <1>1, <1>2, PhaseIs DEF Step
<1> HIDE DEF Top
<1>4. /\ After(slot) \in Call /\ After(slot).block = Top.block
      /\ After(slot).name = Top.name /\ After(slot).scope = Top.scope
      /\ After(slot).slot = slot /\ After(slot).todo = Tail(Top.todo)
  BY <1>1 DEF After, Call
<1>5. Top.name = NoReg /\ Phase(After(slot)) = "plain"
  BY <1>3, <1>4, PhaseIs
<1>6. HeldIn(After(slot)) = H2
  BY <1>3, <1>4 DEF HeldIn
<1>. QED
  BY <1>1, <1>2, <1>3, <1>4, <1>5, <1>6

\* The types of what a step works on, and who owns it.
LEMMA RInvIs ==
  ASSUME RInv
  PROVE  /\ calls \in Seq(Call) /\ locals \in Scope /\ freeRegs \in Seq(Reg) /\ nextReg \in Nat
         /\ failed \in BOOLEAN
         /\ \A c \in 1 .. Len(calls) : Sound(calls[c])
         /\ Fits(calls, Len(calls), locals, freeRegs, nextReg)
         /\ calls # <<>> => BoundIn(calls, Len(calls), locals, nextReg)
  BY InOrderIs DEF RInv

LEMMA TopIs ==
  ASSUME RInv, calls # <<>>
  PROVE  /\ Top = calls[Len(calls)] /\ Top \in Call
         /\ Len(calls) \in Nat /\ Len(calls) > 0
         /\ Top.slot \in [Slots -> Reg \cup {NoReg}]
         /\ Top.dest \in Reg \cup {NoReg} /\ Top.scope \in Scope
<1>1. /\ Top = calls[Len(calls)] /\ Top \in Call /\ Len(calls) \in Nat /\ Len(calls) > 0
  BY RInvIs, FrontIs DEF Top
<1> HIDE DEF Top
<1>. QED
  BY <1>1 DEF Call

\* The stack with another last function, for GrantFits and its like.
LEMMA SameButLast ==
  ASSUME RInv, calls # <<>>, NEW c \in Call
  PROVE  /\ Replaced(calls, c) \in Seq(Call)
         /\ SameBelow(calls, Replaced(calls, c), Len(calls))
         /\ Len(calls) \in 0 .. Len(calls) /\ Len(calls) \in 0 .. Len(Replaced(calls, c))
         /\ calls[Len(calls)] = Top /\ Replaced(calls, c)[Len(calls)] = c
         /\ Len(Replaced(calls, c)) = Len(calls)
         /\ \A k \in 1 .. Len(calls) : k = Len(calls) \/ Replaced(calls, c)[k] = calls[k]
<1>1. /\ Replaced(calls, c) \in Seq(Call) /\ Len(Replaced(calls, c)) = Len(calls)
      /\ \A k \in 1 .. Len(calls) - 1 : Replaced(calls, c)[k] = calls[k]
      /\ Replaced(calls, c)[Len(calls)] = c
      /\ Len(calls) \in Nat /\ Len(calls) > 0
  BY RInvIs, ReplacedIs
<1>2. calls[Len(calls)] = Top
  BY TopIs
<1>. QED
  BY <1>1, <1>2 DEF SameBelow

\* A step in which no register changes hands.
LEMMA StillFits ==
  ASSUME RInv, calls # <<>>, NEW c \in Call,
         c.slot = Top.slot, c.scope = Top.scope, NEW next \in Nat, nextReg <= next
  PROVE  Fits(Replaced(calls, c), Len(calls), locals, freeRegs, next)
<1> DEFINE n == Len(calls)
           s == Replaced(calls, c)
<1>1. /\ s \in Seq(Call) /\ n \in 0 .. n /\ n \in 0 .. Len(s)
      /\ \A k \in 1 .. n : k = n \/ s[k] = calls[k]
      /\ s[n] = c /\ calls[n] = Top
  BY SameButLast
<1> HIDE DEF s, Top
<1>2. \A k \in 1 .. n : s[k].slot = calls[k].slot /\ s[k].scope = calls[k].scope
  BY <1>1
<1>3. \A x \in Names, r \in Reg : Named(s, n, locals, x, r) => Named(calls, n, locals, x, r)
  BY <1>2 DEF Named
<1>4. \A k \in 1 .. n, i \in Slots : s[k].slot[i] # NoReg =>
        k \in 1 .. n /\ s[k].slot[i] = calls[k].slot[i]
  BY <1>2
<1>. QED
  BY <1>1, <1>3, <1>4, RInvIs, FewerFit DEF s

\* Variables at of the innermost function get the registers regs, which
\* nobody owns once base is the stack.
LEMMA GrantKeeps ==
  ASSUME RInv, NEW what, Doing(what), what \in {"alloc", "reserve", "pair"},
         NEW base \in Seq(Call), Len(base) = Len(calls),
         \A k \in 1 .. Len(calls) - 1 : base[k] = calls[k],
         base[Len(calls)].scope = Top.scope,
         \A i \in Slots \ Range(At) : base[Len(calls)].slot[i] = Top.slot[i],
         NEW regs \in [DOMAIN At -> Reg \cup {NoReg}],
         \A j \in DOMAIN At : regs[j] # NoReg,
         NEW free \in Seq(Reg), NEW next \in Nat,
         Fits(base, Len(calls), locals, free, next),
         next <= Bytes =>
           \A j \in DOMAIN At :
             /\ regs[j] < next
             /\ Unowned(base, Len(calls), locals, free, regs[j])
             /\ \A k \in DOMAIN At : regs[k] = regs[j] => k = j,
         GoOn(Assigned(At, regs)),
         locals' = locals, failed' = failed, freeRegs' = free, nextReg' = next
  PROVE  RInv'
<1> DEFINE t == Head(Top.todo)
           slot == Assigned(At, regs)
           c == After(slot)
           n == Len(calls)
           s == Replaced(calls, c)
<1>1. calls # <<>> /\ ~Top.block /\ t.do = what /\ t.at = At
  BY DoingIs
<1>2. At \in Seq(Slots)
  BY <1>1, DoingIs DEF Step, WellFormed
<1>3. /\ Top.slot \in [Slots -> Reg \cup {NoReg}]
      /\ DOMAIN At = 1 .. Len(At)
  BY <1>1, <1>2, TopIs, LenProperties
<1>4. /\ slot \in [Slots -> Reg \cup {NoReg}]
      /\ \A i \in Range(At) : \E j \in 1 .. Len(At) : At[j] = i /\ slot[i] = regs[j]
      /\ \A i \in Slots \ Range(At) : slot[i] = Top.slot[i]
      /\ Range(At) \subseteq Slots
  BY <1>2, <1>3, AssignedIs
<1>5. Taken(t) = {} /\ Given(t) = Range(At)
  BY <1>1 DEF Taken, Given
<1> HIDE DEF slot
<1>6. {i \in Slots : slot[i] # NoReg} = (HeldIn(Top) \ Taken(t)) \cup Given(t)
  <2>1. \A i \in Range(At) : i \in Slots /\ slot[i] # NoReg
    BY <1>3, <1>4
  <2>2. \A i \in Slots \ Range(At) : slot[i] = Top.slot[i]
    BY <1>4
  <2> HIDE DEF Top, At, t
  <2>3. \A i \in Slots : slot[i] # NoReg <=> i \in HeldIn(Top) \/ i \in Range(At)
    BY <2>1, <2>2 DEF HeldIn
  <2>4. HeldIn(Top) \subseteq Slots
    BY DEF HeldIn
  <2>. QED
    BY <1>5, <2>1, <2>3, <2>4
<1>7. /\ c \in Call /\ ~c.block /\ c.name = NoReg /\ c.scope = Top.scope /\ c.slot = slot
      /\ Plan(c.todo, HeldIn(c), Phase(c))
  BY <1>4, <1>6, AfterIs
<1> HIDE DEF c
<1>8. s \in Seq(Call) /\ SameBelow(base, s, n) /\ s[n] = c
  <2>1. s \in Seq(Call) /\ Len(s) = n /\ n \in Nat /\ n > 0 /\ s[n] = c
        /\ \A k \in 1 .. n - 1 : s[k] = calls[k]
    <3>1. calls \in Seq(Call) /\ calls # <<>> /\ c \in Call
      BY <1>1, <1>7, RInvIs
    <3>. QED
      BY <3>1, ReplacedIs
  <2>. QED
    BY <2>1 DEF SameBelow
<1> HIDE DEF s
<1>9. ASSUME next <= Bytes
      PROVE  /\ \A i \in Range(At) : /\ slot[i] < next
                                     /\ Unowned(base, n, locals, free, slot[i])
             /\ \A i, j \in Range(At) : slot[i] = slot[j] => i = j
  <2>1. \A j \in 1 .. Len(At) :
          /\ regs[j] < next
          /\ Unowned(base, n, locals, free, regs[j])
          /\ \A k \in 1 .. Len(At) : regs[k] = regs[j] => k = j
    BY <1>3, <1>9
  <2>2. \A i \in Range(At) : slot[i] < next /\ Unowned(base, n, locals, free, slot[i])
    BY <1>4, <2>1
  <2>4. \A j, k \in 1 .. Len(At) : regs[k] = regs[j] => k = j
    BY <2>1
  <2>3. ASSUME NEW i \in Range(At), NEW j \in Range(At), slot[i] = slot[j] PROVE i = j
    <3>1. PICK k \in 1 .. Len(At) : At[k] = i /\ slot[i] = regs[k]
      BY <1>4
    <3>2. PICK l \in 1 .. Len(At) : At[l] = j /\ slot[j] = regs[l]
      BY <1>4
    <3>3. regs[k] = regs[l]
      BY <2>3, <3>1, <3>2
    <3>4. k = l
      BY <2>4, <3>3
    <3>. QED
      BY <3>1, <3>2, <3>4
  <2>. QED
    BY <2>2, <2>3
<1>10. Fits(s, n, locals, free, next)
  <2>1. s[n].scope = base[n].scope /\ s[n].slot = slot
    BY <1>7, <1>8
  <2>2. \A i \in Slots \ Range(At) : s[n].slot[i] = base[n].slot[i]
    BY <1>4, <2>1
  <2>3. next <= Bytes =>
          /\ \A i \in Range(At) : /\ s[n].slot[i] < next
                                  /\ Unowned(base, n, locals, free, s[n].slot[i])
          /\ \A i, j \in Range(At) : s[n].slot[i] = s[n].slot[j] => i = j
    BY <1>9, <2>1
  <2>4. base \in Seq(Call) /\ Range(At) \in SUBSET Slots /\ Fits(base, n, locals, free, next)
    BY <1>4, RInvIs
  <2>. QED
    BY <1>8, <2>1, <2>2, <2>3, <2>4, GrantFits
<1>11. BoundIn(s, n, locals, next)
  BY <1>7, <1>8, NoNameBound
<1>12. InOrder(Becomes(c), locals, free, next)
  BY <1>1, <1>7, <1>10, <1>11, RInvIs, StepKeeps DEF s
<1>13. calls' = Becomes(c)
  BY DEF GoOn, c, After, slot
<1>. QED
  BY <1>12, <1>13, RInvIs DEF RInv

\* What alloc hands out is owned by nobody.
LEMMA NthIs ==
  ASSUME RInv, NEW k \in Nat
  PROVE  /\ Kept(k) \in Seq(Reg) /\ Bumped(k) \in Nat /\ nextReg <= Bumped(k)
         /\ ~Exhausted(k) => \A j \in 1 .. k : Nth(j) \in Reg
         /\ Fits(calls, Len(calls), locals, Kept(k), Bumped(k))
         /\ Bumped(k) <= Bytes => \A j \in 1 .. k :
              /\ Nth(j) < Bumped(k)
              /\ Unowned(calls, Len(calls), locals, Kept(k), Nth(j))
              /\ \A l \in 1 .. k : Nth(l) = Nth(j) => l = j
<1> DEFINE m == Len(freeRegs)
           n == Len(calls)
<1>1. /\ freeRegs \in Seq(Reg) /\ nextReg \in Nat /\ m \in Nat /\ calls \in Seq(Call) /\ n \in Nat
      /\ \A l \in 1 .. m : freeRegs[l] \in Reg
      /\ Fits(calls, n, locals, freeRegs, nextReg)
  BY RInvIs, LenProperties, ElementOfSeq
<1>2. /\ Kept(k) \in Seq(Reg)
      /\ \A l \in 1 .. Len(Kept(k)) : l \in 1 .. m /\ l <= m - k /\ Kept(k)[l] = freeRegs[l]
  <2>1. CASE k < m
    <3>1. m - k \in 0 .. m
      BY <1>1, <2>1
    <3>2. /\ SubSeq(freeRegs, 1, m - k) \in Seq(Reg) /\ Len(SubSeq(freeRegs, 1, m - k)) = m - k
          /\ \A l \in 1 .. m - k : SubSeq(freeRegs, 1, m - k)[l] = freeRegs[l]
      BY <1>1, <3>1, PrefixIs
    <3>3. Kept(k) = SubSeq(freeRegs, 1, m - k)
      BY <2>1 DEF Kept
    <3>. QED
      BY <1>1, <2>1, <3>2, <3>3
  <2>2. CASE ~(k < m)
    <3>1. Kept(k) = <<>>
      BY <2>2 DEF Kept
    <3>. QED
      BY <3>1
  <2>. QED
    BY <2>1, <2>2
<1>3. Bumped(k) \in Nat /\ nextReg <= Bumped(k)
  BY <1>1 DEF Bumped
<1>4. \A j \in 1 .. k :
        \/ j <= m /\ m - j + 1 \in 1 .. m /\ m - j + 1 > m - k /\ Nth(j) = freeRegs[m - j + 1]
        \/ j > m /\ Nth(j) = nextReg + j - m - 1 /\ nextReg <= Nth(j) /\ Nth(j) < Bumped(k)
             /\ Nth(j) \in Nat
  BY <1>1 DEF Nth, Bumped
<1>5. ASSUME ~Exhausted(k), NEW j \in 1 .. k PROVE Nth(j) \in Reg
  <2>1. CASE j <= m /\ m - j + 1 \in 1 .. m /\ Nth(j) = freeRegs[m - j + 1]
    BY <1>1, <2>1
  <2>2. CASE j > m /\ Nth(j) < Bumped(k) /\ Nth(j) \in Nat
    <3>1. k > m /\ Bumped(k) <= RegLimit
      BY <1>1, <1>3, <1>5, <2>2, RegisterAssumption DEF Exhausted
    <3>. QED
      BY <1>3, <2>2, <3>1, RegisterAssumption DEF Reg
  <2>. QED
    BY <1>4, <2>1, <2>2
<1>6. Fits(calls, n, locals, Kept(k), Bumped(k))
  <2>1. n \in 0 .. Len(calls)
    BY <1>1
  <2>. QED
    BY <1>1, <1>2, <1>3, <2>1, FewerFit
<1>7. ASSUME Bumped(k) <= Bytes, NEW j \in 1 .. k
      PROVE  /\ Nth(j) < Bumped(k)
             /\ Unowned(calls, n, locals, Kept(k), Nth(j))
             /\ \A l \in 1 .. k : Nth(l) = Nth(j) => l = j
  <2>1. /\ TemporariesFit(calls, n, locals, freeRegs, nextReg)
        /\ NamesFit(calls, n, locals, freeRegs, nextReg)
        /\ FreeFit(freeRegs, nextReg)
    BY <1>1, <1>3, <1>7, NoRegIs DEF Fits
  <2>2. /\ \A l \in 1 .. m : freeRegs[l] < nextReg
        /\ \A l, h \in 1 .. m : freeRegs[h] = freeRegs[l] => h = l
    BY <2>1 DEF FreeFit
  <2>3. \A l \in 1 .. m : freeRegs[l] \in Nat
    BY <1>1, NoRegIs
  <2>4. Nth(j) < Bumped(k) /\ Nth(j) \in Nat
    BY <1>1, <1>3, <1>4, <2>2, <2>3
  <2>5. Nth(j) \in Reg
    BY <1>3, <1>7, <2>4, NoRegIs DEF Reg
  <2>6. \A l \in 1 .. Len(Kept(k)) : Kept(k)[l] # Nth(j)
    <3>1. SUFFICES ASSUME NEW l \in 1 .. Len(Kept(k)), Kept(k)[l] = Nth(j) PROVE FALSE
      OBVIOUS
    <3>2. l \in 1 .. m /\ l <= m - k /\ freeRegs[l] = Nth(j)
      BY <1>2, <3>1
    <3>3. CASE m - j + 1 \in 1 .. m /\ m - j + 1 > m - k /\ Nth(j) = freeRegs[m - j + 1]
      <4>1. l = m - j + 1
        BY <2>2, <3>2, <3>3
      <4>. QED
        BY <1>1, <3>2, <3>3, <4>1
    <3>4. CASE nextReg <= Nth(j)
      BY <1>1, <2>2, <2>3, <2>4, <3>2, <3>4
    <3>. QED
      BY <1>4, <3>3, <3>4
  <2>7. nextReg <= Nth(j) \/ \E l \in 1 .. m : freeRegs[l] = Nth(j)
    BY <1>4
  <2>8. ASSUME NEW c \in 1 .. n, NEW i \in Slots PROVE calls[c].slot[i] # Nth(j)
    <3>1. SUFFICES ASSUME calls[c].slot[i] = Nth(j) PROVE FALSE
      OBVIOUS
    <3>2. calls[c].slot[i] # NoReg
      BY <2>5, <3>1, NoRegIs
    <3>3. calls[c].slot[i] < nextReg /\ \A l \in 1 .. m : freeRegs[l] # calls[c].slot[i]
      BY <2>1, <3>2 DEF TemporariesFit
    <3>. QED
      BY <1>1, <2>4, <2>7, <3>1, <3>3
  <2>9. ASSUME NEW x \in Names, Named(calls, n, locals, x, Nth(j)) PROVE FALSE
    <3>1. Nth(j) < nextReg /\ \A l \in 1 .. m : freeRegs[l] # Nth(j)
      BY <2>1, <2>5, <2>9 DEF NamesFit
    <3>. QED
      BY <1>1, <2>4, <2>7, <3>1
  <2>10. Unowned(calls, n, locals, Kept(k), Nth(j))
    BY <2>6, <2>8, <2>9 DEF Unowned
  <2>11. ASSUME NEW l \in 1 .. k, Nth(l) = Nth(j) PROVE l = j
    <3>1. \/ m - l + 1 \in 1 .. m /\ Nth(l) = freeRegs[m - l + 1]
          \/ Nth(l) = nextReg + l - m - 1 /\ nextReg <= Nth(l)
      BY <1>4
    <3>2. \/ m - j + 1 \in 1 .. m /\ Nth(j) = freeRegs[m - j + 1]
          \/ Nth(j) = nextReg + j - m - 1 /\ nextReg <= Nth(j)
      BY <1>4
    <3>3. CASE /\ m - l + 1 \in 1 .. m /\ Nth(l) = freeRegs[m - l + 1]
               /\ m - j + 1 \in 1 .. m /\ Nth(j) = freeRegs[m - j + 1]
      <4>1. m - l + 1 = m - j + 1
        BY <2>2, <2>11, <3>3
      <4>. QED
        BY <1>1, <4>1
    <3>4. CASE Nth(l) = nextReg + l - m - 1 /\ Nth(j) = nextReg + j - m - 1
      <4>1. nextReg + l - m - 1 = nextReg + j - m - 1 /\ m \in Nat /\ nextReg \in Nat
        BY <1>1, <2>11, <3>4
      <4> HIDE DEF m
      <4>. QED
        BY <4>1
    <3>5. ASSUME NEW h \in 1 .. m, Nth(j) = freeRegs[h], nextReg <= Nth(j) PROVE FALSE
      BY <1>1, <2>2, <2>3, <3>5
    <3>. QED
      BY <2>11, <3>1, <3>2, <3>3, <3>4, <3>5
  <2>. QED
    BY <2>4, <2>10, <2>11
<1>. QED
  BY <1>2, <1>3, <1>5, <1>6, <1>7

LEMMA AllocKeeps == ASSUME RInv, AllocRegs PROVE RInv'
<1> DEFINE k == Len(At)
           regs == [j \in DOMAIN At |-> Nth(j)]
<1>1. Doing("alloc") /\ ~Exhausted(k) /\ GoOn(Assigned(At, regs))
      /\ freeRegs' = Kept(k) /\ nextReg' = Bumped(k) /\ locals' = locals /\ failed' = failed
  BY DEF AllocRegs, NextIs
<1>2. k \in Nat /\ DOMAIN At = 1 .. k
  BY <1>1, DoingIs, LenProperties
<1>3. /\ Kept(k) \in Seq(Reg) /\ Bumped(k) \in Nat
      /\ \A j \in 1 .. k : Nth(j) \in Reg
      /\ Fits(calls, Len(calls), locals, Kept(k), Bumped(k))
      /\ Bumped(k) <= Bytes => \A j \in 1 .. k :
           /\ Nth(j) < Bumped(k)
           /\ Unowned(calls, Len(calls), locals, Kept(k), Nth(j))
           /\ \A l \in 1 .. k : Nth(l) = Nth(j) => l = j
  BY <1>1, <1>2, NthIs
<1>4. regs \in [DOMAIN At -> Reg \cup {NoReg}] /\ \A j \in DOMAIN At : regs[j] = Nth(j) /\ regs[j] # NoReg
  BY <1>2, <1>3, NoRegIs
<1> HIDE DEF regs, k
<1>5. Bumped(k) <= Bytes => \A j \in DOMAIN At :
           /\ regs[j] < Bumped(k)
           /\ Unowned(calls, Len(calls), locals, Kept(k), regs[j])
           /\ \A l \in DOMAIN At : regs[l] = regs[j] => l = j
  BY <1>2, <1>3, <1>4
<1> DEFINE free == Kept(k)
           next == Bumped(k)
<1> HIDE DEF free, next
<1>6. /\ free \in Seq(Reg) /\ next \in Nat /\ Fits(calls, Len(calls), locals, free, next)
      /\ freeRegs' = free /\ nextReg' = next
      /\ next <= Bytes => \A j \in DOMAIN At :
           /\ regs[j] < next
           /\ Unowned(calls, Len(calls), locals, free, regs[j])
           /\ \A l \in DOMAIN At : regs[l] = regs[j] => l = j
  BY <1>1, <1>3, <1>5 DEF free, next
<1>7. calls # <<>> /\ calls \in Seq(Call) /\ calls[Len(calls)] = Top
  BY <1>1, DoingIs, RInvIs
<1>. QED
  BY <1>1, <1>4, <1>6, <1>7, GrantKeeps

\* The registers from nextReg on are owned by nobody either.
LEMMA NextIsUnowned ==
  ASSUME NEW cs \in Seq(Call), NEW n \in 0 .. Len(cs), NEW loc, NEW free \in Seq(Reg),
         NEW next \in Nat, Fits(cs, n, loc, free, next), NEW r \in Nat, next <= r, r < Bytes
  PROVE  Unowned(cs, n, loc, free, r)
<1>1. /\ TemporariesFit(cs, n, loc, free, next)
      /\ NamesFit(cs, n, loc, free, next)
      /\ FreeFit(free, next)
  BY NoRegIs DEF Fits
<1>2. r \in Reg /\ r # NoReg
  BY NoRegIs DEF Reg
<1>3. ~(r < next)
  OBVIOUS
<1>4. \A c \in 1 .. n, i \in Slots : cs[c].slot[i] # r
  BY <1>1, <1>2, <1>3 DEF TemporariesFit
<1>5. \A x \in Names : ~Named(cs, n, loc, x, r)
  BY <1>1, <1>2, <1>3 DEF NamesFit
<1>6. \A k \in 1 .. Len(free) : free[k] # r
  BY <1>1, <1>3 DEF FreeFit
<1>. QED
  BY <1>4, <1>5, <1>6 DEF Unowned

\* A block of registers from nextReg on.
LEMMA BlockOfRegs ==
  ASSUME RInv, NEW what, Doing(what), what \in {"reserve", "pair"},
         NEW base \in Seq(Call), Len(base) = Len(calls),
         \A k \in 1 .. Len(calls) - 1 : base[k] = calls[k],
         base[Len(calls)].scope = Top.scope,
         \A i \in Slots \ Range(At) : base[Len(calls)].slot[i] = Top.slot[i],
         NEW free \in Seq(Reg), Fits(base, Len(calls), locals, free, nextReg),
         GoOn(Assigned(At, [j \in DOMAIN At |-> (nextReg + j - 1) % Bytes])),
         locals' = locals, failed' = failed, freeRegs' = free, nextReg' = nextReg + Len(At)
  PROVE  RInv'
<1> DEFINE n == Len(calls)
           regs == [j \in DOMAIN At |-> (nextReg + j - 1) % Bytes]
           next == nextReg + Len(At)
<1>1. /\ DOMAIN At = 1 .. Len(At) /\ Len(At) \in Nat /\ nextReg \in Nat /\ n \in Nat
      /\ next \in Nat /\ nextReg <= next
  BY DoingIs, RInvIs, LenProperties
<1>2. ASSUME NEW j \in DOMAIN At
      PROVE  /\ regs[j] \in Reg
             /\ next <= Bytes => regs[j] = nextReg + j - 1 /\ nextReg <= regs[j] /\ regs[j] < next
  <2> DEFINE a == nextReg + j - 1
  <2>1. a \in Nat /\ nextReg <= a /\ a < next
    BY <1>1
  <2>2. next <= Bytes => a < Bytes
    BY <1>1, <2>1, RegisterAssumption
  <2>3. regs[j] = a % Bytes
    OBVIOUS
  <2> HIDE DEF a, regs
  <2>4. a % Bytes \in Reg /\ (a < Bytes => a % Bytes = a)
    BY <2>1, ModIs
  <2>5. regs[j] = a => regs[j] = nextReg + j - 1
    BY DEF a
  <2>. QED
    BY <2>1, <2>2, <2>3, <2>4, <2>5
<1>3. regs \in [DOMAIN At -> Reg \cup {NoReg}] /\ \A j \in DOMAIN At : regs[j] # NoReg
  BY <1>2, NoRegIs
<1>4. calls # <<>> /\ n \in 0 .. Len(base)
  BY <1>1, DoingIs
<1> HIDE DEF regs
<1>5. Fits(base, n, locals, free, next)
  <2>1. \A k \in 1 .. Len(free) : k \in 1 .. Len(free) /\ free[k] = free[k]
    OBVIOUS
  <2> HIDE DEF next
  <2>. QED
    BY <1>1, <1>4, <2>1, FewerFit
<1>6. ASSUME next <= Bytes, NEW j \in DOMAIN At
      PROVE  /\ regs[j] < next
             /\ Unowned(base, n, locals, free, regs[j])
             /\ \A k \in DOMAIN At : regs[k] = regs[j] => k = j
  <2>1. /\ regs[j] = nextReg + j - 1 /\ nextReg <= regs[j] /\ regs[j] < next
        /\ regs[j] \in Nat /\ regs[j] < Bytes
    BY <1>2, <1>6, NoRegIs
  <2>2. Unowned(base, n, locals, free, regs[j])
    BY <1>1, <1>4, <2>1, NextIsUnowned
  <2>3. ASSUME NEW k \in DOMAIN At, regs[k] = regs[j] PROVE k = j
    <3>1. nextReg + k - 1 = nextReg + j - 1
      BY <1>2, <1>6, <2>1, <2>3
    <3>. QED
      BY <1>1, <3>1
  <2>. QED
    BY <2>1, <2>2, <2>3
<1>7. GoOn(Assigned(At, regs))
  BY DEF regs
<1> HIDE DEF next
<1>8. nextReg' = next
  BY DEF next
<1>. QED
  BY <1>1, <1>3, <1>5, <1>6, <1>7, <1>8, GrantKeeps

LEMMA ReserveKeeps == ASSUME RInv, ReserveRegs PROVE RInv'
<1>1. /\ Doing("reserve") /\ calls # <<>> /\ calls \in Seq(Call) /\ calls[Len(calls)] = Top
      /\ freeRegs \in Seq(Reg) /\ Fits(calls, Len(calls), locals, freeRegs, nextReg)
  BY DoingIs, RInvIs DEF ReserveRegs
<1>2. /\ GoOn(Assigned(At, [j \in DOMAIN At |-> (nextReg + j - 1) % Bytes]))
      /\ locals' = locals /\ failed' = failed /\ freeRegs' = freeRegs
      /\ nextReg' = nextReg + Len(At)
  BY DEF ReserveRegs, NextIs
<1>. QED
  BY <1>1, <1>2, BlockOfRegs

\* The two registers of an array were next to each other, or the first is
\* freed and two others come.
LEMMA PairKeeps == ASSUME RInv, PairRegs PROVE RInv'
<1> DEFINE t == Head(Top.todo)
           n == Len(calls)
<1>1. /\ Doing("pair") /\ calls # <<>> /\ ~Top.block /\ t.do = "pair" /\ t.at = At
  BY DoingIs DEF PairRegs
<1>2. /\ calls \in Seq(Call) /\ freeRegs \in Seq(Reg) /\ nextReg \in Nat /\ locals \in Scope
      /\ Fits(calls, n, locals, freeRegs, nextReg) /\ failed \in BOOLEAN
  BY RInvIs
<1>3. /\ Top = calls[n] /\ Top \in Call /\ Top.slot \in [Slots -> Reg \cup {NoReg}]
      /\ n \in Nat /\ n > 0
  BY <1>1, TopIs
<1>4. At = <<1, 2>> /\ Range(At) = {1, 2} /\ {1, 2} \subseteq HeldIn(Top)
  <2>1. PICK H2, p2 : Step(t, HeldIn(Top), H2, Phase(Top), p2)
    BY <1>1, DoingIs
  <2>2. At = <<1, 2>> /\ Needs(t) \subseteq HeldIn(Top)
    BY <1>1, <2>1 DEF Step, WellFormed
  <2>. QED
    BY <1>1, <2>2, RangeOfTwo DEF Needs
<1>5. 1 \in Slots /\ 2 \in Slots /\ Top.slot[1] \in Reg /\ Top.slot[2] # NoReg
      /\ Top.slot[1] # NoReg
  BY <1>3, <1>4, SlotsAre, NoRegIs DEF HeldIn
<1>6. CASE GoOn(Top.slot) /\ UNCHANGED <<freeRegs, nextReg, locals, failed>>
  <2> DEFINE c == After(Top.slot)
             s == Replaced(calls, c)
  <2>1. Taken(t) = {} /\ Given(t) = {1, 2}
    BY <1>1, <1>4 DEF Taken, Given
  <2>2. {i \in Slots : Top.slot[i] # NoReg} = (HeldIn(Top) \ Taken(t)) \cup Given(t)
    BY <1>4, <2>1 DEF HeldIn
  <2>3. /\ c \in Call /\ ~c.block /\ c.name = NoReg /\ c.scope = Top.scope /\ c.slot = Top.slot
        /\ Plan(c.todo, HeldIn(c), Phase(c))
    BY <1>1, <1>3, <2>2, AfterIs
  <2> HIDE DEF c
  <2>4. Fits(s, n, locals, freeRegs, nextReg)
    BY <1>1, <1>2, <2>3, StillFits
  <2>5. BoundIn(s, n, locals, nextReg)
    BY <1>1, <2>3, SameButLast, NoNameBound
  <2>6. InOrder(Becomes(c), locals, freeRegs, nextReg)
    BY <1>1, <1>2, <2>3, <2>4, <2>5, StepKeeps
  <2>7. calls' = Becomes(c)
    BY <1>6 DEF GoOn, c, After
  <2>. QED
    BY <1>2, <1>6, <2>6, <2>7 DEF RInv
<1>7. CASE /\ GoOn(Assigned(At, [j \in DOMAIN At |-> (nextReg + j - 1) % Bytes]))
           /\ freeRegs' = Append(freeRegs, Top.slot[1])
           /\ nextReg' = nextReg + Len(At)
           /\ UNCHANGED <<locals, failed>>
  <2> DEFINE slot == [i \in Slots |-> IF i \in {1, 2} THEN NoReg ELSE Top.slot[i]]
             c == [Top EXCEPT !.slot = slot]
             base == Replaced(calls, c)
             free == Append(freeRegs, Top.slot[1])
             at == <<1>>
  <2>1. c \in Call /\ c.scope = Top.scope /\ c.slot = slot
    <3>1. slot \in [Slots -> Reg \cup {NoReg}]
      BY <1>3
    <3> HIDE DEF slot, Top
    <3>. QED
      BY <1>3, <3>1 DEF Call
  <2>2. slot[1] = NoReg /\ slot[2] = NoReg /\ \A i \in Slots \ {1, 2} : slot[i] = Top.slot[i]
    BY <1>5
  <2> HIDE DEF slot, c
  <2>3. /\ base \in Seq(Call) /\ SameBelow(calls, base, n) /\ base[n] = c /\ calls[n] = Top
        /\ Len(base) = n /\ \A k \in 1 .. n - 1 : base[k] = calls[k]
    BY <1>1, <1>2, <2>1, SameButLast, ReplacedIs
  <2> HIDE DEF base
  <2>4. /\ at \in Seq(Slots) /\ IsInjective(at) /\ Range(at) = {1} /\ Len(at) = 1 /\ at[1] = 1
    BY <1>5, RangeOfOne
  <2>5. /\ free \in Seq(Reg) /\ Len(free) = Len(freeRegs) + 1
        /\ \A k \in 1 .. Len(freeRegs) : free[k] = freeRegs[k]
        /\ free[Len(freeRegs) + 1] = Top.slot[1]
    BY <1>2, <1>5, AppendProperties
  <2> HIDE DEF free, at
  <2>6. \A i \in Slots \ Range(at) : base[n].slot[i] \in {calls[n].slot[i], NoReg}
    BY <2>1, <2>2, <2>3, <2>4
  <2>7. \A i \in Range(at) : calls[n].slot[i] # NoReg /\ base[n].slot[i] = NoReg
    BY <1>5, <2>1, <2>2, <2>3, <2>4
  <2>8. Len(free) = Len(freeRegs) + Len(at)
        /\ \A j \in 1 .. Len(at) : free[Len(freeRegs) + j] = calls[n].slot[at[j]]
    BY <2>3, <2>4, <2>5
  <2>9. base[n].scope = calls[n].scope
    BY <2>1, <2>3
  <2>10. Fits(base, n, locals, free, nextReg)
    BY <1>2, <2>3, <2>4, <2>5, <2>6, <2>7, <2>8, <2>9, FreeFits
  <2>11. \A i \in Slots \ Range(At) : base[n].slot[i] = Top.slot[i]
    BY <1>4, <2>1, <2>2, <2>3
  <2>12. freeRegs' = free /\ base[n].scope = Top.scope /\ locals' = locals /\ failed' = failed
    BY <1>7, <2>1, <2>3 DEF free
  <2>13. RInv'
    BY <1>1, <1>7, <2>3, <2>5, <2>10, <2>11, <2>12, BlockOfRegs
  <2>. QED
    BY <2>13
<1>. QED
  BY <1>6, <1>7 DEF PairRegs, NextIs

\* What a temporary holds no name means.
LEMMA TemporaryIs ==
  ASSUME RInv, calls # <<>>, NEW i \in HeldIn(Top)
  PROVE  /\ Top.slot[i] \in Reg /\ Top.slot[i] # NoReg /\ i \in Slots
         /\ nextReg <= Bytes => \A x \in Names :
              ~Named(calls, Len(calls), locals, x, Top.slot[i])
<1>1. i \in Slots /\ Top.slot[i] # NoReg
  BY DEF HeldIn
<1>2. /\ Top = calls[Len(calls)] /\ Len(calls) \in Nat /\ Len(calls) > 0
      /\ Top.slot \in [Slots -> Reg \cup {NoReg}]
  BY TopIs
<1>3. ASSUME nextReg <= Bytes, NEW x \in Names
      PROVE  ~Named(calls, Len(calls), locals, x, Top.slot[i])
  <2>1. TemporariesFit(calls, Len(calls), locals, freeRegs, nextReg)
    BY <1>3, RInvIs DEF Fits
  <2>2. Len(calls) \in 1 .. Len(calls) /\ calls[Len(calls)].slot[i] # NoReg
    BY <1>1, <1>2
  <2>3. ~Named(calls, Len(calls), locals, x, calls[Len(calls)].slot[i])
    BY <1>1, <2>1, <2>2 DEF TemporariesFit
  <2>. QED
    BY <1>2, <2>3
<1>. QED
  BY <1>1, <1>2, <1>3

LEMMA FreeKeeps == ASSUME RInv, FreeRegs PROVE RInv'
<1> DEFINE t == Head(Top.todo)
           n == Len(calls)
           regs == [j \in DOMAIN At |-> Register(At[j])]
           none == [j \in DOMAIN At |-> NoReg]
           slot == Assigned(At, none)
           c == After(slot)
           s == Replaced(calls, c)
           free == Freed(regs)
<1>1. /\ Doing("free") /\ GoOn(slot) /\ freeRegs' = free
      /\ locals' = locals /\ nextReg' = nextReg /\ failed' = failed
  BY DEF FreeRegs
<1>2. calls # <<>> /\ ~Top.block /\ t.do = "free" /\ t.at = At
  BY <1>1, DoingIs
<1>3. At \in Seq(Slots) /\ IsInjective(At) /\ Range(At) \subseteq HeldIn(Top)
  <2>1. PICK H2, p2 : Step(t, HeldIn(Top), H2, Phase(Top), p2)
    BY <1>1, DoingIs
  <2>. QED
    BY <1>2, <2>1 DEF Step, WellFormed, Needs
<1>4. /\ calls \in Seq(Call) /\ freeRegs \in Seq(Reg) /\ nextReg \in Nat /\ locals \in Scope
      /\ Fits(calls, n, locals, freeRegs, nextReg) /\ failed \in BOOLEAN
  BY RInvIs
<1>5. /\ Top.slot \in [Slots -> Reg \cup {NoReg}]
      /\ DOMAIN At = 1 .. Len(At) /\ Len(At) \in Nat
      /\ \A j \in 1 .. Len(At) : At[j] \in Range(At) /\ At[j] \in Slots /\ At[j] \in HeldIn(Top)
  <2>1. DOMAIN At = 1 .. Len(At) /\ Len(At) \in Nat
    BY <1>3, LenProperties
  <2>2. \A j \in 1 .. Len(At) : At[j] \in Range(At)
    BY <2>1 DEF Range
  <2>. QED
    BY <1>2, <1>3, <2>1, <2>2, TopIs, ElementOfSeq
<1>6. /\ slot \in [Slots -> Reg \cup {NoReg}]
      /\ \A i \in Range(At) : slot[i] = NoReg
      /\ \A i \in Slots \ Range(At) : slot[i] = Top.slot[i]
      /\ Range(At) \subseteq Slots
  <2>1. none \in [DOMAIN At -> Reg \cup {NoReg}]
    OBVIOUS
  <2>2. \A j \in 1 .. Len(At) : none[j] = NoReg
    BY <1>5
  <2> HIDE DEF none
  <2>3. /\ slot \in [Slots -> Reg \cup {NoReg}]
        /\ \A i \in Range(At) : \E j \in 1 .. Len(At) : At[j] = i /\ slot[i] = none[j]
        /\ \A i \in Slots \ Range(At) : slot[i] = Top.slot[i]
        /\ Range(At) \subseteq Slots
    BY <1>3, <1>5, <2>1, AssignedIs
  <2>. QED
    BY <2>2, <2>3
<1>7. Taken(t) = Range(At) /\ Given(t) = {}
  BY <1>2 DEF Taken, Given
<1> HIDE DEF slot
<1>8. {i \in Slots : slot[i] # NoReg} = (HeldIn(Top) \ Taken(t)) \cup Given(t)
  BY <1>5, <1>6, <1>7 DEF HeldIn
<1>9. /\ c \in Call /\ ~c.block /\ c.name = NoReg /\ c.scope = Top.scope /\ c.slot = slot
      /\ Plan(c.todo, HeldIn(c), Phase(c))
  BY <1>1, <1>6, <1>8, AfterIs
<1> HIDE DEF c
<1>10. /\ s \in Seq(Call) /\ SameBelow(calls, s, n) /\ s[n] = c /\ calls[n] = Top
  BY <1>2, <1>9, SameButLast
<1>11. regs \in Seq(Reg) /\ Len(regs) = Len(At) /\ \A j \in 1 .. Len(At) : regs[j] = Top.slot[At[j]]
  <2>1. \A j \in 1 .. Len(At) : Register(At[j]) = Top.slot[At[j]]
    BY <1>5, SlotsAre DEF Register, Dest
  <2>2. \A j \in 1 .. Len(At) : Top.slot[At[j]] \in Reg
    BY <1>2, <1>5, TemporaryIs
  <2>3. regs \in [1 .. Len(At) -> Reg] /\ \A j \in 1 .. Len(At) : regs[j] = Top.slot[At[j]]
    BY <1>5, <2>1, <2>2
  <2> HIDE DEF regs
  <2>. QED
    BY <1>5, <2>3, FunctionIsSeq
<1> HIDE DEF regs, free, s
<1>12. free \in Seq(Reg)
  BY <1>4, <1>11, FreedIs DEF free
<1>13. ASSUME nextReg <= Bytes PROVE Fits(s, n, locals, free, nextReg)
  <2>1. \A j \in 1 .. Len(regs) : \A x \in Names : locals[x] # regs[j]
    <3>1. SUFFICES ASSUME NEW j \in 1 .. Len(At), NEW x \in Names PROVE locals[x] # Top.slot[At[j]]
      BY <1>11
    <3>2. ~Named(calls, n, locals, x, Top.slot[At[j]])
      BY <1>2, <1>5, <1>13, TemporaryIs
    <3>. QED
      BY <3>2 DEF Named
  <2>2. /\ Len(free) = Len(freeRegs) + Len(regs)
        /\ \A k \in 1 .. Len(freeRegs) : free[k] = freeRegs[k]
        /\ \A j \in 1 .. Len(regs) : free[Len(freeRegs) + j] = regs[j]
    BY <1>4, <1>11, <2>1, FreedIs DEF free
  <2>3. Len(free) = Len(freeRegs) + Len(At)
        /\ \A j \in 1 .. Len(At) : free[Len(freeRegs) + j] = calls[n].slot[At[j]]
    BY <1>10, <1>11, <2>2
  <2>4. s[n].scope = calls[n].scope
    BY <1>9, <1>10
  <2>5. \A i \in Slots \ Range(At) : s[n].slot[i] \in {calls[n].slot[i], NoReg}
    BY <1>6, <1>9, <1>10
  <2>6. \A i \in Range(At) : calls[n].slot[i] # NoReg /\ s[n].slot[i] = NoReg
    BY <1>3, <1>6, <1>9, <1>10 DEF HeldIn
  <2>. QED
    BY <1>3, <1>4, <1>10, <1>12, <2>2, <2>3, <2>4, <2>5, <2>6, FreeFits
<1>14. Fits(s, n, locals, free, nextReg)
  BY <1>13 DEF Fits
<1>15. BoundIn(s, n, locals, nextReg)
  BY <1>9, <1>10, NoNameBound
<1>16. InOrder(Becomes(c), locals, free, nextReg)
  BY <1>2, <1>4, <1>9, <1>12, <1>14, <1>15, StepKeeps DEF s
<1>17. calls' = Becomes(c)
  BY <1>1 DEF GoOn, c, After
<1>. QED
  BY <1>1, <1>4, <1>16, <1>17 DEF RInv

\* A local takes over the register of a temporary.
LEMMA LetKeeps == ASSUME RInv, BindLet PROVE RInv'
<1> DEFINE t == Head(Top.todo)
           n == Len(calls)
           i == Head(At)
           slot == [Top.slot EXCEPT ![i] = NoReg]
           c == After(slot)
           s == Replaced(calls, c)
<1>1. /\ Doing("let") /\ GoOn(slot)
      /\ freeRegs' = freeRegs /\ nextReg' = nextReg /\ failed' = failed
  BY DEF BindLet
<1>2. PICK z \in Names : locals' = [locals EXCEPT ![z] = Top.slot[i]]
  BY DEF BindLet
<1>3. calls # <<>> /\ ~Top.block /\ t.do = "let" /\ t.at = At
  BY <1>1, DoingIs
<1>4. i \in HeldIn(Top) /\ Range(At) = {i}
  <2>1. PICK H2, p2 : Step(t, HeldIn(Top), H2, Phase(Top), p2)
    BY <1>1, DoingIs
  <2>2. At \in Seq(Slots) /\ Len(At) = 1 /\ Range(At) \subseteq HeldIn(Top)
    BY <1>3, <2>1 DEF Step, WellFormed, Needs
  <2>3. Range(At) = {i}
    BY <2>2, OneElement
  <2>. QED
    BY <2>2, <2>3
<1> HIDE DEF i
<1>5. /\ calls \in Seq(Call) /\ freeRegs \in Seq(Reg) /\ nextReg \in Nat /\ locals \in Scope
      /\ Fits(calls, n, locals, freeRegs, nextReg) /\ failed \in BOOLEAN
  BY RInvIs
<1>6. /\ Top.slot \in [Slots -> Reg \cup {NoReg}] /\ i \in Slots
      /\ Top.slot[i] \in Reg /\ Top.slot[i] # NoReg
  BY <1>3, <1>4, TopIs, TemporaryIs
<1>7. /\ slot \in [Slots -> Reg \cup {NoReg}]
      /\ slot[i] = NoReg /\ \A j \in Slots \ {i} : slot[j] = Top.slot[j]
  BY <1>6
<1>8. Taken(t) = {i} /\ Given(t) = {}
  BY <1>3, <1>4 DEF Taken, Given
<1> HIDE DEF slot
<1>9. {j \in Slots : slot[j] # NoReg} = (HeldIn(Top) \ Taken(t)) \cup Given(t)
  BY <1>6, <1>7, <1>8 DEF HeldIn
<1>10. /\ c \in Call /\ ~c.block /\ c.name = NoReg /\ c.scope = Top.scope /\ c.slot = slot
       /\ Plan(c.todo, HeldIn(c), Phase(c))
  BY <1>1, <1>7, <1>9, AfterIs
<1> HIDE DEF c
<1>11. /\ s \in Seq(Call) /\ SameBelow(calls, s, n) /\ s[n] = c /\ calls[n] = Top
       /\ \A k \in 1 .. n : k = n \/ s[k] = calls[k]
  BY <1>3, <1>10, SameButLast
<1> HIDE DEF s
<1>12. locals' \in Scope /\ \A x \in Names : locals'[x] = IF x = z THEN Top.slot[i] ELSE locals[x]
  BY <1>2, <1>5, <1>6 DEF Scope
<1>13. Fits(s, n, locals', freeRegs, nextReg)
  <2>1. \A k \in 1 .. n : s[k].scope = calls[k].scope
    BY <1>10, <1>11
  <2>2. \A x \in Names, r \in Reg : Named(s, n, locals', x, r) =>
          Named(calls, n, locals, x, r) \/ (x = z /\ r = calls[n].slot[i])
    BY <1>11, <1>12, <2>1 DEF Named
  <2>3. calls[n].slot[i] # NoReg /\ s[n].slot[i] = NoReg
    BY <1>6, <1>7, <1>10, <1>11
  <2>4. \A j \in Slots \ {i} : s[n].slot[j] = calls[n].slot[j]
    BY <1>7, <1>10, <1>11
  <2> DEFINE loc2 == locals'
  <2> HIDE DEF loc2
  <2>5. \A x \in Names, r \in Reg : Named(s, n, loc2, x, r) =>
          Named(calls, n, locals, x, r) \/ (x = z /\ r = calls[n].slot[i])
    BY <2>2 DEF loc2
  <2>6. Fits(s, n, loc2, freeRegs, nextReg)
    BY <1>5, <1>6, <1>11, <2>3, <2>4, <2>5, NameFits
  <2>. QED
    BY <2>6 DEF loc2
<1>14. BoundIn(s, n, locals', nextReg)
  BY <1>10, <1>11 DEF BoundIn
<1>15. InOrder(Becomes(c), locals', freeRegs, nextReg)
  BY <1>3, <1>5, <1>10, <1>12, <1>13, <1>14, StepKeeps DEF s
<1>16. calls' = Becomes(c)
  BY <1>1 DEF GoOn, c, After, slot
<1>. QED
  BY <1>1, <1>5, <1>15, <1>16 DEF RInv

\* A local takes it over for a block, and its scope before will be restored.
LEMMA BindKeeps == ASSUME RInv, BindName PROVE RInv'
<1> DEFINE t == Head(Top.todo)
           n == Len(calls)
           i == Head(At)
<1>1. /\ Doing("bind") /\ freeRegs' = freeRegs /\ nextReg' = nextReg /\ failed' = failed
  BY DEF BindName
<1>2. PICK z \in Names :
        /\ locals' = [locals EXCEPT ![z] = Top.slot[i]]
        /\ calls' = Append(Front(calls),
             [Top EXCEPT !.todo = Tail(@), !.slot[i] = NoReg, !.name = z, !.scope = locals])
  BY DEF BindName
<1> DEFINE slot == [Top.slot EXCEPT ![i] = NoReg]
           c == [Top EXCEPT !.todo = Tail(@), !.slot[i] = NoReg, !.name = z, !.scope = locals]
           s == Replaced(calls, c)
<1>3. /\ calls # <<>> /\ ~Top.block /\ t.do = "bind" /\ t.at = At
      /\ Tail(Top.todo) \in Seq(Todo) /\ Top \in Call
  BY <1>1, DoingIs
<1>4. PICK H2, p2 : /\ Step(t, HeldIn(Top), H2, Phase(Top), p2)
                    /\ Plan(Tail(Top.todo), H2, p2)
  BY <1>1, DoingIs
<1>5. i \in HeldIn(Top) /\ H2 = HeldIn(Top) \ {i} /\ p2 = "bound"
  <2>1. At \in Seq(Slots) /\ Len(At) = 1 /\ Range(At) \subseteq HeldIn(Top)
    BY <1>3, <1>4 DEF Step, WellFormed, Needs
  <2>2. Range(At) = {i}
    BY <2>1, OneElement
  <2>3. Taken(t) = {i} /\ Given(t) = {}
    BY <1>3, <2>2 DEF Taken, Given
  <2>. QED
    BY <1>3, <1>4, <2>1, <2>2, <2>3 DEF Step
<1> HIDE DEF i
<1>6. /\ calls \in Seq(Call) /\ freeRegs \in Seq(Reg) /\ nextReg \in Nat /\ locals \in Scope
      /\ Fits(calls, n, locals, freeRegs, nextReg) /\ failed \in BOOLEAN
  BY RInvIs
<1>7. /\ Top.slot \in [Slots -> Reg \cup {NoReg}] /\ i \in Slots
      /\ Top.slot[i] \in Reg /\ Top.slot[i] # NoReg
      /\ nextReg <= Bytes => \A x \in Names : ~Named(calls, n, locals, x, Top.slot[i])
  BY <1>3, <1>5, TopIs, TemporaryIs
<1>8. /\ slot \in [Slots -> Reg \cup {NoReg}]
      /\ slot[i] = NoReg /\ \A j \in Slots \ {i} : slot[j] = Top.slot[j]
  BY <1>7
<1>9. /\ c \in Call /\ ~c.block /\ c.name = z /\ c.scope = locals /\ c.slot = slot
      /\ c.todo = Tail(Top.todo)
  <2> HIDE DEF Top
  <2>. QED
    BY <1>3, <1>6, <1>8 DEF Call
<1> HIDE DEF slot, c
<1>10. Plan(c.todo, HeldIn(c), Phase(c))
  <2>1. HeldIn(c) = H2
    BY <1>5, <1>7, <1>8, <1>9 DEF HeldIn
  <2>2. Phase(c) = "bound"
    BY <1>9, NoRegIs DEF Phase
  <2>. QED
    BY <1>4, <1>5, <1>9, <2>1, <2>2
<1>11. /\ s \in Seq(Call) /\ SameBelow(calls, s, n) /\ s[n] = c /\ calls[n] = Top
       /\ \A k \in 1 .. n : k = n \/ s[k] = calls[k]
  BY <1>3, <1>9, SameButLast
<1> HIDE DEF s
<1>12. locals' \in Scope /\ \A x \in Names : locals'[x] = IF x = z THEN Top.slot[i] ELSE locals[x]
  BY <1>2, <1>6, <1>7 DEF Scope
<1> DEFINE loc2 == locals'
<1>13. Fits(s, n, loc2, freeRegs, nextReg)
  <2>1. \A x \in Names, r \in Reg : Named(s, n, loc2, x, r) =>
          Named(calls, n, locals, x, r) \/ (x = z /\ r = calls[n].slot[i])
    <3>1. \A x \in Names, r \in Reg : loc2[x] = r =>
            Named(calls, n, locals, x, r) \/ (x = z /\ r = calls[n].slot[i])
      BY <1>11, <1>12 DEF Named
    <3>2. \A k \in 1 .. n, x \in Names : s[k].scope[x] = locals[x] \/ s[k].scope[x] = calls[k].scope[x]
      BY <1>9, <1>11
    <3>3. \A x \in Names, r \in Reg, k \in 1 .. n : s[k].scope[x] = r => Named(calls, n, locals, x, r)
      BY <3>2 DEF Named
    <3> HIDE DEF loc2
    <3>. QED
      BY <3>1, <3>3 DEF Named
  <2>2. calls[n].slot[i] # NoReg /\ s[n].slot[i] = NoReg
    BY <1>7, <1>8, <1>9, <1>11
  <2>3. \A j \in Slots \ {i} : s[n].slot[j] = calls[n].slot[j]
    BY <1>8, <1>9, <1>11
  <2> HIDE DEF loc2
  <2>. QED
    BY <1>6, <1>7, <1>11, <2>1, <2>2, <2>3, NameFits
<1>14. BoundIn(s, n, loc2, nextReg)
  <2>1. s[n].name = z /\ s[n].scope = locals
    BY <1>9, <1>11
  <2>2. loc2[z] # NoReg /\ \A y \in Names \ {z} : loc2[y] = s[n].scope[y]
    BY <1>7, <1>12, <2>1
  <2>3. ASSUME nextReg <= Bytes, NEW d \in 1 .. n PROVE s[d].scope[z] # loc2[z]
    <3>1. ~Named(calls, n, locals, z, Top.slot[i]) /\ loc2[z] = Top.slot[i]
      BY <1>7, <1>12, <2>3
    <3>2. s[d].scope[z] = locals[z] \/ s[d].scope[z] = calls[d].scope[z]
      BY <1>11, <2>1
    <3>. QED
      BY <3>1, <3>2 DEF Named
  <2> HIDE DEF loc2
  <2>. QED
    BY <2>1, <2>2, <2>3 DEF BoundIn
<1>15. InOrder(s, loc2, freeRegs, nextReg)
  BY <1>3, <1>6, <1>9, <1>10, <1>12, <1>13, <1>14, StepKeeps DEF s
<1>16. calls' = s
  BY <1>2 DEF s, c, Replaced
<1>. QED
  BY <1>1, <1>6, <1>15, <1>16 DEF RInv

\* What the name meant before is restored, and its register is a temporary
\* again.
LEMMA UnbindKeeps == ASSUME RInv, UnbindName PROVE RInv'
<1> DEFINE t == Head(Top.todo)
           n == Len(calls)
           i == Head(At)
           z == Top.name
           r == locals[z]
           slot == [Top.slot EXCEPT ![i] = r]
           empty == [x \in Names |-> NoReg]
           c == [Top EXCEPT !.todo = Tail(@), !.slot[i] = r, !.name = NoReg, !.scope = empty]
           s == Replaced(calls, c)
           loc2 == [locals EXCEPT ![z] = Top.scope[z]]
<1>1. /\ Doing("unbind") /\ freeRegs' = freeRegs /\ nextReg' = nextReg /\ failed' = failed
      /\ locals' = loc2 /\ calls' = s
  BY DEF UnbindName, Replaced
<1>2. /\ calls # <<>> /\ ~Top.block /\ t.do = "unbind" /\ t.at = At
      /\ Tail(Top.todo) \in Seq(Todo) /\ Top \in Call
  BY <1>1, DoingIs
<1>3. PICK H2, p2 : /\ Step(t, HeldIn(Top), H2, Phase(Top), p2)
                    /\ Plan(Tail(Top.todo), H2, p2)
  BY <1>1, DoingIs
<1>4. i \in Slots /\ H2 = HeldIn(Top) \cup {i} /\ p2 = "plain" /\ Phase(Top) = "bound"
  <2>1. At \in Seq(Slots) /\ Len(At) = 1
    BY <1>2, <1>3 DEF Step, WellFormed
  <2>2. Range(At) = {i} /\ i \in Slots
    BY <2>1, OneElement
  <2>3. Taken(t) = {} /\ Given(t) = {i}
    BY <1>2, <2>2 DEF Taken, Given
  <2>. QED
    BY <1>2, <1>3, <2>2, <2>3 DEF Step
<1> HIDE DEF i
<1>5. /\ calls \in Seq(Call) /\ freeRegs \in Seq(Reg) /\ nextReg \in Nat /\ locals \in Scope
      /\ Fits(calls, n, locals, freeRegs, nextReg) /\ failed \in BOOLEAN
      /\ BoundIn(calls, n, locals, nextReg)
  BY <1>2, RInvIs
<1>6. /\ Top.slot \in [Slots -> Reg \cup {NoReg}] /\ Top.scope \in Scope
      /\ n \in Nat /\ n > 0 /\ calls[n] = Top
  BY <1>2, TopIs
<1>7. z \in Names /\ z # NoReg
  <2>1. z \in Names \cup {NoReg}
    <3> HIDE DEF Top
    <3>. QED
      BY <1>2 DEF Call
  <2>2. z # NoReg
    BY <1>4 DEF Phase
  <2>. QED
    BY <2>1, <2>2
<1>8. /\ r # NoReg /\ r \in Reg
      /\ nextReg <= Bytes => \A d \in 1 .. n : calls[d].scope[z] # r
  <2>1. r \in Reg \cup {NoReg}
    BY <1>5, <1>7 DEF Scope
  <2>. QED
    BY <1>5, <1>6, <1>7, <2>1 DEF BoundIn
<1>9. loc2 \in Scope /\ \A x \in Names : loc2[x] = IF x = z THEN Top.scope[z] ELSE locals[x]
  BY <1>5, <1>6, <1>7 DEF Scope
<1>10. /\ slot \in [Slots -> Reg \cup {NoReg}]
       /\ slot[i] = r /\ \A j \in Slots \ {i} : slot[j] = Top.slot[j]
  <2> HIDE DEF r, Top
  <2>. QED
    BY <1>4, <1>6, <1>8
<1>11. empty \in Scope /\ \A x \in Names : empty[x] = NoReg
  BY DEF Scope
<1>12. /\ c \in Call /\ ~c.block /\ c.name = NoReg /\ c.scope = empty /\ c.slot = slot
       /\ c.todo = Tail(Top.todo)
  <2> HIDE DEF Top, empty, r
  <2>. QED
    BY <1>2, <1>10, <1>11 DEF Call
<1> HIDE DEF slot, c, empty, loc2
<1>13. Plan(c.todo, HeldIn(c), Phase(c))
  <2>1. HeldIn(c) = H2
    BY <1>4, <1>8, <1>10, <1>12 DEF HeldIn
  <2>2. Phase(c) = "plain"
    BY <1>12 DEF Phase
  <2>. QED
    BY <1>3, <1>4, <1>12, <2>1, <2>2
<1>14. /\ s \in Seq(Call) /\ SameBelow(calls, s, n) /\ s[n] = c /\ Len(s) = n
       /\ \A k \in 1 .. n : k = n \/ s[k] = calls[k]
  BY <1>2, <1>12, SameButLast
<1> HIDE DEF s
\* In between: the scope is restored, and nobody has the register.
<1> DEFINE m == [Top EXCEPT !.name = NoReg, !.scope = empty]
           base == Replaced(calls, m)
<1>15. m \in Call /\ m.scope = empty /\ m.slot = Top.slot
  <2> HIDE DEF Top
  <2>. QED
    BY <1>2, <1>11 DEF Call
<1> HIDE DEF m
<1>16. /\ base \in Seq(Call) /\ base[n] = m /\ Len(base) = n
       /\ \A k \in 1 .. n : k = n \/ base[k] = calls[k]
  BY <1>2, <1>15, SameButLast
<1> HIDE DEF base
<1>17. \A x \in Names, q \in Reg : Named(base, n, loc2, x, q) => Named(calls, n, locals, x, q)
  <2>1. \A x \in Names, q \in Reg, k \in 1 .. n : base[k].scope[x] = q => calls[k].scope[x] = q
    BY <1>11, <1>15, <1>16, NoRegIs
  <2>2. \A x \in Names, q \in Reg : loc2[x] = q => locals[x] = q \/ calls[n].scope[x] = q
    BY <1>6, <1>9
  <2>3. n \in 1 .. n
    BY <1>6
  <2>. QED
    BY <2>1, <2>2, <2>3 DEF Named
<1>18. Fits(base, n, loc2, freeRegs, nextReg)
  <2>1. \A k \in 1 .. n, j \in Slots : base[k].slot[j] # NoReg =>
          k \in 1 .. n /\ base[k].slot[j] = calls[k].slot[j]
    BY <1>6, <1>15, <1>16
  <2>2. n \in 0 .. Len(calls) /\ n \in 0 .. Len(base) /\ nextReg <= nextReg
    BY <1>5, <1>6, <1>16
  <2>. QED
    BY <1>5, <1>16, <1>17, <2>1, <2>2, FewerFit
<1>19. ASSUME nextReg <= Bytes
       PROVE  r < nextReg /\ Unowned(base, n, loc2, freeRegs, r)
  <2>1. /\ TemporariesFit(calls, n, locals, freeRegs, nextReg)
        /\ NamesFit(calls, n, locals, freeRegs, nextReg)
    BY <1>5, <1>19 DEF Fits
  <2>2. Named(calls, n, locals, z, r)
    BY DEF Named
  <2>3. /\ r < nextReg
        /\ \A y \in Names : Named(calls, n, locals, y, r) => y = z
        /\ \A k \in 1 .. Len(freeRegs) : freeRegs[k] # r
    BY <1>7, <1>8, <2>1, <2>2 DEF NamesFit
  <2> HIDE DEF r
  <2>4. ASSUME NEW k \in 1 .. n, NEW j \in Slots, base[k].slot[j] = r PROVE FALSE
    <3>1. calls[k].slot[j] = r
      BY <1>6, <1>15, <1>16, <2>4
    <3>2. ~Named(calls, n, locals, z, calls[k].slot[j])
      BY <1>7, <1>8, <2>1, <3>1 DEF TemporariesFit
    <3>. QED
      BY <2>2, <3>1, <3>2
  <2>5. ASSUME NEW x \in Names, Named(base, n, loc2, x, r) PROVE FALSE
    <3>1. x = z
      BY <1>8, <1>17, <2>3, <2>5
    <3>2. \A k \in 1 .. n : base[k].scope[z] # r
      BY <1>7, <1>8, <1>11, <1>15, <1>16, <1>19
    <3>3. loc2[z] # r
      BY <1>6, <1>7, <1>8, <1>9, <1>19
    <3>. QED
      BY <2>5, <3>1, <3>2, <3>3 DEF Named
  <2>. QED
    BY <2>3, <2>4, <2>5 DEF Unowned
<1> HIDE DEF r
<1>20. Fits(s, n, loc2, freeRegs, nextReg)
  <2> DEFINE G == {i}
  <2>1. SameBelow(base, s, n) /\ s[n].scope = base[n].scope
    <3>1. \A k \in 1 .. n - 1 : s[k] = base[k]
      BY <1>6, <1>14, <1>16
    <3>. QED
      BY <1>6, <1>12, <1>14, <1>15, <1>16, <3>1 DEF SameBelow
  <2>2. G \in SUBSET Slots /\ \A j \in Slots \ G : s[n].slot[j] = base[n].slot[j]
    BY <1>4, <1>10, <1>12, <1>14, <1>15, <1>16
  <2>3. s[n].slot[i] = r
    BY <1>10, <1>12, <1>14
  <2>4. nextReg <= Bytes =>
          /\ \A j \in G : s[n].slot[j] < nextReg /\ Unowned(base, n, loc2, freeRegs, s[n].slot[j])
          /\ \A j, k \in G : s[n].slot[j] = s[n].slot[k] => j = k
    BY <1>19, <2>3
  <2> HIDE DEF G
  <2>. QED
    BY <1>5, <1>14, <1>16, <1>18, <2>1, <2>2, <2>4, GrantFits
<1>21. BoundIn(s, n, loc2, nextReg)
  BY <1>12, <1>14, NoNameBound
<1>22. InOrder(s, loc2, freeRegs, nextReg)
  BY <1>2, <1>5, <1>9, <1>12, <1>13, <1>20, <1>21, StepKeeps DEF s
<1>. QED
  BY <1>1, <1>5, <1>22 DEF RInv

\* The innermost function has done something in which no register changes
\* hands.
Rest == [Top EXCEPT !.todo = Tail(@)]

LEMMA RestKeeps ==
  ASSUME RInv, NEW what, Doing(what), what \in {"expr", "place", "block"},
         NEW next \in Nat, nextReg <= next
  PROVE  /\ InOrder(Becomes(Rest), locals, freeRegs, next)
         /\ what # "block" => Unbound(Becomes(Rest))
         /\ Rest = After(Top.slot)
<1> DEFINE t == Head(Top.todo)
           n == Len(calls)
           s == Replaced(calls, Rest)
<1>1. /\ calls # <<>> /\ ~Top.block /\ t.do = what
      /\ Tail(Top.todo) \in Seq(Todo) /\ Top \in Call
  BY DoingIs
<1>2. PICK H2, p2 : /\ Step(t, HeldIn(Top), H2, Phase(Top), p2)
                    /\ Plan(Tail(Top.todo), H2, p2)
  BY DoingIs
<1>3. H2 = HeldIn(Top) /\ p2 = Phase(Top) /\ (what # "block" => Phase(Top) = "plain")
  BY <1>1, <1>2 DEF Step, Taken, Given
<1>4. /\ Rest \in Call /\ ~Rest.block /\ Rest.name = Top.name /\ Rest.scope = Top.scope
      /\ Rest.slot = Top.slot /\ Rest.todo = Tail(Top.todo)
      /\ Rest = After(Top.slot)
  <2> HIDE DEF Top
  <2>. QED
    BY <1>1 DEF Rest, After, Call
<1>5. Plan(Rest.todo, HeldIn(Rest), Phase(Rest))
  <2>1. HeldIn(Rest) = H2 /\ Phase(Rest) = p2
    BY <1>3, <1>4 DEF HeldIn, Phase
  <2>. QED
    BY <1>2, <1>4, <2>1
<1>6. Fits(s, n, locals, freeRegs, next)
  BY <1>1, <1>4, StillFits
<1>7. /\ s[n] = Rest /\ calls[n] = Top /\ n \in Nat /\ nextReg \in Nat
      /\ \A k \in 1 .. n : k = n \/ s[k] = calls[k]
  BY <1>1, <1>4, SameButLast, RInvIs, TopIs
<1> HIDE DEF s
<1>8. BoundIn(s, n, locals, next)
  <2>1. BoundIn(calls, n, locals, nextReg)
    BY <1>1, RInvIs
  <2>2. s[n].name = calls[n].name /\ \A k \in 1 .. n : s[k].scope = calls[k].scope
    BY <1>4, <1>7
  <2>3. s[n].scope = calls[n].scope
    BY <1>4, <1>7
  <2>4. next <= Bytes => nextReg <= Bytes
    BY <1>7, NoRegIs
  <2>. QED
    BY <2>1, <2>2, <2>3, <2>4 DEF BoundIn
<1>9. /\ InOrder(Becomes(Rest), locals, freeRegs, next)
      /\ Rest.name = NoReg => Unbound(Becomes(Rest))
  BY <1>1, <1>4, <1>5, <1>6, <1>8, RInvIs, StepKeeps DEF s
<1>10. what # "block" => Rest.name = NoReg
  BY <1>3, <1>4, PhaseIs
<1>. QED
  BY <1>4, <1>9, <1>10

\* A function that begins.
LEMMA BeginIs ==
  ASSUME NEW todo, Begins(todo), NEW dest \in Reg \cup {NoReg}
  PROVE  /\ Begin(todo, dest) \in Call /\ ~Begin(todo, dest).block
         /\ Begin(todo, dest).name = NoReg /\ HeldIn(Begin(todo, dest)) = {}
         /\ \A x \in Names : Begin(todo, dest).scope[x] = NoReg
         /\ Sound(Begin(todo, dest))
<1>1. todo \in Seq(Todo) /\ Plan(todo, {}, "plain")
  BY DEF Begins, Plan
<1> DEFINE d == Begin(todo, dest)
<1>2. /\ d \in Call /\ ~d.block /\ d.name = NoReg /\ d.todo = todo
      /\ \A x \in Names : d.scope[x] = NoReg
      /\ \A i \in Slots : d.slot[i] = NoReg
  BY <1>1 DEF Begin, Call, Scope
<1> HIDE DEF d
<1>3. HeldIn(d) = {} /\ Phase(d) = "plain"
  BY <1>2 DEF HeldIn, Phase
<1>. QED
  BY <1>1, <1>2, <1>3 DEF Sound, d

LEMMA BeginBlockIs ==
  ASSUME NEW loc \in Scope, NEW next \in Nat
  PROVE  /\ BeginBlock(loc, next) \in Call /\ BeginBlock(loc, next).block
         /\ BeginBlock(loc, next).name = NoReg /\ HeldIn(BeginBlock(loc, next)) = {}
         /\ BeginBlock(loc, next).scope = loc /\ BeginBlock(loc, next).next = next
         /\ \A i \in Slots : BeginBlock(loc, next).slot[i] = NoReg
         /\ Sound(BeginBlock(loc, next))
<1> DEFINE b == Begin(<<>>, NoReg)
           d == BeginBlock(loc, next)
<1>a. /\ b \in Call /\ b.name = NoReg /\ b.todo = <<>>
      /\ \A i \in Slots : b.slot[i] = NoReg
  BY DEF Begin, Call, Scope
<1>b. d = [b EXCEPT !.block = TRUE, !.scope = loc, !.next = next]
  BY DEF BeginBlock
<1> HIDE DEF b, d
<1>1. /\ d \in Call /\ d.block /\ d.name = NoReg /\ d.todo = <<>> /\ d.scope = loc /\ d.next = next
      /\ \A i \in Slots : d.slot[i] = NoReg
  BY <1>a, <1>b DEF Call
<1>2. HeldIn(d) = {}
  BY <1>1 DEF HeldIn
<1>. QED
  BY <1>1, <1>2 DEF Sound, d

LEMMA ExprKeeps == ASSUME RInv, CompileExpr PROVE RInv'
<1>1. /\ Doing("expr") /\ locals' = locals /\ nextReg' = nextReg /\ freeRegs' = freeRegs
      /\ failed' = failed
  BY DEF CompileExpr
<1>2. locals \in Scope /\ nextReg \in Nat /\ nextReg <= nextReg /\ failed \in BOOLEAN
  BY RInvIs
<1>3. /\ InOrder(Becomes(Rest), locals, freeRegs, nextReg) /\ Unbound(Becomes(Rest))
      /\ Rest = After(Top.slot)
  BY <1>1, <1>2, RestKeeps
<1>4. CASE GoOn(Top.slot)
  <2>1. calls' = Becomes(Rest)
    BY <1>3, <1>4 DEF GoOn, After
  <2>. QED
    BY <1>1, <1>2, <1>3, <2>1 DEF RInv
<1>5. CASE \E todo \in Expressions : GoOnAfter(Begin(todo, Register(Head(At))))
  <2>1. PICK todo \in Expressions : GoOnAfter(Begin(todo, Register(Head(At))))
    BY <1>5
  <2>2. Register(Head(At)) \in Reg \cup {NoReg}
    <3>1. PICK H2, p2 : Step(Head(Top.todo), HeldIn(Top), H2, Phase(Top), p2)
      BY <1>1, DoingIs
    <3>2. calls # <<>> /\ Head(Top.todo).do = "expr" /\ Head(Top.todo).at = At /\ At \in Seq(Nat)
      BY <1>1, DoingIs
    <3>3. Len(At) = 1 /\ At[1] \in Slots \cup {Dest}
      BY <3>1, <3>2 DEF Step, WellFormed
    <3>4. Head(At) \in Slots \cup {Dest}
      BY <3>2, <3>3, OneElement
    <3>5. Top.slot \in [Slots -> Reg \cup {NoReg}] /\ Top.dest \in Reg \cup {NoReg}
      BY <3>2, TopIs
    <3> HIDE DEF Top, At
    <3>. QED
      BY <3>4, <3>5 DEF Register
  <2> DEFINE d == Begin(todo, Register(Head(At)))
  <2>3. /\ d \in Call /\ ~d.block /\ d.name = NoReg /\ HeldIn(d) = {} /\ Sound(d)
        /\ \A x \in Names : d.scope[x] = NoReg
    BY <2>2, ExpressionsBegin, BeginIs
  <2> HIDE DEF d
  <2>4. \A x \in Names : d.scope[x] \in {NoReg, locals[x]}
    BY <2>3
  <2>5. InOrder(Append(Becomes(Rest), d), locals, freeRegs, nextReg)
    BY <1>3, <2>3, <2>4, CallKeeps
  <2>6. calls' = Append(Becomes(Rest), d)
    BY <2>1 DEF GoOnAfter, Rest, d
  <2>. QED
    BY <1>1, <1>2, <2>5, <2>6 DEF RInv
<1>. QED
  BY <1>4, <1>5 DEF CompileExpr

LEMMA FuncKeeps == ASSUME RInv, CompileFunc PROVE RInv'
<1> DEFINE t == Head(Top.todo)
           n == Len(calls)
<1>1. /\ Doing("func") /\ locals' = locals /\ nextReg' = nextReg /\ freeRegs' = freeRegs
      /\ failed' = failed
  BY DEF CompileFunc
<1>2. PICK k \in 0 .. MaxCaptures :
        \E captures \in [1 .. k -> {locals[x] : x \in Names} \cup {NoReg}] :
          calls' = Append(Front(calls), [Top EXCEPT !.todo = <<[do |-> "place", at |-> captures]>>])
  BY DEF CompileFunc
<1>3. PICK captures \in [1 .. k -> {locals[x] : x \in Names} \cup {NoReg}] :
        calls' = Append(Front(calls), [Top EXCEPT !.todo = <<[do |-> "place", at |-> captures]>>])
  BY <1>2
<1> DEFINE place == [do |-> "place", at |-> captures]
           c == [Top EXCEPT !.todo = <<place>>]
           s == Replaced(calls, c)
<1>4. /\ calls # <<>> /\ ~Top.block /\ t.do = "func" /\ Top \in Call
  BY <1>1, DoingIs
<1>5. /\ calls \in Seq(Call) /\ freeRegs \in Seq(Reg) /\ nextReg \in Nat /\ locals \in Scope
      /\ failed \in BOOLEAN
  BY RInvIs
<1>6. HeldIn(Top) = {} /\ Phase(Top) = "plain"
  BY <1>1, <1>4, DoingIs, PhaseIs DEF Step
<1>7. place \in Todo
  <2>1. \A x \in Names : locals[x] \in Nat
    BY <1>5, NoRegIs DEF Scope
  <2>2. captures \in [1 .. k -> Nat] /\ k \in Nat
    BY <2>1, NoRegIs, RegisterAssumption
  <2>3. captures \in Seq(Nat)
    BY <2>2, FunctionIsSeq
  <2>. QED
    BY <2>3 DEF Todo, Kind
<1>8. Plan(<<place>>, {}, "plain")
  <2> DEFINE held == [j \in 1 .. 2 |-> {}]
             phase == [j \in 1 .. 2 |-> "plain"]
  <2>1. place.do = "place"
    OBVIOUS
  <2> HIDE DEF place
  <2>2. Step(place, {}, {}, "plain", "plain")
    BY <1>7, <2>1 DEF Step, WellFormed, Needs, Taken, Given
  <2>3. <<place>> \in Seq(Todo) /\ Len(<<place>>) = 1 /\ <<place>>[1] = place
    BY <1>7
  <2>4. Leads(<<place>>, held, phase, {}, "plain")
    BY <2>2, <2>3 DEF Leads
  <2>. QED
    BY <2>3, <2>4 DEF Plan
<1>9. /\ c \in Call /\ ~c.block /\ c.name = Top.name /\ c.scope = Top.scope
      /\ c.slot = Top.slot /\ c.todo = <<place>>
  <2> HIDE DEF Top, place
  <2>1. <<place>> \in Seq(Todo)
    BY <1>7
  <2> DEFINE todo == <<place>>
  <2>2. c = [Top EXCEPT !.todo = todo] /\ todo \in Seq(Todo)
    BY <2>1
  <2> HIDE DEF todo, c
  <2>3. /\ c \in Call /\ ~c.block /\ c.name = Top.name /\ c.scope = Top.scope
        /\ c.slot = Top.slot /\ c.todo = todo
    BY <1>4, <2>2 DEF Call
  <2>. QED
    BY <2>3 DEF todo
<1> HIDE DEF place, c
<1>10. Plan(c.todo, HeldIn(c), Phase(c)) /\ c.name = NoReg
  <2>1. HeldIn(c) = {} /\ Phase(c) = "plain"
    BY <1>6, <1>9 DEF HeldIn, Phase
  <2>. QED
    BY <1>8, <1>9, <2>1, PhaseIs
<1>11. Fits(s, n, locals, freeRegs, nextReg)
  BY <1>4, <1>5, <1>9, StillFits
<1>12. BoundIn(s, n, locals, nextReg)
  BY <1>4, <1>9, <1>10, SameButLast, NoNameBound
<1>13. InOrder(s, locals, freeRegs, nextReg)
  BY <1>4, <1>5, <1>9, <1>10, <1>11, <1>12, StepKeeps
<1>14. calls' = s
  BY <1>3 DEF Replaced, c, place
<1>. QED
  BY <1>1, <1>5, <1>13, <1>14 DEF RInv

LEMMA PlaceKeeps == ASSUME RInv, PlaceCaptures PROVE RInv'
<1> DEFINE next == IF At # <<>> /\ nextReg < Top.dest + 1 + Len(At)
                   THEN Top.dest + 1 + Len(At) ELSE nextReg
<1>1. /\ Doing("place") /\ GoOn(Top.slot) /\ nextReg' = next
      /\ locals' = locals /\ freeRegs' = freeRegs /\ failed' = failed
  BY DEF PlaceCaptures, NextIs
<1>2. nextReg \in Nat /\ failed \in BOOLEAN
  BY RInvIs
<1>3. next \in Nat /\ nextReg <= next
  <2>1. calls # <<>> /\ At \in Seq(Nat)
    BY <1>1, DoingIs
  <2>2. Top.dest \in Nat /\ Len(At) \in Nat
    BY <2>1, TopIs, NoRegIs, LenProperties
  <2>. QED
    BY <1>2, <2>2
<1> HIDE DEF next
<1>4. InOrder(Becomes(Rest), locals, freeRegs, next) /\ Rest = After(Top.slot)
  BY <1>1, <1>3, RestKeeps
<1>5. calls' = Becomes(Rest)
  BY <1>1, <1>4 DEF GoOn, After
<1>. QED
  BY <1>1, <1>2, <1>4, <1>5 DEF RInv

LEMMA OpenKeeps == ASSUME RInv, OpenBlock PROVE RInv'
<1> DEFINE d == BeginBlock(locals, nextReg)
<1>1. /\ Doing("block") /\ calls' = Append(Becomes(Rest), d)
      /\ locals' = locals /\ nextReg' = nextReg /\ freeRegs' = freeRegs /\ failed' = failed
  BY DEF OpenBlock, GoOnAfter, Rest
<1>2. locals \in Scope /\ nextReg \in Nat /\ nextReg <= nextReg /\ failed \in BOOLEAN
  BY RInvIs
<1>3. InOrder(Becomes(Rest), locals, freeRegs, nextReg)
  BY <1>1, <1>2, RestKeeps
<1>4. /\ d \in Call /\ d.block /\ d.name = NoReg /\ HeldIn(d) = {} /\ Sound(d)
      /\ d.scope = locals /\ d.next = nextReg
  BY <1>2, BeginBlockIs
<1> HIDE DEF d
<1>5. InOrder(Append(Becomes(Rest), d), locals, freeRegs, nextReg)
  <2>1. \A x \in Names : d.scope[x] \in {NoReg, locals[x]}
    BY <1>4
  <2>. QED
    BY <1>3, <1>4, <2>1, CallKeeps
<1>. QED
  BY <1>1, <1>2, <1>5 DEF RInv

\* The next statement of a block.
LEMMA StatementBegins ==
  ASSUME RInv, calls # <<>>, Top.block, NEW todo, Begins(todo), NEW dest \in Reg \cup {NoReg}
  PROVE  InOrder(Append(calls, Begin(todo, dest)), locals, freeRegs, nextReg)
<1> DEFINE d == Begin(todo, dest)
<1>1. /\ d \in Call /\ ~d.block /\ d.name = NoReg /\ HeldIn(d) = {} /\ Sound(d)
      /\ \A x \in Names : d.scope[x] = NoReg
  BY BeginIs
<1> HIDE DEF d
<1>2. InOrder(calls, locals, freeRegs, nextReg)
  BY DEF RInv
<1>3. Unbound(calls)
  <2>1. Top = calls[Len(calls)] /\ Len(calls) \in Nat /\ Len(calls) > 0
    BY TopIs
  <2>2. Sound(calls[Len(calls)]) /\ calls[Len(calls)].block
    BY <2>1, RInvIs
  <2>. QED
    BY <2>2 DEF Sound, Unbound
<1>4. \A x \in Names : d.scope[x] \in {NoReg, locals[x]}
  BY <1>1
<1>5. InOrder(Append(calls, d), locals, freeRegs, nextReg)
  BY <1>1, <1>2, <1>3, <1>4, CallKeeps
<1>. QED
  BY <1>5 DEF d

LEMMA StatementKeeps == ASSUME RInv, Statement PROVE RInv'
<1>1. /\ calls # <<>> /\ Top.block /\ locals' = locals /\ nextReg' = nextReg
      /\ freeRegs' = freeRegs /\ failed' = failed
  BY DEF Statement
<1>2. locals \in Scope /\ failed \in BOOLEAN
  BY RInvIs
<1>3. CASE \E todo \in Statements : calls' = Append(calls, Begin(todo, NoReg))
  <2>1. PICK todo \in Statements : calls' = Append(calls, Begin(todo, NoReg))
    BY <1>3
  <2>2. Begins(todo)
    BY StatementsBegin
  <2>3. InOrder(Append(calls, Begin(todo, NoReg)), locals, freeRegs, nextReg)
    BY <1>1, <2>2, StatementBegins
  <2>. QED
    BY <1>1, <1>2, <2>1, <2>3 DEF RInv
<1>4. CASE \E x \in Names : calls' = Append(calls, Begin(AssignLocal, locals[x]))
  <2>1. PICK x \in Names : calls' = Append(calls, Begin(AssignLocal, locals[x]))
    BY <1>4
  <2>2. Begins(AssignLocal) /\ locals[x] \in Reg \cup {NoReg}
    BY <1>2, StatementsBegin DEF Scope
  <2>3. InOrder(Append(calls, Begin(AssignLocal, locals[x])), locals, freeRegs, nextReg)
    BY <1>1, <2>2, StatementBegins
  <2>. QED
    BY <1>1, <1>2, <2>1, <2>3 DEF RInv
<1>. QED
  BY <1>3, <1>4 DEF Statement

LEMMA CloseKeeps == ASSUME RInv, CloseBlock PROVE RInv'
<1>1. /\ calls # <<>> /\ Top.block /\ locals' = Top.scope /\ nextReg' = Top.next
      /\ freeRegs' = <<>> /\ calls' = Front(calls) /\ failed' = failed
  BY DEF CloseBlock
<1>2. Top = calls[Len(calls)]
  BY <1>1, TopIs
<1>3. InOrder(calls, locals, freeRegs, nextReg) /\ failed \in BOOLEAN
  BY DEF RInv
<1>4. InOrder(Front(calls), calls[Len(calls)].scope, <<>>, calls[Len(calls)].next)
  BY <1>1, <1>2, <1>3, BlockKeeps
<1>. QED
  BY <1>1, <1>2, <1>3, <1>4 DEF RInv

LEMMA TooManyKeeps == ASSUME RInv, TooManyRegisters PROVE RInv'
<1>1. /\ locals' = locals /\ nextReg' = nextReg /\ freeRegs' = freeRegs /\ calls' = calls
      /\ failed' = TRUE
  BY DEF TooManyRegisters
<1>2. InOrder(calls, locals, freeRegs, nextReg)
  BY DEF RInv
<1>. QED
  BY <1>1, <1>2 DEF RInv

-----------------------------------------------------------------------------
(* The invariant.                                                          *)

\* With the parameters bound, before the body of the function begins.
LEMMA ParametersFit ==
  ASSUME NEW ix \in [Params -> 0 .. Cardinality(Params) - 1], IsInjective(ix)
  PROVE  LET loc == [x \in Names |-> IF x \in Params THEN ix[x] % Bytes ELSE NoReg]
         IN loc \in Scope /\ Cardinality(Params) \in Nat
              /\ InOrder(<<>>, loc, <<>>, Cardinality(Params))
<1> DEFINE m == Cardinality(Params)
           loc == [x \in Names |-> IF x \in Params THEN ix[x] % Bytes ELSE NoReg]
<1>1. m \in Nat
  BY RegisterAssumption, FS_Subset, FS_CardinalityType
<1> HIDE DEF m
<1>2. \A x \in Params : /\ ix[x] \in Nat /\ ix[x] < m
                        /\ ix[x] % Bytes \in Reg
                        /\ ix[x] < Bytes => ix[x] % Bytes = ix[x]
  <2>1. TAKE x \in Params
  <2>2. ix[x] \in 0 .. m - 1
    BY DEF m
  <2>3. ix[x] \in Nat /\ ix[x] < m
    BY <1>1, <2>2
  <2>. QED
    BY <2>3, ModIs
<1>3. loc \in Scope
  BY <1>2 DEF Scope
<1>4. ASSUME NEW x \in Names, NEW r \in Reg, loc[x] = r
      PROVE  x \in Params /\ ix[x] % Bytes = r
  BY <1>4, NoRegIs
<1>5. \A x, y \in Params : ix[x] = ix[y] => x = y
  BY DEF IsInjective
<1> HIDE DEF loc
<1>6. \A x \in Names, r \in Reg : Named(<<>>, 0, loc, x, r) => loc[x] = r
  BY DEF Named
<1>7. Fits(<<>>, 0, loc, <<>>, m)
  <2>1. SUFFICES ASSUME m <= Bytes PROVE NamesFit(<<>>, 0, loc, <<>>, m)
    BY DEF Fits, TemporariesFit, FreeFit
  <2>2. \A x \in Params : ix[x] % Bytes = ix[x]
    BY <1>1, <1>2, <2>1, NoRegIs
  <2>3. SUFFICES ASSUME NEW x \in Names, NEW r \in Reg, loc[x] = r
                 PROVE  r < m /\ \A y \in Names : loc[y] = r => y = x
    BY <1>6 DEF NamesFit
  <2>4. x \in Params /\ ix[x] = r /\ r < m
    BY <1>2, <1>4, <2>2, <2>3
  <2>5. ASSUME NEW y \in Names, loc[y] = r PROVE y = x
    <3>1. y \in Params /\ ix[y] = r
      BY <1>4, <2>2, <2>5
    <3>. QED
      BY <1>5, <2>4, <3>1
  <2>. QED
    BY <2>4, <2>5
<1>8. /\ <<>> \in Seq(Call) /\ <<>> \in Seq(Reg) /\ Len(<<>>) = 0
  OBVIOUS
<1>9. InOrder(<<>>, loc, <<>>, m)
  BY <1>1, <1>3, <1>7, <1>8 DEF InOrder, AllFit, AllBound
<1>. QED
  BY <1>1, <1>3, <1>9 DEF m, loc

LEMMA InitOk == ASSUME Init PROVE RInv
<1>1. PICK ix \in [Params -> 0 .. Cardinality(Params) - 1] :
        /\ IsInjective(ix)
        /\ locals = [x \in Names |-> IF x \in Params THEN ix[x] % Bytes ELSE NoReg]
  BY DEF Init
<1>2. /\ nextReg = Cardinality(Params) /\ freeRegs = <<>> /\ failed = FALSE
      /\ calls = <<BeginBlock(locals, nextReg)>>
  BY DEF Init
<1>3. locals \in Scope /\ nextReg \in Nat /\ InOrder(<<>>, locals, <<>>, nextReg)
  BY <1>1, <1>2, ParametersFit
<1> DEFINE d == BeginBlock(locals, nextReg)
<1>4. /\ d \in Call /\ d.block /\ d.name = NoReg /\ HeldIn(d) = {} /\ Sound(d)
      /\ d.scope = locals /\ d.next = nextReg
  BY <1>3, BeginBlockIs
<1> HIDE DEF d
<1>5. \A x \in Names : d.scope[x] \in {NoReg, locals[x]}
  BY <1>4
<1>6. InOrder(Append(<<>>, d), locals, <<>>, nextReg)
  BY <1>3, <1>4, <1>5, CallKeeps
<1>7. Append(<<>>, d) = calls
  BY <1>2 DEF d
<1>. QED
  BY <1>2, <1>6, <1>7 DEF RInv

LEMMA NextKeeps == ASSUME RInv, [Next]_vars PROVE RInv'
<1>1. CASE UNCHANGED vars
  BY <1>1 DEF RInv, vars
<1>2. CASE Next
  BY <1>2, AllocKeeps, TooManyKeeps, FreeKeeps, ReserveKeeps, PairKeeps, ExprKeeps,
     FuncKeeps, PlaceKeeps, LetKeeps, BindKeeps, UnbindKeeps, OpenKeeps, StatementKeeps,
     CloseKeeps DEF Next
<1>. QED
  BY <1>1, <1>2

LEMMA RInvAlways == Spec => []RInv
<1>1. Init => RInv
  BY InitOk
<1>2. RInv /\ [Next]_vars => RInv'
  BY NextKeeps
<1>. QED
  BY <1>1, <1>2, PTL DEF Spec

\* The variables keep their types: no register number leaves the byte that the
\* instructions have for it, however deep the constructs nest
\* (compiler.go:241-260, funcCompiler).
THEOREM TypeCorrect == Spec => []TypeOK
<1>1. RInv => TypeOK
  BY RInvIs DEF TypeOK
<1>. QED
  BY <1>1, RInvAlways, PTL

-----------------------------------------------------------------------------
(* What it says of the owners of registers.                                *)

\* A register of a scope is that of a name.
LEMMA LocalIsNamed ==
  ASSUME RInv
  PROVE  /\ \A s \in Scopes, x \in Names : s[x] # NoReg =>
              s[x] \in Reg /\ Named(calls, Len(calls), locals, x, s[x])
         /\ \A r \in LocalRegs :
              r \in Reg /\ \E x \in Names : Named(calls, Len(calls), locals, x, r)
<1> DEFINE n == Len(calls)
<1>1. locals \in Scope /\ \A c \in 1 .. n : calls[c].scope \in Scope
  <2>1. calls \in Seq(Call) /\ locals \in Scope
    BY RInvIs
  <2>2. ASSUME NEW c \in 1 .. n PROVE calls[c].scope \in Scope
    <3>1. calls[c] \in Call
      BY <2>1, ElementOfSeq
    <3>. QED
      BY <3>1 DEF Call
  <2>. QED
    BY <2>1, <2>2
<1>2. ASSUME NEW s \in Scopes, NEW x \in Names, s[x] # NoReg
      PROVE  s[x] \in Reg /\ Named(calls, n, locals, x, s[x])
  <2>1. s = locals \/ \E c \in 1 .. n : s = calls[c].scope
    BY DEF Scopes
  <2>2. s \in Scope
    BY <1>1, <2>1
  <2>3. Named(calls, n, locals, x, s[x])
    BY <2>1 DEF Named
  <2>. QED
    BY <1>2, <2>2, <2>3 DEF Scope
<1>3. ASSUME NEW r \in LocalRegs
      PROVE  r \in Reg /\ \E x \in Names : Named(calls, n, locals, x, r)
  <2>1. PICK s \in Scopes : r \in {s[x] : x \in Names} /\ r # NoReg
    BY DEF LocalRegs
  <2>2. PICK x \in Names : r = s[x]
    BY <2>1
  <2>. QED
    BY <1>2, <2>1, <2>2
<1>. QED
  BY <1>2, <1>3

\* The holders of registers are as many as the registers they hold, when no
\* two hold the same.
LEMMA HoldersCounted ==
  ASSUME RInv, \A g, h \in Holders : Held(g) = Held(h) => g = h
  PROVE  Cardinality(Temporaries) = Cardinality(Holders)
<1>1. IsFiniteSet(Holders)
  <2>1. Len(calls) \in Nat /\ MaxArgs + 5 \in Nat
    BY RInvIs, LenProperties, RegisterAssumption
  <2>2. IsFiniteSet(1 .. Len(calls)) /\ IsFiniteSet(Slots)
    BY <2>1, FS_Interval DEF Slots
  <2>3. IsFiniteSet((1 .. Len(calls)) \X Slots)
    BY <2>2, FS_Product
  <2>4. Holders \subseteq (1 .. Len(calls)) \X Slots
    BY DEF Holders
  <2>. QED
    BY <2>3, <2>4, FS_Subset
<1> DEFINE f == [h \in Holders |-> Held(h)]
<1>2. f \in [Holders -> Temporaries]
  BY DEF Temporaries
<1>3. \A g, h \in Holders : f[g] = f[h] => g = h
  OBVIOUS
<1>4. \A r \in Temporaries : \E h \in Holders : f[h] = r
  BY DEF Temporaries
<1> HIDE DEF f
<1>5. ExistsBijection(Holders, Temporaries)
  <2>1. f \in Bijection(Holders, Temporaries)
    BY <1>2, <1>3, <1>4 DEF Bijection, Injection, Surjection, IsInjective
  <2>. QED
    BY <2>1 DEF ExistsBijection
<1>. QED
  BY <1>1, <1>5, FS_Bijection

LEMMA OneOwnerHolds ==
  ASSUME RInv, nextReg <= Bytes
  PROVE  OneOwner /\ FreeAreFree
<1> DEFINE n == Len(calls)
<1>1. /\ TemporariesFit(calls, n, locals, freeRegs, nextReg)
      /\ NamesFit(calls, n, locals, freeRegs, nextReg)
      /\ FreeFit(freeRegs, nextReg)
      /\ freeRegs \in Seq(Reg) /\ nextReg \in Nat
  BY RInvIs DEF Fits
<1>2. ASSUME NEW h \in Holders
      PROVE  /\ h = <<h[1], h[2]>> /\ h[1] \in 1 .. n /\ h[2] \in Slots
             /\ Held(h) = calls[h[1]].slot[h[2]] /\ Held(h) # NoReg
  BY DEF Holders, Held
<1>3. ASSUME NEW g \in Holders, NEW h \in Holders, Held(g) = Held(h)
      PROVE  g = h
  <2>1. g[1] = h[1] /\ g[2] = h[2]
    BY <1>1, <1>2, <1>3 DEF TemporariesFit
  <2>. QED
    BY <1>2, <2>1
<1>4. Cardinality(Temporaries) = Cardinality(Holders)
  BY <1>3, HoldersCounted
<1>5. ASSUME NEW r \in Temporaries
      PROVE  /\ \A x \in Names : ~Named(calls, n, locals, x, r)
             /\ \A k \in 1 .. Len(freeRegs) : freeRegs[k] # r
  <2>1. PICK h \in Holders : r = Held(h)
    BY DEF Temporaries
  <2>2. /\ h[1] \in 1 .. n /\ h[2] \in Slots
        /\ r = calls[h[1]].slot[h[2]] /\ r # NoReg
    BY <1>2, <2>1
  <2>. QED
    BY <1>1, <2>2 DEF TemporariesFit
<1>6. ASSUME NEW s \in Scopes, NEW t \in Scopes, NEW x \in Names, NEW y \in Names,
             s[x] = t[y], s[x] # NoReg
      PROVE  x = y
  <2> DEFINE r == s[x]
  <2>1. r \in Reg /\ Named(calls, n, locals, x, r) /\ Named(calls, n, locals, y, r)
    BY <1>6, LocalIsNamed
  <2> HIDE DEF r
  <2>. QED
    BY <1>1, <2>1 DEF NamesFit
<1>7. \A r \in LocalRegs : r \in Reg /\ \E x \in Names : Named(calls, n, locals, x, r)
  BY LocalIsNamed
<1>8. Temporaries \cap LocalRegs = {}
  BY <1>5, <1>7
<1>9. OneOwner
  BY <1>4, <1>6, <1>8 DEF OneOwner
<1>10. DOMAIN freeRegs = 1 .. Len(freeRegs) /\ \A k \in 1 .. Len(freeRegs) : freeRegs[k] \in Nat
  BY <1>1, LenProperties, ElementOfSeq, NoRegIs
<1>11. IsInjective(freeRegs)
  BY <1>1, <1>10 DEF FreeFit, IsInjective
<1>12. ASSUME NEW r \in Range(freeRegs)
       PROVE  r \in 0 .. nextReg - 1 /\ r \notin LocalRegs /\ r \notin Temporaries
  <2>1. PICK k \in 1 .. Len(freeRegs) : r = freeRegs[k]
    BY <1>10 DEF Range
  <2>2. r \in Nat /\ r < nextReg
    BY <1>1, <1>10, <2>1 DEF FreeFit
  <2>3. r \in 0 .. nextReg - 1
    BY <1>1, <2>2
  <2>4. r \notin LocalRegs
    BY <1>1, <1>7, <2>1 DEF NamesFit
  <2>. QED
    BY <1>5, <2>1, <2>3, <2>4
<1>13. FreeAreFree
  BY <1>11, <1>12 DEF FreeAreFree
<1>. QED
  BY <1>9, <1>13

\* While all registers fit into a byte, every one of them has one owner
\* (alloc, free and the blocks of registers that calls and arrays reserve,
\* compiler.go:262-302 and 1005-1040): two temporaries of constructs in
\* progress never share one, and none takes that of a local, also of one that
\* is only restored when a block or a bound name ends.
THEOREM RegistersHaveOneOwner == Spec => []NoSharing
<1>1. RInv => NoSharing
  BY OneOwnerHolds DEF NoSharing
<1>. QED
  BY <1>1, RInvAlways, PTL

\* What alloc takes from the free list belongs to nobody and is there once
\* (free and alloc, compiler.go:262-302).
THEOREM FreeListIsSound == Spec => []FreeAreFree
<1>1. RInv => FreeAreFree
  <2>1. ASSUME RInv, ~(nextReg <= Bytes) PROVE FreeAreFree
    BY <2>1 DEF FreeAreFree
  <2>. QED
    BY <2>1, OneOwnerHolds
<1>. QED
  BY <1>1, RInvAlways, PTL

=============================================================================
