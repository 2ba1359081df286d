-------------------------- MODULE RegisterAllocator --------------------------
(***************************************************************************)
(* How the compiler hands out the registers of one function                *)
(* (internal/compiler/compiler.go): alloc and free with their list of free *)
(* registers, the blocks of registers that a call or an array reserves,    *)
(* the scopes of locals, and the registers a closure's captures pass       *)
(* through.                                                                *)
(*                                                                         *)
(* A function that compiles a construct is the sequence of the things it   *)
(* does to registers, in its order: allocate, compile a subexpression into *)
(* a register, compile a block, free.  Which construct comes next is       *)
(* chosen each time, so the model stands for every source text.            *)
(***************************************************************************)
EXTENDS Naturals, Sequences, FiniteSets, SequencesExt

CONSTANTS
  Names,        \* names of locals
  Params,       \* those of them that are parameters of the function
  RegLimit,     \* 254: alloc refuses to go beyond
  Bytes,        \* 256: a register number is a byte
  MaxArgs,      \* arguments of a call
  MaxCaptures,  \* captures of a closure
  MaxDepth,     \* statements and blocks nested in each other
  MaxExpr,      \* the same with the expressions in them
  MaxNext       \* bound on nextReg, which the code does not bound

ASSUME RegisterAssumption ==
  /\ IsFiniteSet(Names) /\ Params \subseteq Names
  /\ RegLimit \in Nat /\ Bytes \in Nat /\ RegLimit < Bytes
  /\ MaxArgs \in Nat /\ MaxCaptures \in Nat /\ MaxDepth \in Nat /\ MaxExpr \in Nat
  /\ MaxNext \in Nat
  /\ Bytes \notin Names

VARIABLES
  locals,    \* fc.locals: the register of each name, or NoReg
  nextReg,
  freeRegs,
  calls,     \* the compile functions in progress, innermost last
  failed     \* fc.parent.errors is not empty

vars == <<locals, nextReg, freeRegs, calls, failed>>

Reg == 0 .. Bytes - 1
NoReg == Bytes
Scope == [Names -> Reg \cup {NoReg}]

\* What a compile function does, with the variables of its own that it does
\* it to; Dest is the register it was told to leave its result in.
Slots == 1 .. MaxArgs + 5
Dest == 0
Kind == {"alloc", "free", "reserve", "pair", "expr", "func", "place",
         "let", "bind", "unbind", "block"}
Todo == [do : Kind, at : Seq(Nat)]

Alloc(at) == [do |-> "alloc", at |-> at]
Free(at) == [do |-> "free", at |-> at]
Compile(i) == [do |-> "expr", at |-> <<i>>]
Bind(i) == [do |-> "bind", at |-> <<i>>]
Unbind(i) == [do |-> "unbind", at |-> <<i>>]
Block == [do |-> "block", at |-> <<>>]
UpTo(n) == [i \in 1 .. n |-> i]

-----------------------------------------------------------------------------
(* Expressions.                                                            *)

\* compileUnary, and a field read.
UnaryExpr == <<Alloc(<<1>>), Compile(1), Free(<<1>>)>>

BinaryExpr == <<Alloc(<<1, 2>>), Compile(1), Compile(2), Free(<<1, 2>>)>>

\* && and || leave both operands in the destination.
ShortCircuit == <<Compile(Dest), Compile(Dest)>>

TernaryExpr ==
  <<Alloc(<<1>>), Compile(1), Free(<<1>>), Compile(Dest), Compile(Dest)>>

IndexExpr ==
  <<Alloc(<<1>>), Compile(1), Alloc(<<2>>), Compile(2), Free(<<1, 2>>)>>

\* Beyond 255 constants the name of a field needs a register.
FieldExpr == <<Alloc(<<1>>), Compile(1), Alloc(<<2>>), Free(<<2, 1>>)>>

\* Two elements.
ArrayExpr ==
  <<Alloc(<<1, 2>>), [do |-> "pair", at |-> <<1, 2>>],
    Compile(1), Compile(2), Free(<<1, 2>>)>>

\* One entry with a computed key; more entries repeat it.
MapExpr ==
  <<Alloc(<<1>>), Compile(1), Alloc(<<2>>), Compile(2), Free(<<1, 2>>)>>

CallExpr(n) ==
  <<[do |-> "reserve", at |-> UpTo(n + 1)]>>
    \o [i \in 1 .. n + 1 |-> Compile(i)] \o <<Free(UpTo(n + 1))>>

FuncExpr == <<[do |-> "func", at |-> <<>>]>>

Expressions ==
  {UnaryExpr, BinaryExpr, ShortCircuit, TernaryExpr, IndexExpr, FieldExpr,
   ArrayExpr, MapExpr, FuncExpr} \cup {CallExpr(n) : n \in 0 .. MaxArgs}

-----------------------------------------------------------------------------
(* Statements.                                                             *)

LetStmt == <<Alloc(<<1>>), Compile(1), [do |-> "let", at |-> <<1>>]>>

\* An expression, return, throw; an assignment to a global or a capture; a
\* let at file level.
ExprStmt == <<Alloc(<<1>>), Compile(1), Free(<<1>>)>>

AssignLocal == <<Compile(Dest)>>

AssignIndex ==
  <<Alloc(<<1>>), Compile(1), Alloc(<<2>>), Compile(2), Alloc(<<3>>), Compile(3),
    Free(<<1, 2, 3>>)>>

AssignField ==
  <<Alloc(<<1>>), Compile(1), Alloc(<<2>>), Compile(2), Alloc(<<3>>),
    Free(<<3, 1, 2>>)>>

\* Mistake: the condition is freed once more after the branches.
IfStmtFreesTwice(n) ==
  <<Alloc(<<1>>), Compile(1), Free(<<1>>)>> \o [i \in 1 .. n |-> Block] \o <<Free(<<1>>)>>

\* With one branch or two; while is like the first, and a chain of else if
\* like ifs after each other.
IfStmt(n) == <<Alloc(<<1>>), Compile(1), Free(<<1>>)>> \o [i \in 1 .. n |-> Block]

\* it; typeReg, mapLit, eq and keysReg, which are gone before iReg, nReg and
\* elem come; one and cmp have come and gone where elem is.
ForInStmt ==
  <<Alloc(<<1>>), Compile(1), Alloc(<<2, 3, 4, 5>>), Free(<<5, 2, 3, 4>>),
    Alloc(<<2, 3, 4>>), Bind(4), Block, Unbind(4), Free(<<4, 1, 2, 3>>)>>

\* One case with one value, and a default.
SwitchStmt ==
  <<Alloc(<<1>>), Compile(1), Alloc(<<2, 3>>), Compile(3), Alloc(<<4>>),
    Free(<<3, 4, 2>>), Block, Block, Free(<<1>>)>>

TryStmt == <<Alloc(<<1>>), Block, Bind(1), Block, Unbind(1), Free(<<1>>)>>

Statements ==
  {LetStmt, ExprStmt, AssignIndex, AssignField, IfStmt(1), IfStmt(2),
   ForInStmt, SwitchStmt, TryStmt, <<Block>>}

-----------------------------------------------------------------------------
(* The compile functions in progress.                                      *)

\* One of them: what is left to do, the registers its variables hold, where
\* its result goes; for a block, the scope and nextReg it began with, for a
\* name that it binds, the scope without it.
Call ==
  [todo : Seq(Todo), slot : [Slots -> Reg \cup {NoReg}], dest : Reg \cup {NoReg},
   block : BOOLEAN, name : Names \cup {NoReg}, scope : Scope, next : Nat]

Begin(todo, dest) ==
  [todo |-> todo, slot |-> [i \in Slots |-> NoReg], dest |-> dest,
   block |-> FALSE, name |-> NoReg,
   scope |-> [x \in Names |-> NoReg], next |-> 0]

BeginBlock(scope, next) ==
  [Begin(<<>>, NoReg) EXCEPT !.block = TRUE, !.scope = scope, !.next = next]

Top == Last(calls)
Doing(what) == ~failed /\ calls # <<>> /\ Top.todo # <<>> /\ Head(Top.todo).do = what
At == Head(Top.todo).at
Register(i) == IF i = Dest THEN Top.dest ELSE Top.slot[i]

\* The innermost function goes on as c, and returns when it has nothing to do.
Becomes(c) == IF c.todo = <<>> THEN Front(calls) ELSE Append(Front(calls), c)

\* It has done its first thing, and its variables are slot now.
GoOn(slot) == calls' = Becomes([Top EXCEPT !.todo = Tail(@), !.slot = slot])

\* It calls another function for it.
GoOnAfter(call) == calls' = Append(Becomes([Top EXCEPT !.todo = Tail(@)]), call)

\* The variables at get the registers regs.
Assigned(at, regs) ==
  [i \in Slots |-> IF \E j \in DOMAIN at : at[j] = i
                   THEN regs[CHOOSE j \in DOMAIN at : at[j] = i] ELSE Top.slot[i]]

NextIs(n) == n <= MaxNext /\ nextReg' = n

-----------------------------------------------------------------------------
(* alloc and free.                                                         *)

\* What n calls of alloc return: the free registers, the one freed last
\* first, then those from nextReg on.
Nth(j) == IF j <= Len(freeRegs) THEN freeRegs[Len(freeRegs) - j + 1]
          ELSE nextReg + j - Len(freeRegs) - 1
Kept(n) == IF n < Len(freeRegs) THEN SubSeq(freeRegs, 1, Len(freeRegs) - n) ELSE <<>>
Bumped(n) == IF n > Len(freeRegs) THEN nextReg + n - Len(freeRegs) ELSE nextReg
Exhausted(n) == n > Len(freeRegs) /\ Bumped(n) > RegLimit

AllocRegs ==
  /\ Doing("alloc") /\ ~Exhausted(Len(At))
  /\ GoOn(Assigned(At, [j \in DOMAIN At |-> Nth(j)]))
  /\ freeRegs' = Kept(Len(At))
  /\ NextIs(Bumped(Len(At)))
  /\ UNCHANGED <<locals, failed>>

\* "too many registers": the result of the compilation is an error, whatever
\* it does from here on.
TooManyRegisters ==
  /\ Doing("alloc") /\ Exhausted(Len(At))
  /\ failed' = TRUE
  /\ UNCHANGED <<locals, nextReg, freeRegs, calls>>

\* free, of one register after the other: it refuses that of a local.
Freed(regs) ==
  LET list[j \in 0 .. Len(regs)] ==
        IF j = 0 THEN freeRegs
        ELSE IF \E x \in Names : locals[x] = regs[j] THEN list[j - 1]
        ELSE Append(list[j - 1], regs[j])
  IN list[Len(regs)]

FreeRegs ==
  /\ Doing("free")
  /\ freeRegs' = Freed([j \in DOMAIN At |-> Register(At[j])])
  /\ GoOn(Assigned(At, [j \in DOMAIN At |-> NoReg]))
  /\ UNCHANGED <<locals, nextReg, failed>>

\* Mistake: there is no room for the function itself.
ReserveOneLess ==
  /\ Doing("reserve")
  /\ GoOn(Assigned(At, [j \in DOMAIN At |-> (nextReg + j - 1) % Bytes]))
  /\ NextIs(nextReg + Len(At) - 1)
  /\ UNCHANGED <<locals, freeRegs, failed>>

\* compileCall takes the registers from nextReg on; their numbers are cut to
\* a byte and nothing looks at the limit.
ReserveRegs ==
  /\ Doing("reserve")
  /\ GoOn(Assigned(At, [j \in DOMAIN At |-> (nextReg + j - 1) % Bytes]))
  /\ NextIs(nextReg + Len(At))
  /\ UNCHANGED <<locals, freeRegs, failed>>

\* An array wants its registers side by side.  When the second is not next to
\* the first, the first is freed, the second forgotten, and two are taken
\* from nextReg on.
PairRegs ==
  /\ Doing("pair")
  /\ \/ /\ Top.slot[2] = Top.slot[1] + 1
        /\ GoOn(Top.slot)
        /\ UNCHANGED <<freeRegs, nextReg>>
     \/ /\ Top.slot[2] # Top.slot[1] + 1
        /\ GoOn(Assigned(At, [j \in DOMAIN At |-> (nextReg + j - 1) % Bytes]))
        /\ freeRegs' = Append(freeRegs, Top.slot[1])
        /\ NextIs(nextReg + Len(At))
  /\ UNCHANGED <<locals, failed>>

-----------------------------------------------------------------------------
(* Subexpressions, closures, locals, blocks.                               *)

\* A literal, a local, a capture or a global needs no register besides the
\* destination; any other expression has a function of its own.
CompileExpr ==
  /\ Doing("expr")
  /\ \/ GoOn(Top.slot)
     \/ /\ Len(calls) < MaxExpr
        /\ \E todo \in Expressions : GoOnAfter(Begin(todo, Register(Head(At))))
  /\ UNCHANGED <<locals, nextReg, freeRegs, failed>>

\* The scopes that the code still needs: the current one and those that
\* blocks and bound names will restore.
Scopes == {locals} \cup {calls[c].scope : c \in 1 .. Len(calls)}
LocalRegs == (UNION {{s[x] : x \in Names} : s \in Scopes}) \ {NoReg}

\* compileFuncExpr compiles the nested function first and learns what it
\* captures: locals of this one, or captures of this one (NoReg).
CompileFunc ==
  /\ Doing("func")
  /\ \E n \in 0 .. MaxCaptures :
       \E captures \in [1 .. n -> {locals[x] : x \in Names} \cup {NoReg}] :
         /\ \A i, j \in 1 .. n : captures[i] = captures[j] => i = j \/ captures[i] = NoReg
         /\ calls' = Append(Front(calls),
                       [Top EXCEPT !.todo = <<[do |-> "place", at |-> captures]>>])
  /\ UNCHANGED <<locals, nextReg, freeRegs, failed>>

\* Then it moves the captures to the registers behind the destination, without
\* asking alloc for them.
PlaceCaptures ==
  /\ Doing("place")
  /\ GoOn(Top.slot)
  /\ NextIs(IF At # <<>> /\ nextReg < Top.dest + 1 + Len(At)
            THEN Top.dest + 1 + Len(At) ELSE nextReg)
  /\ UNCHANGED <<locals, freeRegs, failed>>

\* let: the register belongs to the local from now on.
BindLet ==
  /\ Doing("let")
  /\ \E x \in Names : locals' = [locals EXCEPT ![x] = Top.slot[Head(At)]]
  /\ GoOn([Top.slot EXCEPT ![Head(At)] = NoReg])
  /\ UNCHANGED <<nextReg, freeRegs, failed>>

\* The variable of a for or a catch names a register of the statement ...
BindName ==
  /\ Doing("bind")
  /\ \E x \in Names :
       /\ locals' = [locals EXCEPT ![x] = Top.slot[Head(At)]]
       /\ calls' = Append(Front(calls),
                     [Top EXCEPT !.todo = Tail(@), !.slot[Head(At)] = NoReg,
                                 !.name = x, !.scope = locals])
  /\ UNCHANGED <<nextReg, freeRegs, failed>>

\* ... and what the name meant before is restored.
UnbindName ==
  /\ Doing("unbind")
  /\ locals' = [locals EXCEPT ![Top.name] = Top.scope[Top.name]]
  /\ calls' = Append(Front(calls),
                [Top EXCEPT !.todo = Tail(@), !.slot[Head(At)] = locals[Top.name],
                            !.name = NoReg, !.scope = [x \in Names |-> NoReg]])
  /\ UNCHANGED <<nextReg, freeRegs, failed>>

OpenBlock ==
  /\ Doing("block") /\ Len(calls) < MaxDepth
  /\ GoOnAfter(BeginBlock(locals, nextReg))
  /\ UNCHANGED <<locals, nextReg, freeRegs, failed>>

\* The next statement of the block.
Statement ==
  /\ ~failed /\ calls # <<>> /\ Top.block /\ Len(calls) < MaxDepth
  /\ \/ \E todo \in Statements : calls' = Append(calls, Begin(todo, NoReg))
     \/ \E x \in Names :
          /\ locals[x] # NoReg
          /\ calls' = Append(calls, Begin(AssignLocal, locals[x]))
  /\ UNCHANGED <<locals, nextReg, freeRegs, failed>>

\* Mistake: what the block has freed stays on the list.
CloseBlockKeepsFree ==
  /\ ~failed /\ calls # <<>> /\ Top.block
  /\ locals' = Top.scope
  /\ nextReg' = Top.next
  /\ calls' = Front(calls)
  /\ UNCHANGED <<freeRegs, failed>>

\* Scope and nextReg are those before the block, the list of free registers
\* is emptied.
CloseBlock ==
  /\ ~failed /\ calls # <<>> /\ Top.block
  /\ locals' = Top.scope
  /\ nextReg' = Top.next
  /\ freeRegs' = <<>>
  /\ calls' = Front(calls)
  /\ UNCHANGED failed

-----------------------------------------------------------------------------
\* newFuncCompiler: the parameters, of different names, are the first locals.
Init ==
  /\ \E ix \in [Params -> 0 .. Cardinality(Params) - 1] :
       /\ IsInjective(ix)
       /\ locals = [x \in Names |-> IF x \in Params THEN ix[x] % Bytes ELSE NoReg]
  /\ nextReg = Cardinality(Params)
  /\ freeRegs = <<>>
  /\ calls = <<BeginBlock(locals, nextReg)>>
  /\ failed = FALSE

Next ==
  \/ AllocRegs \/ TooManyRegisters \/ FreeRegs \/ ReserveRegs \/ PairRegs
  \/ CompileExpr \/ CompileFunc \/ PlaceCaptures \/ BindLet \/ BindName \/ UnbindName
  \/ OpenBlock \/ Statement \/ CloseBlock

Spec == Init /\ [][Next]_vars
-----------------------------------------------------------------------------
(* Properties.                                                             *)

\* The variables have their types.
TypeOK ==
  /\ locals \in Scope
  /\ nextReg \in Nat
  /\ freeRegs \in Seq(Reg)
  /\ calls \in Seq(Call)
  /\ failed \in BOOLEAN

\* The variables of compile functions in progress that hold a register.
Holders == {h \in (1 .. Len(calls)) \X Slots : calls[h[1]].slot[h[2]] # NoReg}
Held(h) == calls[h[1]].slot[h[2]]
Temporaries == {Held(h) : h \in Holders}

OneOwner ==
  LET scopes == Scopes
      temporaries == Temporaries
  IN /\ Cardinality(temporaries) = Cardinality(Holders)
     /\ temporaries \cap LocalRegs = {}
     /\ \A s, t \in scopes : \A x, y \in Names :
          s[x] = t[y] /\ s[x] # NoReg => x = y

\* While all registers fit into a byte, each has one owner: a temporary of a
\* construct being compiled, or a local (of this scope or of one that will be
\* restored), and no two of these share a register.
NoSharing == nextReg <= Bytes => OneOwner

\* The free list holds each register once, and only registers below nextReg
\* that neither a temporary nor a local owns.
FreeAreFree ==
  nextReg <= Bytes =>
    /\ IsInjective(freeRegs)
    /\ Range(freeRegs) \subseteq 0 .. nextReg - 1
    /\ Range(freeRegs) \cap (LocalRegs \cup Temporaries) = {}

\* "Ensure dest and following nup regs are available" (compiler.go:831): the
\* registers that the captures of a closure are moved to belong to no local,
\* unless it is the captured one.
CapturesHaveRoom ==
  Doing("place") =>
    \A i \in DOMAIN At : Top.dest + i \in LocalRegs => At[i] = Top.dest + i

\* "OpABC/AsBx use 8-bit A; keep headroom under 255" (compiler.go:274): what
\* NoSharing says holds for every function, or its compilation fails.
RegistersFit == ~failed => OneOwner
=============================================================================
