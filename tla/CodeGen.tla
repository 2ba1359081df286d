------------------------------ MODULE CodeGen ------------------------------
(***************************************************************************)
(* The code that the compiler emits for a function body                    *)
(* (internal/compiler/compiler.go) and the machine that runs it            *)
(* (internal/vm/vm.go): registers, jumps, handlers.  Calls and closures    *)
(* are left out (GlvmFrames, RegisterAllocator).  What the body means is   *)
(* in Language.                                                            *)
(*                                                                         *)
(* A funcCompiler is a record that each compile operator takes and         *)
(* returns.  Instruction addresses start at 0, as in the code.             *)
(***************************************************************************)
EXTENDS Language, Obfuscator

CONSTANTS
  Bodies,  \* the function bodies that are compiled and run
  Packed,  \* those of them that are also packed
  Plans,   \* what the packer puts between instructions: see Obfuscator
  Fuel     \* bound on the rounds of while loops in what a body means

VARIABLES
  body,    \* the function that runs
  packed,  \* its code has been obfuscated
  code,    \* proto.Code
  ip,
  regs,
  trys,    \* tryStack of the frame
  globals,
  result,  \* how the function ended
  meant    \* history: how its body ends by its meaning

vars == <<body, packed, code, ip, regs, trys, globals, result, meant>>
program == <<body, packed, code, meant>>

NoResult == [how |-> "running", v |-> NullV]

-----------------------------------------------------------------------------
(* The funcCompiler.                                                       *)

\* open: the addresses of the jumps forward that are not patched yet, which
\* the code keeps in local variables.
Compiler0 == [code |-> <<>>, locals |-> EmptyScope, next |-> 0, free |-> <<>>,
              loops |-> <<>>, open |-> <<>>, errors |-> 0]

Here(fc) == Len(fc.code)
Emit(fc, op, a, b, c) ==
  [fc EXCEPT !.code = Append(@, [op |-> op, a |-> a, b |-> b, c |-> c])]

Instruction(i) == [op |-> i[1], a |-> i[2], b |-> i[3], c |-> i[4]]
EmitAll(fc, is) == [fc EXCEPT !.code = @ \o [k \in DOMAIN is |-> Instruction(is[k])]]

\* patchSbx: the jumps at the addresses js go to address to.
PatchAll(fc, js, to) ==
  [fc EXCEPT !.code = [k \in DOMAIN @ |->
     IF k - 1 \in ToSet(js) THEN [@[k] EXCEPT !.b = to - k] ELSE @[k]]]

Open(fc, op, r) == [Emit(fc, op, r, 0, 0) EXCEPT !.open = Append(@, Here(fc))]
\* All open jumps but the first n lead here.
Land(fc, n) ==
  [PatchAll(fc, SubSeq(fc.open, n + 1, Len(fc.open)), Here(fc)) EXCEPT
     !.open = SubSeq(@, 1, n)]
Landed(fc) == Land(fc, Len(fc.open) - 1)
\* What has been compiled jumps over what comes, where the newest open jump leads.
Otherwise(fc) == [Landed(Emit(fc, "JMP", 0, 0, 0)) EXCEPT !.open = Append(@, Here(fc))]
JumpBack(fc, to) == Emit(fc, "JMP", 0, to - (Here(fc) + 1), 0)

\* alloc, n times: the registers it returns, and the compiler after it.
Regs(fc, n) ==
  LET k == Len(fc.free)
  IN [i \in 1 .. n |-> IF i <= k THEN fc.free[k + 1 - i] ELSE fc.next + i - k - 1]
TakenAll(fc, n) ==
  LET k == IF n < Len(fc.free) THEN n ELSE Len(fc.free)
  IN [fc EXCEPT !.free = SubSeq(@, 1, Len(@) - k), !.next = @ + n - k]
Reg(fc) == Regs(fc, 1)[1]
Taken(fc) == TakenAll(fc, 1)

\* free leaves the registers of locals alone.
FreedAll(fc, rs) ==
  [fc EXCEPT !.free = @ \o SelectSeq(rs, LAMBDA r : \A x \in DOMAIN fc.locals : fc.locals[x] # r)]
Freed(fc, r) == FreedAll(fc, <<r>>)

BindName(fc, x, r) == [fc EXCEPT !.locals = Bound(@, x, r)]
\* What for and catch do with the name after their block.
RestoreName(fc, x, before) == [fc EXCEPT !.locals = before]

\* A register is taken for each of the n elements of an array; if they do not
\* lie side by side, those taken are given back and a row of new ones is used.
RECURSIVE TakeRow(_, _, _)
TakeRow(fc, n, rs) ==
  IF Len(rs) = n THEN [fc |-> fc, rs |-> rs]
  ELSE IF Reg(fc) = rs[1] + Len(rs) THEN TakeRow(Taken(fc), n, Append(rs, Reg(fc)))
  ELSE LET f == FreedAll(Taken(fc), rs)
       IN [fc |-> [f EXCEPT !.next = @ + n], rs |-> [i \in 1 .. n |-> f.next + i - 1]]

-----------------------------------------------------------------------------
(* compileExpr, into register d.                                           *)

RECURSIVE CompileExpr(_, _, _), CompileAll(_, _, _), CompileEntries(_, _, _, _)

CompileAll(fc, es, rs) ==
  IF es = <<>> THEN fc
  ELSE CompileAll(CompileExpr(fc, Head(es), Head(rs)), Tail(es), Tail(rs))

CompileIdent(fc, x, d) ==
  CASE x \notin DOMAIN fc.locals -> Emit(fc, "LOADG", d, x, 0)
    [] x \in DOMAIN fc.locals /\ fc.locals[x] # d -> Emit(fc, "MOVE", d, fc.locals[x], 0)
    [] OTHER -> fc

CompileUnary(fc, op, e, d) ==
  LET t == Reg(fc)
      f == CompileExpr(Taken(fc), e, t)
  IN Freed(Emit(f, op, d, t, 0), t)

CompileBinary(fc, op, e1, e2, d) ==
  LET l == Reg(fc)
      r == Reg(Taken(fc))
      f == CompileAll(Taken(Taken(fc)), <<e1, e2>>, <<l, r>>)
  IN FreedAll(Emit(f, op, d, l, r), <<l, r>>)

\* Mistake: the jump over the right operand leads one instruction too far.
ShortCircuitTooFar(fc, jump, e1, e2, d) ==
  LET f == CompileExpr(Open(CompileExpr(fc, e1, d), jump, d), e2, d)
  IN [Landed(f) EXCEPT !.code[Last(f.open) + 1].b = @ + 1]

\* && and || work in the destination itself.
CompileShortCircuit(fc, jump, e1, e2, d) ==
  Landed(CompileExpr(Open(CompileExpr(fc, e1, d), jump, d), e2, d))

\* a[i]: the object's register is taken before the index's.
CompileIndex(fc, e1, e2, d) ==
  LET o == Reg(fc)
      f1 == CompileExpr(Taken(fc), e1, o)
      i == Reg(f1)
      f2 == CompileExpr(Taken(f1), e2, i)
  IN FreedAll(Emit(f2, "GETI", d, o, i), <<o, i>>)

\* The jump is taken when the condition in its register does not hold.
CompileCondition(fc, e) ==
  LET c == Reg(fc) IN Freed(Open(CompileExpr(Taken(fc), e, c), "JF", c), c)

CompileTernary(fc, e, d) ==
  Landed(CompileExpr(Otherwise(CompileExpr(CompileCondition(fc, e[2]), e[3], d)), e[4], d))

CompileArray(fc, es, d) ==
  IF es = <<>> THEN Emit(fc, "NEWARR", d, 0, 0)
  ELSE LET row == TakeRow(Taken(fc), Len(es), <<Reg(fc)>>)
           f == CompileAll(row.fc, es, row.rs)
       IN FreedAll(Emit(f, "NEWARR", d, row.rs[1], Len(es)), row.rs)

\* The map is made in the destination before its values are computed.
CompileEntries(fc, ks, es, d) ==
  IF ks = <<>> THEN fc
  ELSE LET v == Reg(fc)
           f == Emit(CompileExpr(Taken(fc), Head(es), v), "SETK", d, Head(ks), v)
       IN CompileEntries(Freed(f, v), Tail(ks), Tail(es), d)

CompileMap(fc, ks, es, d) == CompileEntries(Emit(fc, "NEWMAP", d, 0, 0), ks, es, d)

CompileExpr(fc, e, d) ==
  CASE e[1] = "lit" -> Emit(fc, "LOADK", d, e[2], 0)
    [] e[1] = "id" -> CompileIdent(fc, e[2], d)
    [] e[1] = "un" -> CompileUnary(fc, e[2], e[3], d)
    [] e[1] = "bin" /\ e[2] = "GETI" -> CompileIndex(fc, e[3], e[4], d)
    [] e[1] = "bin" /\ e[2] # "GETI" -> CompileBinary(fc, e[2], e[3], e[4], d)
    [] e[1] = "and" -> CompileShortCircuit(fc, "JF", e[2], e[3], d)
    [] e[1] = "or" -> CompileShortCircuit(fc, "JT", e[2], e[3], d)
    [] e[1] = "cond" -> CompileTernary(fc, e, d)
    [] e[1] = "arr" -> CompileArray(fc, e[2], d)
    [] e[1] = "map" -> CompileMap(fc, e[2], e[3], d)

-----------------------------------------------------------------------------
(* compileStmt.                                                            *)

RECURSIVE CompileStmt(_, _), CompileStmts(_, _)

CompileStmts(fc, b) ==
  IF b = <<>> THEN fc ELSE CompileStmts(CompileStmt(fc, Head(b)), Tail(b))

CompileBlock(fc, b) ==
  [CompileStmts(fc, b) EXCEPT !.locals = fc.locals, !.next = fc.next, !.free = <<>>]

\* An expression, and one instruction that takes its register.
Consume(fc, e, op) ==
  LET r == Reg(fc)
  IN Freed(Emit(CompileExpr(Taken(fc), e, r), op, r, 0, 0), r)

CompileLet(fc, x, e) == BindName(CompileExpr(Taken(fc), e, Reg(fc)), x, Reg(fc))

\* A local is computed in its own register.
CompileAssign(fc, x, e) ==
  IF x \in DOMAIN fc.locals THEN CompileExpr(fc, e, fc.locals[x])
  ELSE LET r == Reg(fc)
       IN Freed(Emit(CompileExpr(Taken(fc), e, r), "STOREG", r, x, 0), r)

CompileIf(fc, s) ==
  LET f == CompileBlock(CompileCondition(fc, s[2]), s[3])
  IN Landed(IF s[4] = <<>> THEN f ELSE CompileBlock(Otherwise(f), s[4]))

PushLoop(fc, to) == [fc EXCEPT !.loops = Append(@, [breaks |-> <<>>, target |-> to])]

PopLoop(fc) == [PatchAll(fc, Last(fc.loops).breaks, Here(fc)) EXCEPT !.loops = Front(@)]

CompileWhile(fc, s) ==
  LET f == CompileCondition(PushLoop(fc, Here(fc)), s[2])
  IN PopLoop(Landed(JumpBack(CompileBlock(f, s[3]), Here(fc))))

CompileBreak(fc) ==
  IF fc.loops = <<>> THEN [fc EXCEPT !.errors = @ + 1]
  ELSE Emit([fc EXCEPT !.loops[Len(fc.loops)].breaks = Append(@, Here(fc))], "JMP", 0, 0, 0)

\* Mistake: continue leaves out the two instructions that go to the next element.
ContinueSkipsAdvance(fc) ==
  IF fc.loops = <<>> THEN [fc EXCEPT !.errors = @ + 1]
  ELSE JumpBack(fc, Last(fc.loops).target + 2)

CompileContinue(fc) ==
  IF fc.loops = <<>> THEN [fc EXCEPT !.errors = @ + 1]
  ELSE JumpBack(fc, Last(fc.loops).target)

\* Three registers tell whether it is a map, a fourth takes its keys.
KeysOfMap(fc, it) ==
  LET r == Regs(fc, 4)
  IN FreedAll(
       EmitAll(TakenAll(fc, 4),
         <<<<"TYPEOF", r[1], it, 0>>, <<"LOADK", r[2], StrV(<<<<"map">>>>), 0>>,
           <<"EQ", r[3], r[1], r[2]>>, <<"JF", r[3], 2, 0>>,
           <<"KEYS", r[4], it, 0>>, <<"MOVE", it, r[4], 0>>>>),
       <<r[4], r[1], r[2], r[3]>>)

\* i = i + 1, the jump out at the end of it, and the name x = it[i]: the
\* registers of 1 and of the condition are free again when x takes its own.
ForHead(fc, x, it, i, n) ==
  Emit(Open(EmitAll(Taken(fc), <<<<"LOADK", x, IntV(1), 0>>, <<"ADD", i, i, x>>,
                                 <<"LT", x, i, n>>>>), "JF", x), "GETI", x, it, i)

ForRounds(fc, s, it, i, n) ==
  LET x == Reg(fc)
      f == CompileBlock(BindName(ForHead(fc, x, it, i, n), s[2], x), s[4])
  IN PopLoop(Landed(JumpBack(Freed(RestoreName(f, s[2], fc.locals), x), Here(fc))))

\* it = expr, as keys if it is a map; i = -1; n = len(it); then the rounds.
CompileForIn(fc, s) ==
  LET it == Reg(fc)
      f == KeysOfMap(CompileExpr(Taken(fc), s[3], it), it)
      r == Regs(f, 2)
      g == EmitAll(TakenAll(f, 2), <<<<"LOADK", r[1], IntV(-1), 0>>, <<"LEN", r[2], it, 0>>>>)
  IN FreedAll(ForRounds(PushLoop(g, Here(g)), s, it, r[1], r[2]), <<it, r[1], r[2]>>)

\* For each value: match = match || tag == v.
RECURSIVE CompileMatches(_, _, _, _)
CompileMatches(fc, es, tag, match) ==
  IF es = <<>> THEN fc
  ELSE LET v == Reg(fc)
           f == CompileExpr(Taken(fc), Head(es), v)
           q == Reg(f)
           g == EmitAll(Taken(f), <<<<"EQ", q, tag, v>>, <<"JT", match, 1, 0>>,
                                    <<"MOVE", match, q, 0>>>>)
       IN CompileMatches(FreedAll(g, <<v, q>>), Tail(es), tag, match)

\* The case's block ends with a jump out of the switch, which stays open.
CompileCase(fc, case, tag) ==
  LET match == Reg(fc)
      f == CompileMatches(Emit(Taken(fc), "LOADK", match, BoolV(FALSE), 0), case[1], tag, match)
  IN Otherwise(CompileBlock(Freed(Open(f, "JF", match), match), case[2]))

RECURSIVE CompileCases(_, _, _)
CompileCases(fc, cases, tag) ==
  IF cases = <<>> THEN fc
  ELSE CompileCases(CompileCase(fc, Head(cases), tag), Tail(cases), tag)

CompileSwitch(fc, s) ==
  LET tag == Reg(fc)
      f == CompileCases(CompileExpr(Taken(fc), s[2], tag), s[3], tag)
      g == IF s[4] = <<>> THEN f ELSE CompileBlock(f, s[4])
  IN Freed(Land(g, Len(fc.open)), tag)

CompileTry(fc, s) ==
  LET e == Reg(fc)
      f == Otherwise(Emit(CompileBlock(Open(Taken(fc), "TRY", e), s[2]), "ENDTRY", 0, 0, 0))
  IN Freed(Landed(RestoreName(CompileBlock(BindName(f, s[3], e), s[4]), s[3], fc.locals)), e)

CompileStmt(fc, s) ==
  CASE s[1] = "let" -> CompileLet(fc, s[2], s[3])
    [] s[1] = "set" -> CompileAssign(fc, s[2], s[3])
    [] s[1] = "block" -> CompileBlock(fc, s[2])
    [] s[1] = "if" -> CompileIf(fc, s)
    [] s[1] = "while" -> CompileWhile(fc, s)
    [] s[1] = "for" -> CompileForIn(fc, s)
    [] s[1] = "switch" -> CompileSwitch(fc, s)
    [] s[1] = "try" -> CompileTry(fc, s)
    [] s[1] = "throw" -> Consume(fc, s[2], "THROW")
    [] s[1] = "return" -> Consume(fc, s[2], "RET")
    [] s[1] = "break" -> CompileBreak(fc)
    [] s[1] = "continue" -> CompileContinue(fc)

\* compileBlock and the final RETN.
CompileBody(b) == Emit(CompileBlock(Compiler0, b), "RETN", 0, 0, 0)
-----------------------------------------------------------------------------
(* The machine.                                                            *)

Compiled(bodies) ==
  {[of |-> b, fc |-> CompileBody(b), meant |-> Meaning(b, Fuel)] : b \in bodies}

\* Code is run when its compilation reported no error, as it is or packed.
Start(p, is) ==
  /\ p.fc.errors = 0
  /\ body = p.of /\ code = is /\ ip = 0 /\ meant = p.meant
  /\ regs = EmptyScope /\ trys = <<>> /\ globals = EmptyScope /\ result = NoResult
Init ==
  \/ packed = FALSE /\ \E p \in Compiled(Bodies) : Start(p, p.fc.code)
  \/ packed = TRUE /\ \E p \in Compiled(Packed), plan \in Plans :
                        Start(p, Expand(p.fc.code, plan))

Running == result = NoResult
Ins == code[ip + 1]
Is(ops) == Running /\ Ins.op \in ops

\* A frame has as many registers as its instructions name (ensureReg).
R(r) == IF r \in DOMAIN regs THEN regs[r] ELSE NullV

Advance == ip' = ip + 1
Put(r, v) == regs' = Bound(regs, r, v)

\* handleTry within the frame; without a handler the error ends the function.
Raise(message) ==
  IF trys = <<>>
  THEN /\ result' = [how |-> "throw", v |-> message]
       /\ UNCHANGED <<ip, regs, trys>>
  ELSE /\ trys' = Front(trys)
       /\ Put(Last(trys).reg, message) /\ ip' = Last(trys).catch
       /\ UNCHANGED result

\* The value of an instruction for its first register, or its error.
BinaryOps == {"ADD", "SUB", "MUL", "DIV", "MOD", "EQ", "NE", "GETI"} \cup Relational
UnaryOps == {"LNOT", "NEG", "LEN", "KEYS", "TYPEOF"}
Loads == {"MOVE", "LOADK", "LOADG", "NEWARR", "NEWMAP"}
Computed(i) ==
  CASE i.op \in BinaryOps -> Binary(i.op, R(i.b), R(i.c))
    [] i.op \in UnaryOps -> Unary(i.op, R(i.b))
    [] i.op = "MOVE" -> Ok(R(i.b))
    [] i.op = "LOADK" -> Ok(i.b)
    [] i.op = "LOADG" -> Ok(IF i.b \in DOMAIN globals THEN globals[i.b] ELSE NullV)
    [] i.op = "NEWARR" -> Ok(ArrV([j \in 1 .. i.c |-> R(i.b + j - 1)]))
    [] i.op = "NEWMAP" -> Ok(MapV(EmptyScope))

Compute ==
  /\ Is(BinaryOps \cup UnaryOps \cup Loads)
  /\ LET out == Computed(Ins)
     IN IF out.ok THEN Put(Ins.a, out.v) /\ Advance /\ UNCHANGED <<trys, result>>
        ELSE Raise(out.v)
  /\ UNCHANGED <<program, globals>>

SetK ==
  /\ Is({"SETK"})
  /\ IF Typ(R(Ins.a)) = "map"
     THEN Put(Ins.a, SetKey(R(Ins.a), Ins.b, R(Ins.c))) /\ Advance /\ UNCHANGED <<trys, result>>
     ELSE Raise(TypeError.v)
  /\ UNCHANGED <<program, globals>>

StoreG ==
  /\ Is({"STOREG"})
  /\ globals' = Bound(globals, Ins.b, R(Ins.a)) /\ Advance
  /\ UNCHANGED <<program, regs, trys, result>>

Jumps == \/ Ins.op = "JMP"
         \/ Ins.op = "JT" /\ Truthy(R(Ins.a))
         \/ Ins.op = "JF" /\ ~Truthy(R(Ins.a))
Jump ==
  /\ Is({"JMP", "JT", "JF"})
  /\ ip' = IF Jumps THEN ip + 1 + Ins.b ELSE ip + 1
  /\ UNCHANGED <<program, regs, trys, globals, result>>

NoOp ==
  /\ Is({"NOP"})
  /\ Advance
  /\ UNCHANGED <<program, regs, trys, globals, result>>

Try ==
  /\ Is({"TRY"})
  /\ trys' = Append(trys, [catch |-> ip + 1 + Ins.b, reg |-> Ins.a]) /\ Advance
  /\ UNCHANGED <<program, regs, globals, result>>

EndTry ==
  /\ Is({"ENDTRY"})
  /\ trys' = IF trys = <<>> THEN trys ELSE Front(trys)
  /\ Advance
  /\ UNCHANGED <<program, regs, globals, result>>

Throw ==
  /\ Is({"THROW"})
  /\ Raise(StrV(AsStr(R(Ins.a))))
  /\ UNCHANGED <<program, globals>>

Return ==
  /\ Is({"RET", "RETN"})
  /\ result' = [how |-> "return", v |-> IF Ins.op = "RET" THEN R(Ins.a) ELSE NullV]
  /\ UNCHANGED <<program, ip, regs, trys, globals>>

Next ==
  Compute \/ SetK \/ StoreG \/ Jump \/ NoOp \/ Try \/ EndTry \/ Throw \/ Return

Spec == Init /\ [][Next]_vars /\ WF_vars(Next)
-----------------------------------------------------------------------------
(* Bodies whose code is known to differ from what they mean.               *)

Blocks(s) ==
  CASE s[1] \in {"block", "while"} -> <<Last(s)>>
    [] s[1] = "if" -> <<s[3], s[4]>>
    [] s[1] = "for" -> <<s[4]>>
    [] s[1] = "switch" -> Append([i \in DOMAIN s[3] |-> s[3][i][2]], s[4])
    [] s[1] = "try" -> <<s[2], s[4]>>
    [] OTHER -> <<>>

RECURSIVE Escapes(_), Inside(_), Reads(_, _), MayFail(_), Clobbers(_, _)

\* A break or continue of a loop around s.
Escapes(s) ==
  \/ s[1] \in {"break", "continue"}
  \/ s[1] \notin {"while", "for"} /\ \E t \in ToSet(FlattenSeq(Blocks(s))) : Escapes(t)

\* The statements in a block, at any depth.
Inside(b) == ToSet(b) \cup UNION {Inside(FlattenSeq(Blocks(s))) : s \in ToSet(b)}

HasTry(b) == \E s \in Inside(b) : s[1] = "try"
LeavesTry(b) == \E s \in Inside(b) : s[1] = "try" /\ \E t \in ToSet(s[2]) : Escapes(t)

\* The operands of an expression that are computed after its destination has
\* been written.
Late(e) ==
  CASE e[1] \in {"and", "or"} -> {e[3]}
    [] e[1] = "map" -> ToSet(e[3])
    [] OTHER -> {}
Operands(e) ==
  CASE e[1] \in {"bin"} -> {e[3], e[4]}
    [] e[1] = "un" -> {e[3]}
    [] e[1] \in {"and", "or"} -> {e[2], e[3]}
    [] e[1] = "cond" -> {e[2], e[3], e[4]}
    [] e[1] = "arr" -> ToSet(e[2])
    [] e[1] = "map" -> ToSet(e[3])
    [] OTHER -> {}
\* Those that are computed into the destination itself.
InPlace(e) ==
  CASE e[1] \in {"and", "or"} -> {e[2], e[3]}
    [] e[1] = "cond" -> {e[3], e[4]}
    [] OTHER -> {}

Reads(e, x) == e = <<"id", x>> \/ \E f \in Operands(e) : Reads(f, x)
MayFail(e) == e[1] = "bin" \/ \E f \in Operands(e) : MayFail(f)

Clobbers(e, x) ==
  \/ \E f \in Late(e) : Reads(f, x) \/ MayFail(f)
  \/ \E f \in InPlace(e) : Clobbers(f, x)

OverwritesTarget(b) ==
  \E s \in Inside(b) : s[1] = "set" /\ Clobbers(s[3], s[2])
-----------------------------------------------------------------------------
\* A function does what its text says, packed or not: the code of every body of
\* nested loops, switches, try blocks and expressions ends with the value or the
\* error of the body's meaning, with three exceptions: an assignment that
\* writes its target before it is read or the value is there, a break or
\* continue out of a try, which leaves the handler behind, and a try in packed code.
CodeMeansBody ==
  ~Running /\ ~LeavesTry(body) /\ ~OverwritesTarget(body) /\ ~(packed /\ HasTry(body))
    => result = meant

\* The comment on expandProto, which "inserts NOPs/junk and rewrites relative
\* jumps": packed code does what the code does, a try included.
PackedMeansBody ==
  ~Running /\ packed /\ ~LeavesTry(body) /\ ~OverwritesTarget(body) => result = meant

\* It does not run for ever when the body does not.
CodeEnds == <>(~Running \/ meant.how = "lost" \/ (packed /\ HasTry(body)))

\* The comment on handleTry, "routes an error to the nearest try handler": the
\* newest handler is that of a try whose body is being executed.
HandlerIsNearest ==
  Running /\ ~packed /\ trys # <<>> =>
    \E j \in 0 .. Len(code) - 1 :
      /\ code[j + 1].op = "TRY" /\ j + 1 + code[j + 1].b = Last(trys).catch
      /\ j < ip /\ ip < Last(trys).catch
=============================================================================
