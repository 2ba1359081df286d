------------------------------- MODULE Parser -------------------------------
(***************************************************************************)
(* internal/parser: the recursive descent from the tokens of a text to its *)
(* tree.  The state of the parser, p, is the tokens that are left, the     *)
(* number of errors, and the tree that the last operator returned.         *)
(*                                                                         *)
(* Trees (internal/ast) are tuples that start with their kind:             *)
(*   <<"id", x>> <<"int", n>> <<"float", n>> <<"str", atoms>> <<"key", k>> *)
(*   <<"un", op, e>> <<"bin", op, e, f>> <<"cond", c, e, f>>               *)
(*   <<"call", f, es>> <<"index", e, i>> <<"field", e, x>> <<"arr", es>>   *)
(*   <<"map", pairs>> <<"fn", params, b>>                                  *)
(*   <<"let", x, e>> <<"set", e, f>> <<"expr", e>> <<"block", b>>          *)
(*   <<"if", e, b, s>> <<"while", e, b>> <<"for", x, e, b>> <<"return", e>>*)
(*   <<"switch", e, cases, default>> <<"try", b, x, b>> <<"throw", e>>     *)
(*   <<"break">> <<"continue">>, where an absent part is <<>>.             *)
(***************************************************************************)
EXTENDS Lexer

Op(a) == Token("op", <<a>>)
Op2(a, b) == Token("op", <<a, b>>)
Key(k) == Token("key", <<k>>)
EOF == Token("eof", <<>>)

Parser0(ts) == [ts |-> ts, errs |-> 0, out |-> <<>>]
Cur(p) == IF p.ts = <<>> THEN EOF ELSE Head(p.ts)
PeekToken(p) == IF Len(p.ts) < 2 THEN EOF ELSE p.ts[2]
Skip(p) == [p EXCEPT !.ts = IF @ = <<>> THEN <<>> ELSE Tail(@)]
Out(p, tree) == [p EXCEPT !.out = tree]
Error(p) == [p EXCEPT !.errs = @ + 1]

\* expect leaves a wrong token where it is.
Expect(p, t) == IF Cur(p) = t THEN Skip(p) ELSE Error(p)
Match(p, t) == IF Cur(p) = t THEN Skip(p) ELSE p
ExpectName(p) ==
  IF Cur(p).kind = "id" THEN Skip(Out(p, Cur(p).lit)) ELSE Error(Out(p, Cur(p).lit))

\* What is done with a result.
Then(p, F(_)) == F(p)

\* Mistake: == and != bind tighter than < and >.
EqualityTighter(t) ==
  CASE t = Op2("|", "|") -> 1
    [] t = Op2("&", "&") -> 2
    [] t = Op("|") -> 3
    [] t = Op("^") -> 4
    [] t = Op("&") -> 5
    [] t \in {Op2("=", "="), Op2("!", "=")} -> 7
    [] t \in {Op("<"), Op2("<", "="), Op(">"), Op2(">", "=")} -> 6
    [] t \in {Op2("<", "<"), Op2(">", ">")} -> 8
    [] t \in {Op("+"), Op("-")} -> 9
    [] t \in {Op("*"), Op("/"), Op("%")} -> 10
    [] OTHER -> 0

precOf(t) ==
  CASE t = Op2("|", "|") -> 1
    [] t = Op2("&", "&") -> 2
    [] t = Op("|") -> 3
    [] t = Op("^") -> 4
    [] t = Op("&") -> 5
    [] t \in {Op2("=", "="), Op2("!", "=")} -> 6
    [] t \in {Op("<"), Op2("<", "="), Op(">"), Op2(">", "=")} -> 7
    [] t \in {Op2("<", "<"), Op2(">", ">")} -> 8
    [] t \in {Op("+"), Op("-")} -> 9
    [] t \in {Op("*"), Op("/"), Op("%")} -> 10
    [] OTHER -> 0

RECURSIVE ParseExpr(_), ParseBinary(_, _), BinaryRest(_, _), ParseUnary(_), PostfixRest(_)
RECURSIVE Items(_, _, _, _, _), ParseStmt(_), Stmts(_, _, _), ParamsFrom(_, _)
RECURSIVE Cases(_, _), CaseValues(_, _), Interpolated(_, _, _)
-----------------------------------------------------------------------------
(* Expressions.                                                            *)

\* Mistake: the part behind : ends at the next ternary.
ElseWithoutTernary(c) ==
  Then(ParseExpr(Skip(c)), LAMBDA t :
    Then(ParseBinary(Expect(t, Op(":")), 1), LAMBDA e :
      Out(e, <<"cond", c.out, t.out, e.out>>)))
Ternary(c) ==
  Then(ParseExpr(Skip(c)), LAMBDA t :
    Then(ParseExpr(Expect(t, Op(":"))), LAMBDA e :
      Out(e, <<"cond", c.out, t.out, e.out>>)))
ParseExpr(p) ==
  Then(ParseBinary(p, 1), LAMBDA c : IF Cur(c) = Op("?") THEN Ternary(c) ELSE c)

ParseBinary(p, minPrec) == BinaryRest(ParseUnary(p), minPrec)
BinaryRest(p, minPrec) ==
  IF precOf(Cur(p)) < minPrec THEN p
  ELSE Then(ParseBinary(Skip(p), precOf(Cur(p)) + 1), LAMBDA right :
         BinaryRest(Out(right, <<"bin", Cur(p).lit, p.out, right.out>>), minPrec))

\* An element of a list: an expression, or a key and a value of a map; a key
\* that is a name stands for its text.
MapKey(p) ==
  CASE Cur(p).kind = "id" -> Skip(Out(p, <<"str", Cur(p).lit>>))
    [] Cur(p).kind = "str" -> Skip(Out(p, <<"str", Cur(p).lit>>))
    [] OTHER -> ParseExpr(p)
Item(p, kind) ==
  IF kind = "map"
  THEN Then(MapKey(p), LAMBDA k :
         Then(ParseExpr(Expect(k, Op(":"))), LAMBDA v : Out(v, <<k.out, v.out>>)))
  ELSE ParseExpr(p)

\* strconv.ParseInt, of the digits or of those behind 0x.
ValueOf(digits, base) ==
  FoldLeft(LAMBDA n, a : (base * n) + Digit[a], 0, digits)
IntOf(lit) ==
  IF Len(lit) > 2 /\ lit[2] = "x" THEN ValueOf(From(lit, 2), 16) ELSE ValueOf(lit, 10)

\* Elements up to the closing token.  Arrays and maps may end in a comma.
Items(p, kind, close, done, first) ==
  IF Cur(p) = close /\ (first \/ kind # "call") THEN Expect(Out(p, done), close)
  ELSE Then(Item(p, kind), LAMBDA e :
         IF Cur(e) = Op(",") THEN Items(Skip(e), kind, close, Append(done, e.out), FALSE)
         ELSE Expect(Out(e, Append(done, e.out)), close))
List(p, kind, close) == Items(p, kind, close, <<>>, TRUE)

\* buildInterp: pieces of a string and expressions between ${ and }, added up.
\* The } is found by counting braces.
Plus(acc, e) == IF acc = <<>> THEN e ELSE <<"bin", <<"+">>, acc, e>>
WithText(acc, lit) == IF lit = <<>> THEN acc ELSE Plus(acc, <<"str", lit>>)
Opened(lit) ==
  {i \in 1 .. Len(lit) - 1 : lit[i] = "$" /\ lit[i + 1] = "{"}
Depth(lit, i, k) ==
  Cardinality({j \in i .. k : lit[j] = "{"}) - Cardinality({j \in i .. k : lit[j] = "}"})
\* Mistake: the first } ends the expression.
FirstBrace(lit, i) == {k \in i .. Len(lit) : lit[k] = "}"}
ClosedBraces(lit, i) == {k \in i .. Len(lit) : Depth(lit, i, k) = 0 /\ lit[k] = "}"}
Least(S) == CHOOSE i \in S : \A j \in S : i <= j

Piece(p, acc, lit, i, k) ==
  Then(ParseExpr(Parser0(Lex(SubSeq(lit, i + 2, k - 1)))), LAMBDA e :
    Interpolated(IF e.errs = 0 THEN p ELSE Error(p),
                 Plus(WithText(acc, SubSeq(lit, 1, i - 1)),
                      IF e.errs = 0 THEN e.out ELSE <<"str", <<>>>>),
                 From(lit, k)))
Interpolated(p, acc, lit) ==
  CASE Opened(lit) = {} ->
         Out(p, IF acc = <<>> /\ lit = <<>> THEN <<"str", <<>>>> ELSE WithText(acc, lit))
    [] Opened(lit) # {} /\ ClosedBraces(lit, Least(Opened(lit)) + 1) = {} ->
         Error(Out(p, WithText(acc, lit)))
    [] OTHER -> Piece(p, acc, lit, Least(Opened(lit)),
                      Least(ClosedBraces(lit, Least(Opened(lit)) + 1)))

\* The statements up to } or, in a case, to what ends it, or to the end.
StmtsEnd(p, inCase) ==
  \/ Cur(p) \in {Op("}"), EOF}
  \/ inCase /\ Cur(p) \in {Key("case"), Key("default")}
Stmts(p, inCase, done) ==
  IF StmtsEnd(p, inCase) THEN Out(p, done)
  ELSE Then(ParseStmt(p), LAMBDA s : Stmts(s, inCase, Append(done, s.out)))
ParseBlock(p) == Expect(Stmts(Expect(p, Op("{")), FALSE, <<>>), Op("}"))

ParamsFrom(p, done) ==
  Then(ExpectName(p), LAMBDA x :
    IF Cur(x) = Op(",") THEN ParamsFrom(Skip(x), Append(done, x.out))
    ELSE Out(x, Append(done, x.out)))
ParseParams(p) ==
  Expect(IF Cur(p) = Op(")") THEN Out(p, <<>>) ELSE ParamsFrom(p, <<>>), Op(")"))
ParseFuncExpr(p) ==
  Then(ParseParams(Expect(Expect(p, Key("fn")), Op("("))), LAMBDA ps :
    Then(ParseBlock(ps), LAMBDA b : Out(b, <<"fn", ps.out, b.out>>)))

ParsePrimary(p) ==
  CASE Cur(p).kind \in {"float", "id"} -> Skip(Out(p, <<Cur(p).kind, Cur(p).lit>>))
    [] Cur(p).kind = "int" -> Skip(Out(p, <<"int", IntOf(Cur(p).lit)>>))
    [] Cur(p).kind = "str" -> Interpolated(Skip(p), <<>>, Cur(p).lit)
    [] Cur(p) \in {Key("true"), Key("false"), Key("null")} -> Skip(Out(p, <<"key", Cur(p).lit>>))
    [] Cur(p) = Key("fn") -> ParseFuncExpr(p)
    [] Cur(p) = Op("(") -> Expect(ParseExpr(Skip(p)), Op(")"))
    [] Cur(p) = Op("[") ->
         Then(List(Skip(p), "arr", Op("]")), LAMBDA l : Out(l, <<"arr", l.out>>))
    [] Cur(p) = Op("{") ->
         Then(List(Skip(p), "map", Op("}")), LAMBDA l : Out(l, <<"map", l.out>>))
    [] OTHER -> Skip(Error(Out(p, <<"key", <<"null">>>>)))

PostfixRest(p) ==
  CASE Cur(p) = Op("(") ->
         Then(List(Skip(p), "call", Op(")")), LAMBDA l :
           PostfixRest(Out(l, <<"call", p.out, l.out>>)))
    [] Cur(p) = Op("[") ->
         Then(Expect(ParseExpr(Skip(p)), Op("]")), LAMBDA i :
           PostfixRest(Out(i, <<"index", p.out, i.out>>)))
    [] Cur(p) = Op(".") ->
         Then(ExpectName(Skip(p)), LAMBDA x : PostfixRest(Out(x, <<"field", p.out, x.out>>)))
    [] OTHER -> p

ParseUnary(p) ==
  IF Cur(p) \in {Op("!"), Op("-"), Op("~")}
  THEN Then(ParseUnary(Skip(p)), LAMBDA e : Out(e, <<"un", Cur(p).lit, e.out>>))
  ELSE PostfixRest(ParsePrimary(p))
-----------------------------------------------------------------------------
(* Statements.                                                             *)

Semi(p) == Match(p, Op(";"))

ParseLet(p) ==
  Then(ExpectName(Skip(p)), LAMBDA x :
    Then(ParseExpr(Expect(x, Op("="))), LAMBDA e : Semi(Out(e, <<"let", x.out, e.out>>))))

Else(p) ==
  IF Cur(p) # Key("else") THEN Out(p, <<>>)
  ELSE IF PeekToken(p) = Key("if") THEN ParseStmt(Skip(p))
  ELSE Then(ParseBlock(Skip(p)), LAMBDA b : Out(b, <<"block", b.out>>))
ParseIf(p) ==
  Then(ParseExpr(Skip(p)), LAMBDA c :
    Then(ParseBlock(c), LAMBDA b :
      Then(Else(b), LAMBDA s : Out(s, <<"if", c.out, b.out, s.out>>))))

ParseWhile(p) ==
  Then(ParseExpr(Skip(p)), LAMBDA c :
    Then(ParseBlock(c), LAMBDA b : Out(b, <<"while", c.out, b.out>>)))

ParseFor(p) ==
  Then(ExpectName(Skip(p)), LAMBDA x :
    Then(ParseExpr(Expect(x, Key("in"))), LAMBDA e :
      Then(ParseBlock(e), LAMBDA b : Out(b, <<"for", x.out, e.out, b.out>>))))

ParseReturn(p) ==
  IF Cur(Skip(p)) \in {Op(";"), Op("}")} THEN Semi(Out(Skip(p), <<"return", <<>>>>))
  ELSE Then(ParseExpr(Skip(p)), LAMBDA e : Semi(Out(e, <<"return", e.out>>)))

ParseThrow(p) == Then(ParseExpr(Skip(p)), LAMBDA e : Semi(Out(e, <<"throw", e.out>>)))

CaseValues(p, done) ==
  Then(ParseExpr(p), LAMBDA e :
    IF Cur(e) = Op(",") THEN CaseValues(Skip(e), Append(done, e.out))
    ELSE Out(e, Append(done, e.out)))
CaseBody(p) == Stmts(Expect(p, Op(":")), TRUE, <<>>)

\* sw: the cases and the last default so far.
Cases(p, sw) ==
  CASE Cur(p) \in {Op("}"), EOF} -> Expect(Out(p, sw), Op("}"))
    [] Cur(p) = Key("case") ->
         Then(CaseValues(Skip(p), <<>>), LAMBDA vs :
           Then(CaseBody(vs), LAMBDA b :
             Cases(b, [sw EXCEPT !.cases = Append(@, <<vs.out, b.out>>)])))
    [] Cur(p) = Key("default") ->
         Then(CaseBody(Skip(p)), LAMBDA b : Cases(b, [sw EXCEPT !.default = <<"block", b.out>>]))
    [] OTHER -> Cases(Skip(Error(p)), sw)
ParseSwitch(p) ==
  Then(ParseExpr(Skip(p)), LAMBDA e :
    Then(Cases(Expect(e, Op("{")), [cases |-> <<>>, default |-> <<>>]), LAMBDA sw :
      Out(sw, <<"switch", e.out, sw.out.cases, sw.out.default>>)))

CatchName(p) == IF Cur(p).kind = "id" THEN Skip(Out(p, Cur(p).lit)) ELSE Out(p, <<"e">>)
ParseTry(p) ==
  Then(ParseBlock(Skip(p)), LAMBDA b :
    Then(CatchName(Expect(b, Key("catch"))), LAMBDA x :
      Then(ParseBlock(x), LAMBDA c : Out(c, <<"try", b.out, x.out, c.out>>))))

ParseSimple(p) ==
  Then(ParseExpr(p), LAMBDA e :
    IF Cur(e) = Op("=")
    THEN Then(ParseExpr(Skip(e)), LAMBDA v : Semi(Out(v, <<"set", e.out, v.out>>)))
    ELSE Semi(Out(e, <<"expr", e.out>>)))

ParseStmt(p) ==
  CASE Cur(p) = Key("let") -> ParseLet(p)
    [] Cur(p) = Key("if") -> ParseIf(p)
    [] Cur(p) = Key("while") -> ParseWhile(p)
    [] Cur(p) = Key("for") -> ParseFor(p)
    [] Cur(p) = Key("return") -> ParseReturn(p)
    [] Cur(p) \in {Key("break"), Key("continue")} -> Semi(Skip(Out(p, Cur(p).lit)))
    [] Cur(p) = Key("switch") -> ParseSwitch(p)
    [] Cur(p) = Key("try") -> ParseTry(p)
    [] Cur(p) = Key("throw") -> ParseThrow(p)
    [] Cur(p) = Op("{") -> Then(ParseBlock(p), LAMBDA b : Out(b, <<"block", b.out>>))
    [] OTHER -> ParseSimple(p)
-----------------------------------------------------------------------------
(* Programs: imports, functions and statements, each in their order.       *)

RECURSIVE NamesFrom(_, _), Program(_, _)
NamesFrom(p, done) ==
  IF Cur(p).kind # "id" THEN Error(Out(p, done))
  ELSE IF PeekToken(p) = Op(",") THEN NamesFrom(Skip(Skip(p)), Append(done, Cur(p).lit))
  ELSE Skip(Out(p, Append(done, Cur(p).lit)))
Alias(p) == IF Cur(p) = Key("as") THEN ExpectName(Skip(p)) ELSE Out(p, <<>>)
ParseImport(p) ==
  IF Cur(Skip(p)).kind = "str"
  THEN Then(Alias(Skip(Skip(p))), LAMBDA a :
         Semi(Out(a, <<"path", Cur(Skip(p)).lit, IF a.errs = p.errs THEN a.out ELSE <<>>>>)))
  ELSE Then(NamesFrom(Skip(p), <<>>), LAMBDA ns : Semi(Out(ns, <<"names", ns.out>>)))

ParseFunc(p) ==
  Then(ExpectName(Skip(p)), LAMBDA x :
    Then(ParseParams(Expect(x, Op("("))), LAMBDA ps :
      Then(ParseBlock(ps), LAMBDA b : Out(b, <<"func", x.out, ps.out, b.out>>))))

Empty == [imports |-> <<>>, funcs |-> <<>>, stmts |-> <<>>]
Program(p, prog) ==
  CASE Cur(p) = EOF -> Out(p, prog)
    [] Cur(p) = Bad -> Error(Out(p, prog))
    [] Cur(p) = Key("import") ->
         Then(ParseImport(p), LAMBDA i : Program(i, [prog EXCEPT !.imports = Append(@, i.out)]))
    [] Cur(p) = Key("fn") /\ PeekToken(p).kind = "id" ->
         Then(ParseFunc(p), LAMBDA f : Program(f, [prog EXCEPT !.funcs = Append(@, f.out)]))
    [] OTHER ->
         Then(ParseStmt(p), LAMBDA s : Program(s, [prog EXCEPT !.stmts = Append(@, s.out)]))

Parse(text) == Program(Parser0(Lex(text)), Empty)
=============================================================================
