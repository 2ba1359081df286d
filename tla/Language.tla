------------------------------ MODULE Language ------------------------------
(***************************************************************************)
(* What a GrokLang function without calls means (docs/language.md): the    *)
(* value of an expression and the effect of a statement, on environments   *)
(* with block scopes, by recursion over the syntax.  It is what compiled   *)
(* code is compared with, and knows no registers, jumps or handlers.       *)
(*                                                                         *)
(* Statements and expressions are tuples that start with their kind:       *)
(*   <<"lit", v>> <<"id", x>> <<"un", op, e>> <<"bin", op, e, f>>          *)
(*   <<"and", e, f>> <<"or", e, f>> <<"cond", c, e, f>> <<"arr", es>>      *)
(*   <<"map", keys, values>>                                               *)
(*   <<"let", x, e>> <<"set", x, e>> <<"block", b>> <<"if", e, b, b>>      *)
(*   <<"while", e, b>> <<"for", x, e, b>> <<"switch", e, cases, b>>        *)
(*   <<"try", b, x, b>> <<"throw", e>> <<"return", e>> <<"break">>         *)
(*   <<"continue">>, where b is a sequence of statements and a case a      *)
(*   pair of expressions and b.                                            *)
(***************************************************************************)
EXTENDS GlvmValues

\* A global that was never assigned is null; the first scope is the globals.
Innermost(env, x) ==
  LET has == {i \in 2 .. Len(env) : x \in DOMAIN env[i]}
  IN IF has = {} THEN 1 ELSE CHOOSE i \in has : \A j \in has : j <= i
Lookup(env, x) ==
  LET i == Innermost(env, x) IN IF x \in DOMAIN env[i] THEN env[i][x] ELSE NullV
Bound(scope, x, v) == [y \in DOMAIN scope \cup {x} |-> IF y = x THEN v ELSE scope[y]]
Assigned(env, x, v) == [env EXCEPT ![Innermost(env, x)] = Bound(@, x, v)]
Declared(env, x, v) == [env EXCEPT ![Len(env)] = Bound(@, x, v)]
EmptyScope == <<>>

\* What follows a value, if there is one.
Then(v, F(_)) == IF v.ok THEN F(v.v) ELSE v

RECURSIVE Eval(_, _), EvalAll(_, _, _)
\* The values of es, or the first failure.
EvalAll(es, env, done) ==
  IF es = <<>> THEN Ok(done)
  ELSE Then(Eval(Head(es), env), LAMBDA v : EvalAll(Tail(es), env, Append(done, v)))

MadeMap(ks, vs) == FoldLeft(LAMBDA m, i : SetKey(m, ks[i], vs[i]), MapV(<<>>), [i \in DOMAIN ks |-> i])

Eval(e, env) ==
  CASE e[1] = "lit" -> Ok(e[2])
    [] e[1] = "id" -> Ok(Lookup(env, e[2]))
    [] e[1] = "bin" -> Then(EvalAll(<<e[3], e[4]>>, env, <<>>), LAMBDA vs : Binary(e[2], vs[1], vs[2]))
    [] e[1] = "un" -> Then(Eval(e[3], env), LAMBDA v : Unary(e[2], v))
    [] e[1] = "and" -> Then(Eval(e[2], env), LAMBDA v : IF Truthy(v) THEN Eval(e[3], env) ELSE Ok(v))
    [] e[1] = "or" -> Then(Eval(e[2], env), LAMBDA v : IF Truthy(v) THEN Ok(v) ELSE Eval(e[3], env))
    [] e[1] = "cond" -> Then(Eval(e[2], env), LAMBDA v : Eval(IF Truthy(v) THEN e[3] ELSE e[4], env))
    [] e[1] = "arr" -> Then(EvalAll(e[2], env, <<>>), LAMBDA vs : Ok(ArrV(vs)))
    [] e[1] = "map" -> Then(EvalAll(e[3], env, <<>>), LAMBDA vs : Ok(MadeMap(e[2], vs)))

\* How a statement ends: "next", "break", "continue", "return", "throw", or
\* "lost" when the fuel for loops has run out.
End(how, v, env, fuel) == [how |-> how, v |-> v, env |-> env, fuel |-> fuel]

\* What follows the value of an expression in a statement.
With(v, env, fuel, F(_)) == IF v.ok THEN F(v.v) ELSE End("throw", v.v, env, fuel)

\* What follows a round of a loop.
Round(r, Again(_)) ==
  CASE r.how \in {"next", "continue"} -> Again(r)
    [] r.how = "break" -> [r EXCEPT !.how = "next"]
    [] OTHER -> r

RECURSIVE Exec(_, _, _), ExecAll(_, _, _), ExecWhile(_, _, _), ExecFor(_, _, _, _)
RECURSIVE Cases(_, _, _, _)

Following(r, F(_)) == IF r.how = "next" THEN F(r) ELSE r
ExecAll(b, env, fuel) ==
  IF b = <<>> THEN End("next", NullV, env, fuel)
  ELSE Following(Exec(Head(b), env, fuel), LAMBDA r : ExecAll(Tail(b), r.env, r.fuel))

\* A block has a scope of its own, which may hold a name from the start.
Block(b, scope, env, fuel) ==
  [ExecAll(b, Append(env, scope), fuel) EXCEPT !.env = SubSeq(@, 1, Len(env))]

ExecWhile(s, env, fuel) ==
  IF fuel = 0 THEN End("lost", NullV, env, 0)
  ELSE With(Eval(s[2], env), env, fuel, LAMBDA v :
         IF Truthy(v)
         THEN Round(Block(s[3], EmptyScope, env, fuel - 1), LAMBDA r : ExecWhile(s, r.env, r.fuel))
         ELSE End("next", NullV, env, fuel))

ExecFor(s, elems, env, fuel) ==
  IF elems = <<>> THEN End("next", NullV, env, fuel)
  ELSE Round(Block(s[4], Bound(EmptyScope, s[2], Head(elems)), env, fuel),
             LAMBDA r : ExecFor(s, Tail(elems), r.env, r.fuel))

\* The block of the first case that has the value, else the default one; all
\* values of a case are looked at.
Cases(cases, other, tag, env) ==
  IF cases = <<>> THEN Ok(other)
  ELSE Then(EvalAll(Head(cases)[1], env, <<>>), LAMBDA vs :
         IF \E i \in DOMAIN vs : Equal(tag, vs[i]) THEN Ok(Head(cases)[2])
         ELSE Cases(Tail(cases), other, tag, env))

ExecSwitch(s, env, fuel) ==
  With(Then(Eval(s[2], env), LAMBDA tag : Cases(s[3], s[4], tag, env)), env, fuel,
       LAMBDA b : Block(b, EmptyScope, env, fuel))

\* for visits the elements that an array has at the start, or the keys of a map.
Elements(v) ==
  Then(Length(v), LAMBDA n : Ok([i \in 1 .. n[2] |-> GetIndex(v, IntV(i - 1)).v]))
ExecForIn(s, env, fuel) ==
  With(Then(Eval(s[3], env), LAMBDA v : Elements(IF Typ(v) = "map" THEN Keys(v) ELSE v)),
       env, fuel, LAMBDA elems : ExecFor(s, elems, env, fuel))

Catching(r, F(_)) == IF r.how = "throw" THEN F(r) ELSE r
ExecTry(s, env, fuel) ==
  Catching(Block(s[2], EmptyScope, env, fuel),
           LAMBDA r : Block(s[4], Bound(EmptyScope, s[3], r.v), r.env, r.fuel))

Exec(s, env, fuel) ==
  CASE s[1] = "let" ->
         With(Eval(s[3], env), env, fuel, LAMBDA v : End("next", NullV, Declared(env, s[2], v), fuel))
    [] s[1] = "set" ->
         With(Eval(s[3], env), env, fuel, LAMBDA v : End("next", NullV, Assigned(env, s[2], v), fuel))
    [] s[1] = "if" ->
         With(Eval(s[2], env), env, fuel,
              LAMBDA v : Block(IF Truthy(v) THEN s[3] ELSE s[4], EmptyScope, env, fuel))
    [] s[1] = "throw" ->
         With(Eval(s[2], env), env, fuel, LAMBDA v : End("throw", StrV(AsStr(v)), env, fuel))
    [] s[1] = "return" -> With(Eval(s[2], env), env, fuel, LAMBDA v : End("return", v, env, fuel))
    [] s[1] = "block" -> Block(s[2], EmptyScope, env, fuel)
    [] s[1] = "while" -> ExecWhile(s, env, fuel)
    [] s[1] = "for" -> ExecForIn(s, env, fuel)
    [] s[1] = "switch" -> ExecSwitch(s, env, fuel)
    [] s[1] = "try" -> ExecTry(s, env, fuel)
    [] s[1] \in {"break", "continue"} -> End(s[1], NullV, env, fuel)

\* How a function body ends: with a value or with an error.
Outcome(r) == [how |-> IF r.how = "next" THEN "return" ELSE r.how, v |-> r.v]
Meaning(body, fuel) == Outcome(ExecAll(body, <<EmptyScope, EmptyScope>>, fuel))
=============================================================================
