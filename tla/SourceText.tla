----------------------------- MODULE SourceText -----------------------------
(***************************************************************************)
(* What the text of a program means, from the other side: how a tree is    *)
(* written.  Every precedence is in one table, parentheses stand where the *)
(* table asks for them, and a semicolon only where the next statement      *)
(* would go on with the last.  In the style "tight" nothing stands between *)
(* two tokens that can stand together; in the style "loose" a comment      *)
(* stands between any two, every statement ends in a semicolon, numbers    *)
(* are hexadecimal, and the sum of a text and an expression is written as  *)
(* an interpolation.                                                       *)
(***************************************************************************)
EXTENDS Parser

Level(e) ==
  CASE e[1] = "cond" -> 0
    [] e[1] = "bin" ->
         CHOOSE n \in 1 .. 10 :
           e[2] \in << {<<"|", "|">>}, {<<"&", "&">>}, {<<"|">>}, {<<"^">>}, {<<"&">>},
                       {<<"=", "=">>, <<"!", "=">>},
                       {<<"<">>, <<"<", "=">>, <<">">>, <<">", "=">>},
                       {<<"<", "<">>, <<">", ">">>}, {<<"+">>, <<"-">>},
                       {<<"*">>, <<"/">>, <<"%">>} >>[n]
    [] e[1] = "un" -> 11
    [] OTHER -> 12

Between(l, ts, r) == <<Op(l)>> \o ts \o <<Op(r)>>
Interpolates(e, style) ==
  style = "loose" /\ e[1] = "bin" /\ e[2] = <<"+">> /\ e[3][1] = "str" /\ e[3][2] # <<>>

\* The tokens separated by commas.
Listed(tss) ==
  FoldLeft(LAMBDA all, ts : IF all = <<>> THEN ts ELSE all \o <<Op(",")>> \o ts, <<>>, tss)
Named(x) == Token("id", x)
NamesOf(xs) == Listed([i \in DOMAIN xs |-> <<Named(xs[i])>>])

RECURSIVE Bare(_, _), Shown(_, _, _), Body(_, _, _), Text(_, _), ShownStmt(_, _)

Numeral(n, style) ==
  CASE n < 2 -> [i \in {1} |-> IF n = 0 THEN "0" ELSE "1"]
    [] n = 30 -> IF style = "tight" THEN <<"3", "0">> ELSE <<"0", "x", "1", "e">>

\* An expression where no operator weaker than min may stand bare.
Shown(e, min, style) ==
  IF Interpolates(e, style) \/ Level(e) >= min THEN Bare(e, style)
  ELSE Between("(", Bare(e, style), ")")

\* A key that would be read as a name or a string stands in parentheses.
ShownKey(k, style) ==
  CASE k[1] = "str" /\ style = "tight" /\ Len(k[2]) = 1 /\ IsLetter(k[2][1]) -> <<Named(k[2])>>
    [] k[1] = "str" -> Bare(k, style)
    [] OTHER -> Between("(", Shown(k, 0, style), ")")
ShownEntries(kvs, style) ==
  Listed([i \in DOMAIN kvs |->
            ShownKey(kvs[i][1], style) \o <<Op(":")>> \o Shown(kvs[i][2], 0, style)])
ShownList(es, style) == Listed([i \in DOMAIN es |-> Shown(es[i], 0, style)])
Braces(b, style) == Between("{", Body(b, Op("}"), style), "}")
Fn(ps, b, style) == Between("(", NamesOf(ps), ")") \o Braces(b, style)

Bare(e, style) ==
  CASE e[1] \in {"id", "float", "str", "key"} -> <<Token(e[1], e[2])>>
    [] e[1] = "int" -> <<Token("int", Numeral(e[2], style))>>
    [] e[1] = "un" -> <<Token("op", e[2])>> \o Shown(e[3], 11, style)
    [] e[1] = "bin" /\ Interpolates(e, style) ->
         <<Token("text", e[3][2] \o <<"$", "{">> \o Text(Shown(e[4], 0, style), style) \o <<"}">>)>>
    [] e[1] = "bin" /\ ~Interpolates(e, style) ->
         Shown(e[3], Level(e), style) \o <<Token("op", e[2])>> \o Shown(e[4], Level(e) + 1, style)
    [] e[1] = "cond" ->
         Shown(e[2], 1, style) \o Between("?", Shown(e[3], 0, style), ":") \o Shown(e[4], 0, style)
    [] e[1] = "call" -> Shown(e[2], 12, style) \o Between("(", ShownList(e[3], style), ")")
    [] e[1] = "index" -> Shown(e[2], 12, style) \o Between("[", Shown(e[3], 0, style), "]")
    [] e[1] = "field" -> Shown(e[2], 12, style) \o <<Op("."), Named(e[3])>>
    [] e[1] = "arr" -> Between("[", ShownList(e[2], style), "]")
    [] e[1] = "map" -> Between("{", ShownEntries(e[2], style), "}")
    [] e[1] = "fn" -> <<Key("fn")>> \o Fn(e[2], e[3], style)

\* An expression at the start of a statement.
Leading(ts) == IF Head(ts) = Op("{") THEN Between("(", ts, ")") ELSE ts

ShownCases(cs, default, style) ==
  FoldLeft(LAMBDA all, c :
             all \o <<Key("case")>> \o ShownList(c[1], style) \o <<Op(":")>>
                 \o Body(c[2], Key("case"), style),
           <<>>, cs)
    \o IF default = <<>> THEN <<>>
       ELSE <<Key("default"), Op(":")>> \o Body(default[2], Op("}"), style)

ShownStmt(s, style) ==
  CASE s[1] \in {"break", "continue"} -> <<Key(s[1])>>
    [] s[1] = "expr" -> Leading(Shown(s[2], 0, style))
    [] s[1] = "set" -> Leading(Shown(s[2], 0, style)) \o <<Op("=")>> \o Shown(s[3], 0, style)
    [] s[1] = "let" -> <<Key("let"), Named(s[2]), Op("=")>> \o Shown(s[3], 0, style)
    [] s[1] = "return" /\ s[2] = <<>> -> <<Key("return")>>
    [] s[1] \in {"return", "throw"} /\ s[2] # <<>> -> <<Key(s[1])>> \o Shown(s[2], 0, style)
    [] s[1] = "block" -> Braces(s[2], style)
    [] s[1] = "while" -> <<Key("while")>> \o Shown(s[2], 0, style) \o Braces(s[3], style)
    [] s[1] = "for" ->
         <<Key("for"), Named(s[2]), Key("in")>> \o Shown(s[3], 0, style) \o Braces(s[4], style)
    [] s[1] = "try" ->
         <<Key("try")>> \o Braces(s[2], style) \o <<Key("catch"), Named(s[3])>> \o Braces(s[4], style)
    [] s[1] = "switch" ->
         <<Key("switch")>> \o Shown(s[2], 0, style)
           \o Between("{", ShownCases(s[3], s[4], style), "}")
    [] s[1] = "if" ->
         <<Key("if")>> \o Shown(s[2], 0, style) \o Braces(s[3], style)
           \o IF s[4] = <<>> THEN <<>> ELSE <<Key("else")>> \o ShownStmt(s[4], style)
    [] s[1] = "func" -> <<Key("fn"), Named(s[2])>> \o Fn(s[3], s[4], style)
    [] s[1] = "names" -> <<Key("import")>> \o NamesOf(s[2])
    [] s[1] = "path" ->
         <<Key("import"), Token("str", s[2])>>
           \o IF s[3] = <<>> THEN <<>> ELSE <<Key("as"), Named(s[3])>>

\* Whether s must be ended before the token next.
Open(s) == s[1] \in {"let", "set", "expr", "return", "throw"}
Ended(s, next, style) ==
  \/ style = "loose" /\ Open(s)
  \/ s[1] = "return" /\ s[2] = <<>> /\ next # Op("}")
  \/ Open(s) /\ next \in {Op("("), Op("["), Op("-")}
EndMark(s, next, style) == IF Ended(s, next, style) THEN <<Op(";")>> ELSE <<>>
Before(s, rest, follow, style) ==
  ShownStmt(s, style) \o EndMark(s, Head(Append(rest, follow)), style) \o rest
Body(ss, follow, style) ==
  FoldRight(LAMBDA s, rest : Before(s, rest, follow, style), ss, <<>>)
-----------------------------------------------------------------------------
(* Tokens in characters.                                                   *)

Escape(a) == CASE a \in {"\"", "'", "\\"} -> <<"\\", a>> [] a = "\n" -> <<"\\", "n">> [] OTHER -> <<a>>
Escaped(lit) == FoldLeft(LAMBDA all, a : all \o Escape(a), <<>>, lit)
Quoted(lit, quote) == quote \o Escaped(lit) \o quote
Letters(t, style) ==
  CASE t.kind = "str" -> Quoted(t.lit, IF style = "tight" THEN <<"\"">> ELSE <<"'">>)
    [] t.kind = "text" -> Quoted(t.lit, <<"\"", "\"", "\"">>)
    [] OTHER -> t.lit

\* Two words, and two strings, would run together.
Wordy(t) == t.kind \in {"id", "key", "int", "float"}
Merge(t, u) == \/ Wordy(t) /\ Wordy(u)
               \/ t.kind = "str" /\ u.kind = "str"
Gap(ts, i, style) ==
  CASE i = 1 -> <<>>
    [] i > 1 /\ style = "loose" -> <<" ", "/", "*", "*", "\"", "*", "/", "/", "/", "a", "\n">>
    [] i > 1 /\ style = "tight" -> IF Merge(ts[i - 1], ts[i]) THEN <<" ">> ELSE <<>>
Text(ts, style) ==
  FlattenSeq([i \in DOMAIN ts |-> Gap(ts, i, style) \o Letters(ts[i], style)])

Source(prog, style) == Text(Body(prog.imports \o prog.funcs \o prog.stmts, EOF, style), style)
=============================================================================
