------------------------------- MODULE Lexer -------------------------------
(***************************************************************************)
(* internal/lexer: the tokens of a source text.  A text is a sequence of   *)
(* atoms: a space, a line end, a digit, a letter or a run of letters, or   *)
(* one punctuation character.  A token is its kind and its atoms.  Left    *)
(* out: positions, \xHH, and a number directly before a word that begins   *)
(* with e, which the scanner takes for an exponent.                        *)
(***************************************************************************)
EXTENDS Naturals, Sequences, SequencesExt

Spaces == {" ", "\n"}
Digit == [a |-> 10, e |-> 14] @@ ("0" :> 0) @@ ("1" :> 1) @@ ("3" :> 3)
Digits == {"0", "1", "3"}
Quotes == {"\"", "'"}
Punctuation ==
  {"+", "-", "*", "/", "%", "&", "|", "^", "~", "!", "<", ">", "=", "?", "(", ")",
   "{", "}", "[", "]", ",", ":", ";", ".", "$", "\\"}
IsLetter(a) == a \notin Spaces \cup Digits \cup Quotes \cup Punctuation
Keywords ==
  {"fn", "let", "if", "else", "while", "for", "in", "return", "import", "as", "true",
   "false", "null", "break", "continue", "switch", "case", "default", "try", "catch", "throw"}
TwoChar ==
  {<<"=", "=">>, <<"!", "=">>, <<"<", "=">>, <<">", "=">>, <<"&", "&">>, <<"|", "|">>,
   <<"<", "<">>, <<">", ">">>}

Token(kind, lit) == [kind |-> kind, lit |-> lit]
Bad == Token("bad", <<>>)

\* peek and peekN: the atom n behind the next, or none.
Peek(cs, n) == IF n < Len(cs) THEN cs[n + 1] ELSE "end"
From(cs, n) == SubSeq(cs, n + 1, Len(cs))
\* How many atoms from the n-th on pass the test.
Run(cs, n, Test(_)) ==
  CHOOSE k \in 0 .. Len(cs) :
    /\ n + k <= Len(cs) /\ \A i \in 1 .. k : Test(cs[n + i])
    /\ n + k < Len(cs) => ~Test(cs[n + k + 1])

IsDigit(a) == a \in Digits
IsHex(a) == a \in DOMAIN Digit
InWord(a) == IsLetter(a) \/ IsDigit(a)

\* lexNumber: the length of the number and whether it is a float.
Fraction(cs, n) ==
  IF Peek(cs, n) = "." /\ IsDigit(Peek(cs, n + 1)) THEN 1 + Run(cs, n + 1, IsDigit) ELSE 0
Sign(cs, n) == IF Peek(cs, n) \in {"+", "-"} THEN 1 ELSE 0
Exponent(cs, n) ==
  IF Peek(cs, n) = "e"
  THEN 1 + Sign(cs, n + 1) + Run(cs, n + 1 + Sign(cs, n + 1), IsDigit)
  ELSE 0
NumberKind(long, short) == IF long > short THEN "float" ELSE "int"
WithExponent(cs, n, digits) ==
  <<NumberKind(n + Exponent(cs, n), digits), n + Exponent(cs, n)>>
WithFraction(cs, digits) == WithExponent(cs, digits + Fraction(cs, digits), digits)
Number(cs) ==
  IF Peek(cs, 0) = "0" /\ Peek(cs, 1) = "x" THEN <<"int", 2 + Run(cs, 2, IsHex)>>
  ELSE WithFraction(cs, Run(cs, 0, IsDigit))

\* lexString and lexTripleString: the text up to the closing quote, or an
\* illegal token; in a plain string a line end is one, and is left to be read.
Unescaped(a) == CASE a = "n" -> "\n" [] a = "0" -> "NUL" [] OTHER -> a
Closes(cs, quote) == Len(cs) >= Len(quote) /\ SubSeq(cs, 1, Len(quote)) = quote

RECURSIVE StringBody(_, _, _)
StringBody(cs, quote, lit) ==
  CASE cs = <<>> -> [token |-> Bad, rest |-> <<>>]
    [] Closes(cs, quote) -> [token |-> Token("str", lit), rest |-> From(cs, Len(quote))]
    [] cs # <<>> /\ Len(quote) = 1 /\ Peek(cs, 0) = "\n" -> [token |-> Bad, rest |-> cs]
    [] cs # <<>> /\ Peek(cs, 0) = "\\" ->
         StringBody(From(cs, 2), quote, Append(lit, Unescaped(Peek(cs, 1))))
    [] OTHER -> StringBody(Tail(cs), quote, Append(lit, Head(cs)))

Quote(cs) ==
  IF Len(cs) >= 3 /\ \A i \in 1 .. 3 : cs[i] = "\"" THEN <<"\"", "\"", "\"">> ELSE <<cs[1]>>

\* Comments: what follows them.
AfterLine(cs) == From(cs, Run(cs, 2, LAMBDA a : a # "\n") + 2)
ClosedAt(cs) == {i \in 3 .. Len(cs) - 1 : cs[i] = "*" /\ cs[i + 1] = "/"}
AfterBlock(cs) == From(cs, 1 + CHOOSE i \in ClosedAt(cs) : \A j \in ClosedAt(cs) : i <= j)

Word(lit) ==
  IF Len(lit) = 1 /\ lit[1] \in Keywords THEN Token("key", lit)
  ELSE Token("id", lit)

\* Mistake: the operators of two characters are tried after those of one.
OneChar(cs) == 1
OperatorLength(cs) == IF Len(cs) >= 2 /\ SubSeq(cs, 1, 2) \in TwoChar THEN 2 ELSE 1
Operator(cs, n) ==
  IF cs[1] \in {"$", "\\"} THEN Bad ELSE Token("op", SubSeq(cs, 1, n))

\* NextToken until the end of the text.
RECURSIVE Lex(_)
LexTaking(cs, n, token) == <<token>> \o Lex(From(cs, n))
LexNumber(cs, number) == LexTaking(cs, number[2], Token(number[1], SubSeq(cs, 1, number[2])))
LexString(body) == <<body.token>> \o Lex(body.rest)
Lex(cs) ==
  CASE cs = <<>> -> <<>>
    [] Peek(cs, 0) \in Spaces -> Lex(Tail(cs))
    [] Peek(cs, 0) = "/" /\ Peek(cs, 1) = "/" -> Lex(AfterLine(cs))
    [] Peek(cs, 0) = "/" /\ Peek(cs, 1) = "*" ->
         IF ClosedAt(cs) = {} THEN <<Bad>> ELSE Lex(AfterBlock(cs))
    [] IsDigit(Peek(cs, 0)) -> LexNumber(cs, Number(cs))
    [] cs # <<>> /\ IsLetter(Peek(cs, 0)) ->
         LexTaking(cs, Run(cs, 0, InWord), Word(SubSeq(cs, 1, Run(cs, 0, InWord))))
    [] Peek(cs, 0) \in Quotes -> LexString(StringBody(From(cs, Len(Quote(cs))), Quote(cs), <<>>))
    [] cs # <<>> /\ Peek(cs, 0) \in Punctuation \
         (IF Peek(cs, 1) \in {"/", "*"} THEN {"/"} ELSE {}) ->
         LexTaking(cs, OperatorLength(cs), Operator(cs, OperatorLength(cs)))
=============================================================================
