----------------------------- MODULE GlvmValues -----------------------------
(***************************************************************************)
(* The values of GLVM registers and what the instructions compute of them  *)
(* (internal/vm/value.go, arith and the data instructions of vm.go).       *)
(*                                                                         *)
(* A value is a tuple that starts with its type.  A string is a sequence   *)
(* of atoms: the values and the error texts it was put together from.      *)
(* Floats, bytes and functions are left out, and so is the identity of     *)
(* arrays and maps: nothing here writes into one that two registers hold.  *)
(***************************************************************************)
EXTENDS Integers, Sequences, SequencesExt, Functions

CONSTANT IntHalf  \* integers are -IntHalf .. IntHalf - 1, in the code 2^63

NullV == <<"null">>
BoolV(b) == <<"bool", b>>
IntV(n) == <<"int", n>>
StrV(atoms) == <<"str", atoms>>
ArrV(s) == <<"arr", s>>
MapV(f) == <<"map", f>>
Typ(v) == v[1]

Wrap(n) == ((n + IntHalf) % (2 * IntHalf)) - IntHalf

\* What an instruction gives: a value, or an error with its text.
Ok(v) == [ok |-> TRUE, v |-> v]
Fails(text) == [ok |-> FALSE, v |-> StrV(<<text>>)]
TypeError == Fails(<<"type error">>)

Truthy(v) ==
  CASE Typ(v) = "null" -> FALSE
    [] Typ(v) = "bool" -> v[2]
    [] Typ(v) = "int" -> v[2] # 0
    [] Typ(v) = "map" -> DOMAIN v[2] # {}
    [] OTHER -> v[2] # <<>>

AsStr(v) == IF Typ(v) = "str" THEN v[2] ELSE <<v>>

\* A string is an integer if it was made of one.
IsNumeric(v) == Typ(v) = "str" /\ Len(v[2]) = 1 /\ Typ(v[2][1]) = "int"
AsInt(v) ==
  CASE Typ(v) = "int" -> Ok(v)
    [] Typ(v) = "bool" -> Ok(IntV(IF v[2] THEN 1 ELSE 0))
    [] IsNumeric(v) -> Ok(v[2][1])
    [] OTHER -> TypeError

\* AsFloat refuses what AsInt accepts: a bool.
AsFloat(v) == IF Typ(v) = "bool" THEN TypeError ELSE AsInt(v)

Equal(v, w) == Typ(v) = Typ(w) /\ Typ(v) # "map" /\ v = w

\* The order of two texts is not modelled: one that is not the other is less.
Compare(v, w) ==
  IF Typ(v) = "str" /\ Typ(w) = "str" THEN Ok(IF v = w THEN 0 ELSE -1)
  ELSE IF AsFloat(v).ok /\ AsFloat(w).ok
       THEN LET d == AsFloat(v).v[2] - AsFloat(w).v[2]
            IN Ok(CASE d < 0 -> -1 [] d = 0 -> 0 [] d > 0 -> 1)
       ELSE TypeError

\* Integer division goes towards zero.
Abs(n) == IF n < 0 THEN -n ELSE n
Quotient(a, b) == IF (a < 0) = (b < 0) THEN Abs(a) \div Abs(b) ELSE -(Abs(a) \div Abs(b))
Remainder(a, b) == a - b * Quotient(a, b)

IntArith(op, a, b) ==
  CASE op \in {"DIV", "MOD"} /\ b = 0 -> Fails(<<"division by zero">>)
    [] op = "ADD" -> Ok(IntV(Wrap(a + b)))
    [] op = "SUB" -> Ok(IntV(Wrap(a - b)))
    [] op = "MUL" -> Ok(IntV(Wrap(a * b)))
    [] op = "DIV" -> Ok(IntV(Wrap(Quotient(a, b))))
    [] op = "MOD" -> Ok(IntV(Remainder(a, b)))

Arith(op, v, w) ==
  CASE op = "ADD" /\ Typ(v) = "arr" /\ Typ(w) = "arr" -> Ok(ArrV(v[2] \o w[2]))
    [] op = "ADD" /\ "str" \in {Typ(v), Typ(w)} -> Ok(StrV(AsStr(v) \o AsStr(w)))
    [] OTHER -> IF AsInt(v).ok /\ AsInt(w).ok
                THEN IntArith(op, AsInt(v).v[2], AsInt(w).v[2]) ELSE TypeError

Relational == {"LT", "LE", "GT", "GE"}
Ordered(op, v, w) ==
  LET c == Compare(v, w)
  IN IF ~c.ok THEN c
     ELSE Ok(BoolV(CASE op = "LT" -> c.v < 0
                    [] op = "LE" -> c.v <= 0
                    [] op = "GT" -> c.v > 0
                    [] op = "GE" -> c.v >= 0))

Neg(v) == IF AsInt(v).ok THEN Ok(IntV(Wrap(-AsInt(v).v[2]))) ELSE TypeError

Length(v) ==
  CASE Typ(v) \in {"arr", "str"} -> Ok(IntV(Len(v[2])))
    [] Typ(v) = "map" -> Ok(IntV(Len(SetToSeq(DOMAIN v[2]))))
    [] OTHER -> TypeError

GetIndex(v, i) ==
  CASE Typ(v) = "map" ->
         Ok(IF AsStr(i) \in DOMAIN v[2] THEN v[2][AsStr(i)] ELSE NullV)
    [] Typ(v) \in {"arr", "str"} ->
         IF ~AsInt(i).ok THEN TypeError
         ELSE IF AsInt(i).v[2] \in 0 .. Len(v[2]) - 1
              THEN LET e == v[2][AsInt(i).v[2] + 1]
                   IN Ok(IF Typ(v) = "arr" THEN e ELSE StrV(<<e>>))
              ELSE Fails(<<"index out of range">>)
    [] OTHER -> TypeError

\* SETK and SETI on a map; the key is a string.
SetKey(m, k, v) ==
  MapV([x \in DOMAIN m[2] \cup {AsStr(k)} |-> IF x = AsStr(k) THEN v ELSE m[2][x]])

Keys(m) ==
  IF Typ(m) # "map" THEN ArrV(<<>>)
  ELSE LET ks == SetToSeq(DOMAIN m[2]) IN ArrV([i \in DOMAIN ks |-> StrV(ks[i])])

\* What the binary instructions compute.
Binary(op, v, w) ==
  CASE op \in {"ADD", "SUB", "MUL", "DIV", "MOD"} -> Arith(op, v, w)
    [] op = "EQ" -> Ok(BoolV(Equal(v, w)))
    [] op = "NE" -> Ok(BoolV(~Equal(v, w)))
    [] op \in Relational -> Ordered(op, v, w)
    [] op = "GETI" -> GetIndex(v, w)

Unary(op, v) ==
  CASE op = "LNOT" -> Ok(BoolV(~Truthy(v)))
    [] op = "NEG" -> Neg(v)
    [] op = "LEN" -> Length(v)
    [] op = "KEYS" -> Ok(Keys(v))
    [] op = "TYPEOF" -> Ok(StrV(<<<<Typ(v)>>>>))
=============================================================================
