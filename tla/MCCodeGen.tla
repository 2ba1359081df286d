----------------------------- MODULE MCCodeGen -----------------------------
(* Instances of CodeGen for TLC: the bodies that are compiled and run.     *)
EXTENDS CodeGen

L(n) == <<"lit", IntV(n)>>
Id(x) == <<"id", x>>
Bin(op, e, f) == <<"bin", op, e, f>>
Let(x, e) == <<"let", x, e>>
Set(x, e) == <<"set", x, e>>
K == StrV(<<<<"k">>>>)

-----------------------------------------------------------------------------
(* Expressions over two locals, two levels deep, as the value of a let, of *)
(* an assignment to a local that they read, and of one to a global.        *)

Simple == {L(0), L(1), Id("x"), Id("y")}
Over(A, B) ==
  {Bin(op, e, f) : op \in {"ADD", "DIV", "LT", "GETI"}, e \in A, f \in B}
    \cup {<<c, e, f>> : c \in {"and", "or"}, e \in A, f \in B}
    \cup {<<"arr", <<e, f>>>> : e \in A, f \in B}
    \cup {<<"map", <<K, K>>, <<e, f>>>> : e \in A, f \in B}
    \cup {<<"cond", e, f, Id("y")>> : e \in A, f \in B}
    \cup {<<"un", "LNOT", e>> : e \in A}
Flat == Over({Id("x")}, {L(0), Id("y")})
Deep == Over(Flat, {Id("x"), L(1)}) \cup Over({Id("y")}, Flat)
          \cup Over(Flat, Over({Id("x")}, {Id("y")}))

Uses(e) == {<<Let("z", e)>>, <<Set("x", e)>>, <<Set("g", e), Let("z", Id("g"))>>}
ExpressionBodies ==
  {<<Let("x", L(a)), Let("y", L(2))>> \o u
     \o <<<<"return", <<"arr", <<Id("x"), Id("z"), Id("g")>>>>>>>> :
       a \in {0, 1}, u \in UNION {Uses(e) : e \in Deep}}

-----------------------------------------------------------------------------
(* Statements in statements; x counts what has been executed, and z fails  *)
(* when it is used as a number.                                            *)

Count == Set("x", Bin("ADD", Id("x"), L(1)))
Fail == Set("z", Bin("DIV", L(1), L(0)))
Leaf == {<<Count>>, <<Fail>>, <<<<"break">>>>, <<<<"continue">>>>, <<<<"throw", Id("x")>>>>,
         <<Let("x", L(3)), <<"return", Id("x")>>>>}
Less(n) == Bin("LT", Id("x"), L(n))
Compound(B, C) ==
  {<<"if", Less(2), b, c>> : b \in B, c \in C}
    \cup {<<"while", Less(3), <<Count>> \o b>> : b \in B}
    \cup {<<"for", "i", <<"arr", <<L(1), L(2)>>>>, b \o <<Count>>>> : b \in B}
    \cup {<<"switch", Id("x"), <<<<<<L(0), L(1)>>, b>>, <<<<L(2)>>, <<Count>>>>>>, c>> :
            b \in B, c \in C}
    \cup {<<"try", b, "e", <<Count>> \o c>> : b \in B, c \in C}
    \cup {<<"block", <<Let("x", Id("x"))>> \o b>> : b \in B}

One(S) == {<<s>> : s \in S}
Level1 == Compound(Leaf, {<<>>, <<Count>>, <<<<"break">>>>})
Level2 == Compound(One(Level1) \cup {<<s, Count>> : s \in Level1}, {<<>>, <<Fail>>})
Level3 == {<<"while", Less(3), <<Count, s>>>> : s \in Level2}
            \cup {<<"for", "i", <<"map", <<K>>, <<L(1)>>>>, <<s, Count>>>> : s \in Level2}
            \cup {<<"try", <<s, Count>>, "e", <<Set("z", Id("e"))>>>> : s \in Level2}

StatementBodies ==
  {<<Let("x", L(0)), s, <<"return", <<"arr", <<Id("x"), Id("z")>>>>>>>> : s \in Level3}

\* What is packed: one value of x, and the statements in a while.
MCPacked ==
  {b \in ExpressionBodies : b[1] = Let("x", L(0)) /\ b[3][1] = "let"}
    \cup {b \in StatementBodies : b[2][1] = "while"}

\* A NOP before every second instruction, dead code before the others.
MCPlans == {<<[nops |-> 1, dead |-> 0], [nops |-> 0, dead |-> 1]>>}

MCBodies == ExpressionBodies \cup StatementBodies
=============================================================================
