------------------------------- MODULE Sources -------------------------------
(***************************************************************************)
(* What comes to the compiler and what leaves it: the texts, the files of  *)
(* a program, and the things of Formats.  One of them is the subject; a    *)
(* text grows a construct at a time, and the files one by one.             *)
(***************************************************************************)
EXTENDS Integers, Sequences, SequencesExt, FiniteSets, Functions, TLC

CONSTANTS MaxExpr, MaxStmt  \* constructs around a leaf or around a statement

VARIABLE subject

Src == INSTANCE SourceText
Link == INSTANCE ModuleLoader
Format == INSTANCE Formats

-----------------------------------------------------------------------------
(* Texts.  The sort of a tree is "expr", "stmt" or "prog".                 *)

Id(x) == <<"id", <<x>>>>
A == Id("a")
Long == <<"str", <<"a", "'", "\"", "\\", "\n", "$">>>>
Leaves ==
  {A, Id("e"), <<"int", 0>>, <<"int", 30>>, <<"float", <<"1", ".", "0">>>>,
   <<"float", <<"1", "e", "-", "3">>>>, <<"str", <<>>>>, Long, <<"key", <<"null">>>>}
Signs ==
  {<<"|", "|">>, <<"&", "&">>, <<"|">>, <<"^">>, <<"&">>, <<"=", "=">>, <<"<">>,
   <<">", "=">>, <<"<", "<">>, <<"+">>, <<"-">>, <<"*">>, <<"/">>}
Stmt(e) == <<"expr", e>>

InExpression(e) ==
  {<<"bin", s, e, A>> : s \in Signs} \cup {<<"bin", s, A, e>> : s \in Signs}
    \cup {<<"un", <<"-">>, e>>, <<"un", <<"!">>, e>>}
    \cup {<<"cond", e, A, A>>, <<"cond", A, e, A>>, <<"cond", A, A, e>>}
    \cup {<<"call", e, <<>>>>, <<"call", A, <<e>>>>, <<"call", A, <<A, e>>>>}
    \cup {<<"index", e, A>>, <<"index", A, e>>, <<"field", e, <<"e">>>>}
    \cup {<<"arr", <<e, A>>>>, <<"arr", <<A, e>>>>}
    \cup {<<"map", <<<<e, A>>>>>>, <<"map", <<<<<<"str", <<"a">>>>, e>>, <<<<"str", <<"\"">>>>, A>>>>>>}
    \cup {<<"fn", <<<<"a">>, <<"e">>>>, <<<<"return", e>>, Stmt(e), <<"return", <<>>>>>>>>}
    \cup {<<"bin", <<"+">>, <<"str", <<"a", "$">>>>, e>>}

InStatement(e) ==
  {Stmt(e), <<"let", <<"a">>, e>>, <<"set", A, e>>, <<"set", <<"index", A, e>>, A>>,
   <<"if", e, <<>>, <<>>>>, <<"while", e, <<Stmt(A)>>>>, <<"for", <<"a">>, e, <<>>>>,
   <<"return", e>>, <<"throw", e>>,
   <<"switch", e, <<<<<<A, e>>, <<Stmt(e)>>>>, <<<<e>>, <<>>>>>>, <<>>>>}

AroundStatement(s) ==
  {<<"if", A, <<s>>, <<>>>>, <<"if", A, <<>>, <<"block", <<s>>>>>>,
   <<"if", A, <<>>, <<"if", A, <<s>>, <<"block", <<>>>>>>>>,
   <<"while", A, <<s, <<"continue">>>>>>, <<"for", <<"e">>, A, <<<<"break">>, s>>>>,
   <<"try", <<s>>, <<"a">>, <<Stmt(A)>>>>, <<"try", <<>>, <<"e">>, <<s, s>>>>,
   <<"switch", A, <<<<<<A>>, <<s, Stmt(A)>>>>>>, <<"block", <<s>>>>>>,
   <<"block", <<Stmt(A), s>>>>, <<"block", <<s, Stmt(<<"arr", <<>>>>)>>>>,
   <<"block", <<s, Stmt(<<"un", <<"-">>, A>>)>>>>,
   Stmt(<<"fn", <<>>, <<s, <<"return", <<>>>>>>>>)}

Programs(s) ==
  {[imports |-> <<<<"names", <<<<"a">>, <<"e">>>>>>, <<"path", <<"a">>, <<>>>>>>,
    funcs |-> <<<<"func", <<"a">>, <<<<"e">>>>, <<s>>>>, <<"func", <<"e">>, <<>>, <<>>>>>>,
    stmts |-> <<s>>],
   [imports |-> <<<<"path", <<"a", ".">>, <<"e">>>>>>, funcs |-> <<>>, stmts |-> <<s, s>>]}

Text(leaf, sort, size, tree) ==
  [part |-> "text", leaf |-> leaf, sort |-> sort, size |-> size, tree |-> tree]
Grown(sort, size, tree) == Text(subject.leaf, sort, size, tree)

GrowExpression ==
  /\ subject.sort = "expr" /\ subject.size < MaxExpr
  /\ subject.size > 0 => subject.leaf \in {A, Long}
  /\ \E t \in InExpression(subject.tree) : subject' = Grown("expr", subject.size + 1, t)
PutInStatement ==
  /\ subject.sort = "expr" /\ (subject.size = 0 \/ (subject.size = 1 /\ subject.leaf = A))
  /\ \E t \in InStatement(subject.tree) : subject' = Grown("stmt", subject.size, t)
GrowStatement ==
  /\ subject.sort = "stmt" /\ subject.size < MaxStmt
  /\ subject.size > 0 => subject.leaf = A /\ subject.tree[1] \notin {"let", "set", "return", "throw"}
  /\ \E t \in AroundStatement(subject.tree) : subject' = Grown("stmt", subject.size + 1, t)
Finish ==
  /\ subject.sort = "stmt" /\ (subject.size = 0 \/ (subject.size = 1 /\ subject.tree[1] # "expr"))
  /\ \E t \in Programs(subject.tree) : subject' = Grown("prog", subject.size, t)
GrowText ==
  /\ subject.part = "text"
  /\ GrowExpression \/ PutInStatement \/ GrowStatement \/ Finish

ProgramOf(s) ==
  CASE s.sort = "expr" -> [imports |-> <<>>, funcs |-> <<>>, stmts |-> <<Stmt(s.tree)>>]
    [] s.sort = "stmt" -> [imports |-> <<>>, funcs |-> <<>>, stmts |-> <<s.tree>>]
    [] s.sort = "prog" -> s.tree
Understood(p, prog) == p.out = prog /\ p.errs = 0
TextReadsBack(prog) ==
  \A style \in {"tight", "loose"} : Understood(Src!Parse(Src!Source(prog, style)), prog)

-----------------------------------------------------------------------------
(* Files: the entry imports up to two, the others one.                     *)

Import(p, a) == [path |-> p, alias |-> a]
Imports ==
  {Import(<<"a">>, ""), Import(<<"b">>, ""), Import(<<"b">>, "a"), Import(<<"x", "a">>, ""),
   Import(<<"sub", "a">>, "h"), Import(<<"e">>, "")}
AtMostOne(S) == {<<>>} \cup {<<i>> : i \in S}
AtMostTwo(S) == AtMostOne(S) \cup {<<i, j>> : i \in S, j \in S}
Entry == <<"home", "e">>
OneFile(path, fs, is) == path :> [funcs |-> fs, imports |-> is]
\* The toolkit lies above its program, above the working directory, or nowhere.
Envs ==
  {[cwd |-> <<"cwd">>, exe |-> <<"opt", "bin">>, lib |-> lib, modules |-> ms, dirs |-> ds] :
     lib \in {<<>>, <<<<"e">>>>, <<<<"home">>, <<"e">>, <<"e">>>>},
     ms \in {{}, {<<"opt">>}, {<<>>}, {<<>>, <<"opt">>}},
     ds \in {{}, {<<"cwd", "stdlib">>, <<"cwd", "samples">>}}}
Root(env) ==
  CASE <<"opt">> \in env.modules -> <<<<"opt">>>>
    [] <<"opt">> \notin env.modules /\ env.dirs # {} -> <<<<"cwd">>>>
    [] <<"opt">> \notin env.modules /\ env.dirs = {} /\ env.modules # {} -> <<<<>>>>
    [] OTHER -> <<>>
Env0 == [cwd |-> <<"cwd">>, exe |-> <<"opt", "bin">>, lib |-> <<>>, modules |-> {<<"opt">>}, dirs |-> {}]
Disk(files) ==
  [cwd |-> Env0.cwd, search |-> Link!DefaultSearchPaths(Entry, Env0), files |-> files]

FirstFile(is, hasMain) ==
  [part |-> "files", whole |-> FALSE,
   files |-> OneFile(Entry, IF hasMain THEN <<"f", "main">> ELSE <<"f">>, is)]
OtherFiles ==
  /\ subject.part = "files" /\ ~subject.whole
  /\ \E a, b \in AtMostOne(Imports), c \in AtMostOne({Import(<<"b">>, "a"), Import(<<"e">>, "")}) :
       subject' = [part |-> "files", whole |-> TRUE,
                   files |-> subject.files @@ OneFile(<<"home", "a">>, <<"f", "main">>, a)
                               @@ OneFile(<<"opt", "stdlib", "b">>, <<"f", "f", "g">>, b)
                               @@ OneFile(<<"cwd", "sub", "a">>, <<"g">>, c)]
-----------------------------------------------------------------------------
Init ==
  \/ \E l \in Leaves : subject = Text(l, "expr", 0, l)
  \/ \E s \in {<<"break">>, <<"return", <<>>>>} : subject = Text(A, "stmt", 0, s)
  \/ \E is \in AtMostTwo(Imports), m \in BOOLEAN : subject = FirstFile(is, m)
  \/ \E env \in Envs, i \in Imports : subject = [part |-> "search", env |-> env, import |-> i]
  \/ \E f \in Format!Subjects : subject = f

Next == GrowText \/ OtherFiles

\* What one side writes, the other reads: a text that is printed from a tree
\* is parsed to that tree, whatever its white space and its escapes; a chunk
\* that is encoded, also in an executable, is decoded, and nothing shorter is,
\* nor behind a stub whose hashed part was changed; obfuscated code does what
\* it did, with the constants it had; tokens expand to their text; numbers
\* written into bytes are found there; a node of the configuration is chosen
\* as the code's comments say, asked for what the client wants, and its answer
\* passed on without its header; and packages give back the files that were
\* put into them.
ReadsBack ==
  CASE subject.part = "text" -> TextReadsBack(ProgramOf(subject))
    [] subject.part \in {"files", "search"} -> TRUE
    [] OTHER -> Format!ReadsBack(subject)

\* The loader ends with a chunk that holds each file of the program once, with
\* main where the chunk says, and with each alias bound to the functions of
\* the file that its import names, or it fails because an import finds no
\* file or the files import each other in a circle.  An alias that means two
\* files in one program means in the entry what its own import names, also
\* against the libraries below it, until an import that is met later takes the
\* alias over; what it means in the libraries is left out.  A library is found
\* in each of the places where it may lie, and in the first of two.
LinksRight ==
  /\ subject.part = "files" /\ subject.whole =>
       Link!Linked(Link!CompileFile(Entry, Disk(subject.files)), Entry, Disk(subject.files))
  /\ subject.part = "search" =>
       Link!FoundInOrder(Entry, subject.import, Root(subject.env), subject.env)
=============================================================================
