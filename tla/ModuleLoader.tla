---------------------------- MODULE ModuleLoader ----------------------------
(***************************************************************************)
(* internal/module/loader.go and the linking part of compiler.Compile: an  *)
(* entry file and the libraries that it imports, directly or not, become   *)
(* the functions of one chunk, and main starts by binding each alias to    *)
(* the functions of a library.                                             *)
(*                                                                         *)
(* A file is its path, a sequence of names from the root; the last name is *)
(* the stem.  What a file contains is a record: funcs, the names of its    *)
(* functions in their order, and imports, each with the path as written    *)
(* and its alias or "".                                                    *)
(***************************************************************************)
EXTENDS Integers, Sequences, SequencesExt, Functions, TLC

Dir(f) == Front(f)
Stem(f) == Last(f)

\* What is done with a result that is no error.
Then(ld, F(_)) == IF ld.error = "" THEN F(ld) ELSE ld
Fail(ld, why) == [ld EXCEPT !.error = why]

\* The loader: stack and compiled as in the code, the functions of the chunk
\* in their order, the imports collected for main, and main's number.
Loader0 ==
  [stack |-> {}, compiled |-> <<>>, protos |-> <<>>, setups |-> <<>>, main |-> -1,
   bound |-> <<>>, error |-> ""]

\* Where libraries are looked for.  env says where the process runs (cwd), where
\* the program lies (exe), what GLTK_LIB lists (lib), which directories have the
\* go.mod of the toolkit (modules), and which directories there are (dirs).
IsGLTKRoot(d, env) == d \in env.modules \/ {Append(d, "stdlib"), Append(d, "samples")} \subseteq env.dirs
Upwards(d) == [i \in 1 .. Len(d) + 1 |-> SubSeq(d, 1, Len(d) + 1 - i)]
\* Beside the program, above it, then from the working directory upwards.
FindGLTKRoot(env) ==
  LET above == IF env.exe = <<>> THEN <<>> ELSE Front(env.exe)
  IN SelectSeq(<<env.exe, above>> \o Upwards(env.cwd), LAMBDA d : IsGLTKRoot(d, env))
\* Each once, at its first place; also one that does not exist.
DefaultSearchPaths(entry, env) ==
  LET root == FindGLTKRoot(env)
      named == <<Dir(entry), Append(env.cwd, "lib"), Append(env.cwd, "libs")>>
                 \o (IF root = <<>> THEN <<>>
                     ELSE <<Append(root[1], "stdlib"), Append(root[1], "libs")>>)
                 \o env.lib \o <<env.cwd>>
  IN FoldLeft(LAMBDA ps, p : IF p \in ToSet(ps) THEN ps ELSE Append(ps, p), <<>>, named)

\* resolve: beside the importing file, from the working directory, then in each
\* search path, as it is written and by its last name alone.  An absolute path,
\* which is looked up as it is, is left out.
Candidates(path, dir, disk) ==
  <<dir \o path, disk.cwd \o path>>
    \o FlattenSeq([i \in DOMAIN disk.search |->
                     <<disk.search[i] \o path, Append(disk.search[i], Last(path))>>])
Resolve(path, dir, disk) ==
  SelectSeq(Candidates(path, dir, disk), LAMBDA f : f \in DOMAIN disk.files)

-----------------------------------------------------------------------------
(* compiler.Compile, as far as it links.                                   *)

\* A library has no main.
Own(funcs, isLib) == IF isLib THEN SelectSeq(funcs, LAMBDA x : x # "main") ELSE funcs
Proto(f, x, isLib) ==
  [name |-> IF isLib THEN <<"lib", Stem(f), x>> ELSE <<x>>, file |-> f, func |-> x]

\* What a file exports: the number of each of its functions but main; of two
\* with one name, of the last.
LastOf(funcs, x) ==
  CHOOSE i \in DOMAIN funcs :
    funcs[i] = x /\ \A j \in DOMAIN funcs : funcs[j] = x => j <= i
Exports(funcs, base) ==
  [x \in ToSet(funcs) \ {"main"} |-> base + LastOf(funcs, x) - 1]

AddProtos(ld, f, funcs, isLib) ==
  [ld EXCEPT !.protos = @ \o [i \in DOMAIN funcs |-> Proto(f, funcs[i], isLib)]]

CompileLibrary(ld, f, funcs) ==
  [AddProtos(ld, f, funcs, TRUE) EXCEPT !.compiled = (f :> Exports(funcs, Len(ld.protos))) @@ @]

\* Mistake: the first one stays.
KeepsFirst(setups) ==
  FoldLeft(LAMBDA out, s :
             IF \E i \in DOMAIN out : out[i].alias = s.alias THEN out ELSE Append(out, s),
           <<>>, setups)

\* mergeSetups: of the imports with one alias the last one, in the first one's place.
Merge(setups) ==
  FoldLeft(LAMBDA out, s :
             IF \E i \in DOMAIN out : out[i].alias = s.alias
             THEN [i \in DOMAIN out |-> IF out[i].alias = s.alias THEN s ELSE out[i]]
             ELSE Append(out, s),
           <<>>, setups)

\* emitPathImports: the aliases that main binds, from the first to the last.
BoundBy(setups) ==
  FoldLeft(LAMBDA b, s : (s.alias :> s.exports) @@ b, <<>>, setups)

\* A main is made when there is none, behind the entry's functions.
WithMain(funcs) == IF "main" \in ToSet(funcs) THEN funcs ELSE Append(funcs, "main")
CompileEntry(ld, f, funcs) ==
  [AddProtos(ld, f, WithMain(funcs), FALSE) EXCEPT
     !.main = Len(ld.protos) + LastOf(WithMain(funcs), "main") - 1,
     !.bound = BoundBy(Merge(ld.setups))]
-----------------------------------------------------------------------------
(* compileUnit.                                                            *)

\* Mistake: a library is compiled for each of its imports.
NeverDone(ld, f) == FALSE
Done(ld, f) == f \in DOMAIN ld.compiled

Compiled(ld, f, isLib, disk) ==
  IF isLib THEN CompileLibrary(ld, f, Own(disk.files[f].funcs, TRUE))
  ELSE CompileEntry(ld, f, disk.files[f].funcs)
Left(ld, f) == [ld EXCEPT !.stack = @ \ {f}]

AliasOf(import, f) == IF import.alias = "" THEN Stem(f) ELSE import.alias
Collected(ld, import, f) ==
  [ld EXCEPT !.setups = Append(@, [alias |-> AliasOf(import, f), exports |-> ld.compiled[f]])]

RECURSIVE CompileUnit(_, _, _, _), ImportAll(_, _, _, _)

ImportFrom(ld, import, found, disk) ==
  IF found = <<>> THEN Fail(ld, "cannot resolve")
  ELSE Then(CompileUnit(ld, Head(found), TRUE, disk), LAMBDA l :
         Collected(l, import, Head(found)))
ImportAll(ld, imports, dir, disk) ==
  IF imports = <<>> THEN ld
  ELSE Then(ImportFrom(ld, Head(imports), Resolve(Head(imports).path, dir, disk), disk),
            LAMBDA l : ImportAll(l, Tail(imports), dir, disk))

CompileUnit(ld, f, isLib, disk) ==
  IF f \in ld.stack THEN Fail(ld, "cycle")
  ELSE IF isLib /\ Done(ld, f) THEN ld
  ELSE Then(ImportAll([ld EXCEPT !.stack = @ \cup {f}], disk.files[f].imports, Dir(f), disk),
            LAMBDA l : Left(Compiled(l, f, isLib, disk), f))

\* CompileFile.
CompileFile(f, disk) == CompileUnit(Loader0, f, FALSE, disk)
-----------------------------------------------------------------------------
(* What linking is for, from the files alone.                              *)

Target(import, f, disk) == Head(Resolve(import.path, Dir(f), disk))
Found(import, f, disk) == Resolve(import.path, Dir(f), disk) # <<>>

\* The files that f needs, and the imports that are written in any of them.
Direct(f, disk) ==
  {Target(i, f, disk) : i \in {j \in ToSet(disk.files[f].imports) : Found(j, f, disk)}}
Needs(F, disk) == F \cup UNION {Direct(f, disk) : f \in F}
RECURSIVE Reach(_, _)
Reach(F, disk) == IF Needs(F, disk) = F THEN F ELSE Reach(Needs(F, disk), disk)
Needed(f, disk) == Reach({f}, disk)

Loadable(f, disk) ==
  /\ \A g \in Needed(f, disk) : g \notin Reach(Direct(g, disk), disk)
  /\ \A g \in Needed(f, disk) : \A i \in ToSet(disk.files[g].imports) : Found(i, g, disk)

\* Two imports under one alias that mean different files.
Ambiguous(alias, f, disk) ==
  \E g, h \in Needed(f, disk) :
    \E i \in ToSet(disk.files[g].imports), j \in ToSet(disk.files[h].imports) :
      /\ AliasOf(i, Target(i, g, disk)) = alias /\ AliasOf(j, Target(j, h, disk)) = alias
      /\ Target(i, g, disk) # Target(j, h, disk)

\* What alias.x is in a file g after main has started: the function x of the
\* file that g imports under that name.
Means(ld, import, g, disk) ==
  \A x \in ToSet(disk.files[Target(import, g, disk)].funcs) \ {"main"} :
    LET p == ld.protos[ld.bound[AliasOf(import, Target(import, g, disk))][x] + 1]
    IN p.file = Target(import, g, disk) /\ p.func = x

\* The functions of a file that belong in the chunk, main made up if need be.
Wanted(g, f, disk) ==
  IF g # f THEN Own(disk.files[g].funcs, TRUE) ELSE WithMain(disk.files[g].funcs)
\* The chunk holds each file of the program once.
EachOnce(ld, f, disk) ==
  /\ \A p \in ToSet(ld.protos) : p.file \in Needed(f, disk)
  /\ \A g \in Needed(f, disk) :
       LET of == SelectSeq(ld.protos, LAMBDA p : p.file = g)
       IN [i \in DOMAIN of |-> of[i].func] = Wanted(g, f, disk)

\* An import of the entry whose alias no import uses that is met for the first
\* time behind it, be it of the entry or of a file that only then is needed.
NotTakenOver(k, f, disk) ==
  LET is == disk.files[f].imports
      alias == AliasOf(is[k], Target(is[k], f, disk))
      met(n) == Reach({Target(is[i], f, disk) : i \in 1 .. n}, disk)
  IN /\ \A i \in k + 1 .. Len(is) : AliasOf(is[i], Target(is[i], f, disk)) # alias
     /\ \A g \in met(Len(is)) \ met(k) : \A i \in ToSet(disk.files[g].imports) :
          AliasOf(i, Target(i, g, disk)) # alias

\* A library that lies in two of the places is taken from the earlier one: beside
\* the file, then the lib and libs of the working directory, the stdlib and libs
\* of the toolkit, and the directories of GLTK_LIB; in all of them it may also lie
\* without the directories of its import.  It is found in the working directory
\* when it lies there only: which turn that has is not said, since resolve tries
\* it second and DefaultSearchPaths lists it last.
FoundInOrder(entry, import, root, env) ==
  LET cwd == env.cwd
      places == <<Dir(entry), Append(cwd, "lib"), Append(cwd, "libs")>>
                  \o (IF root = <<>> THEN <<>>
                      ELSE <<Append(root[1], "stdlib"), Append(root[1], "libs")>>)
                  \o env.lib
      disk(fs) == [cwd |-> cwd, search |-> DefaultSearchPaths(entry, env),
                   files |-> [f \in fs |-> [funcs |-> <<>>, imports |-> <<>>]]]
      found(fs) == Resolve(import.path, Dir(entry), disk(fs))
  IN /\ \A i, j \in DOMAIN places :
          i <= j /\ (\A k \in 1 .. i - 1 : places[k] \notin {places[i], places[j]}) =>
            LET fs == {places[i] \o import.path, places[j] \o import.path}
            IN Head(found(fs)) = places[i] \o import.path
     /\ \A d \in ToSet(places) \cup {cwd} :
          \A f \in {d \o import.path, Append(d, Last(import.path))} : Head(found({f})) = f

Linked(ld, f, disk) ==
  /\ (ld.error = "") = Loadable(f, disk)
  /\ ld.error = "" =>
       /\ EachOnce(ld, f, disk) /\ ld.protos[ld.main + 1] = Proto(f, "main", FALSE)
       /\ \A g \in Needed(f, disk) : \A i \in ToSet(disk.files[g].imports) :
            ~Ambiguous(AliasOf(i, Target(i, g, disk)), f, disk) => Means(ld, i, g, disk)
       /\ \A k \in DOMAIN disk.files[f].imports :
            NotTakenOver(k, f, disk) => Means(ld, disk.files[f].imports[k], f, disk)
=============================================================================
