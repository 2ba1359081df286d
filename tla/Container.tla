------------------------------ MODULE Container ------------------------------
(***************************************************************************)
(* How a compiled program travels: internal/bytecode (the chunk and its    *)
(* encoding as a .glkb), internal/obfus (with Obfuscator for the code) and  *)
(* internal/packer (the executable with the program in it).                *)
(*                                                                         *)
(* A byte is a number.  A constant is its kind and its value; a float is   *)
(* its eight bytes.  An instruction is its bytes: operation, A, B, C; the  *)
(* number of a constant in B and C together is B + 256 * C.                *)
(***************************************************************************)
EXTENDS Integers, Sequences, SequencesExt, FiniteSets, FiniteSetsExt

Obfus == INSTANCE Obfuscator

Header == [magic |-> <<71, 76, 75, 66>>, version |-> 1]
Kinds == <<"null", "bool", "int", "float", "str", "bytes">>  \* ConstKind, from 0

-----------------------------------------------------------------------------
(* chunk.go: constants are added once each.                                *)

NewChunk(source) ==
  [version |-> Header.version, source |-> source, consts |-> <<>>, protos |-> <<>>, main |-> 0]

\* AddIntConst and its sisters: the chunk, and the number the constant has in it.
Added(c, k) == IF k \in ToSet(c.consts) THEN c ELSE [c EXCEPT !.consts = Append(@, k)]
NumberOf(c, k) ==
  LET at == {i \in DOMAIN c.consts : c.consts[i] = k}
  IN (CHOOSE i \in at : \A j \in at : i <= j) - 1
AddProto(c, p) == [c EXCEPT !.protos = Append(@, p)]

-----------------------------------------------------------------------------
(* serialize.go, Encode.                                                   *)

\* PutUint16, PutUint32 and PutUint64: n bytes of a number, the lowest first.
RECURSIVE Little(_, _)
Little(v, n) == IF n = 0 THEN <<>> ELSE <<v % 256>> \o Little(v \div 256, n - 1)
WithLength(bs) == Little(Len(bs), 4) \o bs

EncodeValue(k) ==
  CASE k[1] = "null" -> <<>>
    [] k[1] = "bool" -> IF k[2] THEN <<1>> ELSE <<0>>
    [] k[1] = "int" -> Little(k[2], 8)
    [] k[1] = "float" -> k[2]
    [] k[1] \in {"str", "bytes"} -> WithLength(k[2])
KindByte(k) == (CHOOSE i \in DOMAIN Kinds : Kinds[i] = k[1]) - 1
EncodeConst(k) == <<KindByte(k)>> \o EncodeValue(k)

EncodeProto(p) ==
  WithLength(p.name) \o <<p.regs, p.params, p.upvals>>
    \o Little(Len(p.code), 4) \o FlattenSeq(p.code)
    \o Little(Len(p.lines), 4) \o FlattenSeq([i \in DOMAIN p.lines |-> Little(p.lines[i], 4)])

Encode(c) ==
  Header.magic \o Little(c.version, 2) \o WithLength(c.source)
    \o Little(Len(c.consts), 4)
    \o FlattenSeq([i \in DOMAIN c.consts |-> EncodeConst(c.consts[i])])
    \o Little(Len(c.protos), 4)
    \o FlattenSeq([i \in DOMAIN c.protos |-> EncodeProto(c.protos[i])])
    \o Little(c.main, 4)
-----------------------------------------------------------------------------
(* Decode.  The reader: the bytes that are left, whether all was well so   *)
(* far, and what it read last.                                             *)

Reader(bs) == [b |-> bs, ok |-> TRUE, v |-> <<>>]
Failed(r) == [r EXCEPT !.ok = FALSE]
Got(r, v) == [r EXCEPT !.v = v]
Then(r, F(_)) == IF r.ok THEN F(r) ELSE r

\* need and bytes.
Take(r, n) ==
  IF ~r.ok \/ n > Len(r.b) THEN Failed(r)
  ELSE [r EXCEPT !.b = SubSeq(@, n + 1, Len(@)), !.v = SubSeq(r.b, 1, n)]

\* The number in the bytes, with a sign or without.
Value(bs, top) == FoldRight(LAMBDA byte, v : (256 * v) + byte, Front(bs), top)
Unsigned(bs) == Value(bs, Last(bs))
Signed(bs) == Value(bs, IF Last(bs) < 128 THEN Last(bs) ELSE Last(bs) - 256)

TakeNumber(r, n) == Then(Take(r, n), LAMBDA t : Got(t, Unsigned(t.v)))
TakeString(r) == Then(TakeNumber(r, 4), LAMBDA n : Take(n, n.v))

DecodeValue(r, kind) ==
  CASE kind = "null" -> Got(r, <<"null", <<>>>>)
    [] kind = "bool" -> Then(Take(r, 1), LAMBDA t : Got(t, <<"bool", t.v # <<0>>>>))
    [] kind = "int" -> Then(Take(r, 8), LAMBDA t : Got(t, <<"int", Signed(t.v)>>))
    [] kind = "float" -> Then(Take(r, 8), LAMBDA t : Got(t, <<"float", t.v>>))
    [] kind \in {"str", "bytes"} -> Then(TakeString(r), LAMBDA t : Got(t, <<kind, t.v>>))
DecodeConst(r) ==
  Then(Take(r, 1), LAMBDA t :
    IF t.v[1] + 1 \in DOMAIN Kinds THEN DecodeValue(t, Kinds[t.v[1] + 1]) ELSE Failed(t))

RECURSIVE Many(_, _, _, _)
DecodeMany(r, kind) == Then(TakeNumber(r, 4), LAMBDA n : Many(n, n.v, kind, <<>>))

DecodeProto(r) ==
  Then(TakeString(r), LAMBDA name :
    Then(Take(name, 3), LAMBDA counts :
      Then(DecodeMany(counts, "ins"), LAMBDA code :
        Then(DecodeMany(code, "line"), LAMBDA lines :
          Got(lines, [name |-> name.v, regs |-> counts.v[1], params |-> counts.v[2],
                      upvals |-> counts.v[3], code |-> code.v, lines |-> lines.v])))))

One(r, kind) ==
  CASE kind = "const" -> DecodeConst(r)
    [] kind = "proto" -> DecodeProto(r)
    [] kind = "ins" -> Take(r, 4)
    [] kind = "line" -> TakeNumber(r, 4)
Many(r, n, kind, done) ==
  IF n = 0 THEN Got(r, done)
  ELSE Then(One(r, kind), LAMBDA t : Many(t, n - 1, kind, Append(done, t.v)))

DecodeBody(r) ==
  Then(TakeNumber(r, 2), LAMBDA version :
    Then(TakeString(version), LAMBDA source :
      Then(DecodeMany(source, "const"), LAMBDA consts :
        Then(DecodeMany(consts, "proto"), LAMBDA protos :
          Then(TakeNumber(protos, 4), LAMBDA main :
            Got(main, [version |-> version.v, source |-> source.v, consts |-> consts.v,
                       protos |-> protos.v, main |-> main.v]))))))
Decode(bs) ==
  IF Len(bs) < 8 \/ SubSeq(bs, 1, 4) # Header.magic THEN Failed(Reader(bs))
  ELSE DecodeBody(Reader(SubSeq(bs, 5, Len(bs))))
-----------------------------------------------------------------------------
(* obfus.go: shuffleConsts.  limit is 256: the constants that B or C alone *)
(* can number.  perm[i] is the old number of the constant that gets i.     *)

ByBx == {"LOADK", "LOADF", "LOADG", "STOREG", "IMPORT"}
ByB == {"SETK", "ASSERT"}
ByC == {"GETK"}
NewNumber(perm, old) == CHOOSE i \in DOMAIN perm : perm[i] = old

\* The operand as it is read: a number of a constant, if there is one.
Operand(i) ==
  CASE i.op \in ByBx -> i.b + (256 * i.c)
    [] i.op \in ByB -> i.b
    [] i.op \in ByC -> i.c
    [] OTHER -> -1
Renumbered(i, k) ==
  CASE i.op \in ByBx -> [i EXCEPT !.b = k % 256, !.c = k \div 256]
    [] i.op \in ByB -> [i EXCEPT !.b = k]
    [] i.op \in ByC -> [i EXCEPT !.c = k]

\* Mistake: names of globals keep the numbers they had.
RemapKeepsGlobals(i, perm) ==
  IF Operand(i) \in DOMAIN perm /\ i.op \notin {"LOADG", "STOREG"}
  THEN Renumbered(i, NewNumber(perm, Operand(i))) ELSE i
Remap(i, perm) ==
  IF Operand(i) \in DOMAIN perm THEN Renumbered(i, NewNumber(perm, Operand(i))) ELSE i

\* Every instruction that has one byte for its constant must reach the new place.
Fits(codes, perm, limit) ==
  \A code \in ToSet(codes) : \A i \in ToSet(code) :
    i.op \in ByB \cup ByC /\ Operand(i) \in DOMAIN perm
      => NewNumber(perm, Operand(i)) < limit

\* The constants and the codes of all functions.
ShuffleConsts(prog, perm, limit) ==
  IF Len(prog.consts) <= 1 \/ ~Fits(prog.codes, perm, limit) THEN prog
  ELSE [consts |-> [i \in DOMAIN prog.consts |-> prog.consts[perm[i - 1] + 1]],
        codes |-> [f \in DOMAIN prog.codes |->
                     [j \in DOMAIN prog.codes[f] |-> Remap(prog.codes[f][j], perm)]]]

\* Apply, on a chunk whose instructions are records.  drawn: the bogus
\* constants, the names, the permutations and the plan for the code.
Options == [strip : BOOLEAN, bogus : BOOLEAN, shuffle : BOOLEAN, nops : BOOLEAN]
Default == [strip |-> TRUE, bogus |-> TRUE, shuffle |-> TRUE, nops |-> TRUE]
\* pack.go: options that say next to nothing mean the default.
Effective(opt) == IF ~opt.nops /\ ~opt.shuffle /\ ~opt.strip THEN Default ELSE opt

\* The main function is known by its number and needs no name.
Stripped(c, drawn) ==
  [c EXCEPT !.source = "g",
            !.protos = [i \in DOMAIN c.protos |->
              [c.protos[i] EXCEPT !.name = IF i - 1 = c.main THEN "" ELSE drawn.names[i],
                                  !.lines = <<>>]]]
PadBogusConsts(c, drawn) == [c EXCEPT !.consts = @ \o drawn.bogus]
Shuffled(c, drawn, limit) ==
  LET codes == [i \in DOMAIN c.protos |-> c.protos[i].code]
      prog == ShuffleConsts([consts |-> c.consts, codes |-> codes], drawn.perm[Len(c.consts)], limit)
  IN [c EXCEPT !.consts = prog.consts,
               !.protos = [i \in DOMAIN c.protos |-> [c.protos[i] EXCEPT !.code = prog.codes[i]]]]

Bare == <<[nops |-> 0, dead |-> 0]>>
ExpandProto(p, plan) ==
  IF p.code = <<>> THEN [p EXCEPT !.lines = <<>>]
  ELSE [p EXCEPT !.code = Obfus!Expand(p.code, plan), !.lines = <<>>,
                 !.regs = IF @ < 8 THEN 8 ELSE @]

\* Step of what the options say, in this order; the code is expanded always.
When(b, c, d) == IF b THEN d ELSE c
Apply(c, opt, drawn, limit) ==
  LET c1 == When(opt.strip, c, Stripped(c, drawn))
      c2 == When(opt.bogus, c1, PadBogusConsts(c1, drawn))
      c3 == When(opt.shuffle, c2, Shuffled(c2, drawn, limit))
      plan == IF opt.nops THEN drawn.plan ELSE Bare
  IN [c3 EXCEPT !.protos = [i \in DOMAIN @ |-> ExpandProto(@[i], plan)]]
-----------------------------------------------------------------------------
(* packer.  The cipher and the hash are external: a cipher text is one     *)
(* that only its key and nonce open, and different bytes have different    *)
(* hashes.  Of a stub only its first HashedLength bytes are hashed.        *)
(* The trailer is one record in the place of its 88 bytes.                 *)

Seal(plain, key, nonce) == [i \in 1 .. Len(plain) + 1 |-> <<"sealed", i, plain, key, nonce>>]
Unseal(bs, key, nonce) ==
  IF bs # <<>> /\ bs[1][1] = "sealed" /\ bs = Seal(bs[1][3], key, nonce)
  THEN [ok |-> TRUE, v |-> bs[1][3]] ELSE [ok |-> FALSE, v |-> <<>>]

HashedLength == 2  \* 1 << 20 in the code

\* StubHash and WrapKey: a sum is the set of its terms; a term added twice is gone.
StubHash(stub) == <<"hash", SubSeq(stub, 1, Min({Len(stub), HashedLength}))>>
Xor(S, x) == (S \ {x}) \cup ({x} \ S)
WrapKey(key, stub) == Xor(key, StubHash(stub))
UnwrapKey(blob, stub) == Xor(blob, StubHash(stub))

Trailer(stub, ct, key, nonce) ==
  <<"trailer", Len(stub), Len(ct), nonce, WrapKey(key, stub)>>
BuildExe(stub, ct, key, nonce) == stub \o ct \o <<Trailer(stub, ct, key, nonce)>>

PayloadOf(exe, tr) == SubSeq(exe, tr[2] + 1, tr[2] + tr[3])
ExtractPayload(exe) ==
  IF exe = <<>> \/ Last(exe)[1] # "trailer" \/ Last(exe)[2] + Last(exe)[3] > Len(exe) - 1
  THEN [ok |-> FALSE, v |-> <<>>]
  ELSE Unseal(PayloadOf(exe, Last(exe)), UnwrapKey(Last(exe)[5], SubSeq(exe, 1, Last(exe)[2])),
              Last(exe)[4])
=============================================================================
