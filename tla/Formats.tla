------------------------------- MODULE Formats -------------------------------
(***************************************************************************)
(* The formats that one part of the program writes and another reads, on   *)
(* bounded subjects: chunks and executables, obfuscated code, tokens,      *)
(* bytes, the proxy's configuration, request and response, and packages.   *)
(***************************************************************************)
EXTENDS Integers, Sequences, SequencesExt, FiniteSets, Functions, TLC

Box == INSTANCE Container
Tok == INSTANCE Tokenizer
Byte == INSTANCE ByteOps
Wire == INSTANCE ClashWire
Pack == INSTANCE Packages

-----------------------------------------------------------------------------
(* Chunks and executables.                                                 *)

AChar == <<97, 0>>
Constants ==
  {<<"null", <<>>>>, <<"bool", TRUE>>, <<"int", 0>>, <<"int", 255>>, <<"int", -1>>,
   <<"int", -70000>>, <<"float", <<0, 0, 0, 0, 0, 0, 240, 63>>>>, <<"str", <<>>>>,
   <<"str", AChar>>, <<"bytes", AChar>>}
Second == {<<"null", <<>>>>, <<"bool", FALSE>>, <<"str", AChar>>}
AProto(code, lines) ==
  [name |-> AChar, regs |-> 255, params |-> 1, upvals |-> 0, code |-> code, lines |-> lines]
Protos ==
  {<<>>, <<AProto(<<>>, <<>>)>>,
   <<AProto(<<<<1, 2, 255, 0>>, <<3, 0, 0, 0>>>>, <<300, 7>>), AProto(<<>>, <<1>>)>>}
Chunks ==
  {[FoldLeft(Box!Added, FoldLeft(Box!AddProto, Box!NewChunk(AChar), ps), ks) EXCEPT !.main = m] :
     ps \in Protos, ks \in {<<>>} \cup {<<k, l>> : k \in Constants, l \in Second}, m \in {0, 1}}

ChunkReadsBack(c) ==
  LET bs == Box!Encode(c)
  IN /\ Box!Decode(bs).ok /\ Box!Decode(bs).v = c
     /\ \A n \in 0 .. Len(bs) - 1 : ~Box!Decode(SubSeq(bs, 1, n)).ok

\* Packed with a stub, the program opens behind that stub.  Behind one that was
\* changed it does not, if the change is in the part that is hashed; a change
\* beyond that part goes unnoticed.
Key == {<<"key", 0>>}
Stubs == {[i \in 1 .. n |-> <<"stub", i>>] : n \in 0 .. Box!HashedLength + 1}
Exe(stub, c) == Box!BuildExe(stub, Box!Seal(Box!Encode(c), Key, "nonce"), Key, "nonce")
Changed(exe, i) == [exe EXCEPT ![i] = <<"stub", 0>>]
Opens(exe, c) ==
  Box!ExtractPayload(exe).ok /\ Box!Decode(Box!ExtractPayload(exe).v).v = c
ExeReadsBack(stub, c) ==
  /\ Opens(Exe(stub, c), c)
  /\ \A i \in DOMAIN stub :
       IF i <= Box!HashedLength THEN ~Box!ExtractPayload(Changed(Exe(stub, c), i)).ok
       ELSE Opens(Changed(Exe(stub, c), i), c)
  /\ ~Box!ExtractPayload(stub).ok

-----------------------------------------------------------------------------
(* Obfuscation, on a chunk of two functions.                               *)

Ins(op, a, b, c) == [op |-> op, a |-> a, b |-> b, c |-> c]
Instructions ==
  {Ins(op, 0, k, 0) : op \in {"LOADK", "STOREG", "SETK", "MOVE"}, k \in 0 .. 2}
    \cup {Ins("GETK", 0, 9, k) : k \in 0 .. 2}
    \cup {Ins("JMP", 0, 0, 0), Ins("JT", 1, -2, 0), Ins("JT", 1, 1, 0), Ins("JF", 2, 0, 0)}
Proto(name, code) ==
  [name |-> name, regs |-> 3, lines |-> <<1>>, code |-> code \o <<Ins("RETN", 0, 0, 0), Ins("RETN", 1, 0, 0)>>]
TwoFunctions(i, j) ==
  [source |-> "s", consts |-> <<"k0", "k1", "k2">>, main |-> 1,
   protos |-> <<Proto("f", <<Ins("NOP", 0, 0, 0), i, j>>), Proto("main", <<Ins("NOP", 0, 0, 0), j>>)>>]

Permutation(n) == {[i \in 0 .. n - 1 |-> p[i + 1] - 1] : p \in Permutations(1 .. n)}
Turned(n, by) == [i \in 0 .. n - 1 |-> (i + by) % n]
Draws ==
  {[bogus |-> <<"b0", "b1">>, names |-> <<"n0", "n1">>,
    perm |-> [n \in 0 .. 5 |-> IF n = 3 THEN p ELSE Turned(n, p[0])], plan |-> plan] :
     p \in Permutation(3), plan \in {<<[nops |-> 2, dead |-> 0], [nops |-> 0, dead |-> 2]>>}}

\* The first instruction from pc on that does something, and what it does,
\* with the constant it finds; then what follows it and what it jumps to.
RECURSIVE Landing(_, _, _)
Landing(code, pc, n) ==
  IF n = 0 \/ pc \notin DOMAIN code THEN 0
  ELSE CASE code[pc].op = "NOP" -> Landing(code, pc + 1, n - 1)
         [] code[pc].op = "JMP" -> Landing(code, pc + 1 + code[pc].b, n - 1)
         [] OTHER -> pc
Found(i, consts) ==
  CASE i.op \in {"JT", "JF"} -> <<i.op, i.a>>
    [] Box!Operand(i) # -1 -> <<i.op, i.a, consts[Box!Operand(i) + 1]>>
    [] OTHER -> <<i.op, i.a, i.b, i.c>>
RECURSIVE Unfolded(_, _, _, _)
Unfolded(code, consts, pc, depth) ==
  LET at == Landing(code, pc, 12)
  IN IF depth = 0 \/ at = 0 THEN <<>>
     ELSE <<Found(code[at], consts)>>
            \o (IF code[at].op = "RETN" THEN <<>>
                ELSE <<Unfolded(code, consts, at + 1, depth - 1)>>)
            \o (IF code[at].op \notin {"JT", "JF"} THEN <<>>
                ELSE <<Unfolded(code, consts, at + 1 + code[at].b, depth - 1)>>)

ObfuscationKeeps(c) ==
  \A opt \in Box!Options, drawn \in Draws, limit \in {2, 256} :
    LET h == Box!Apply(c, Box!Effective(opt), drawn, limit)
    IN /\ h.main = c.main /\ DOMAIN h.protos = DOMAIN c.protos
       /\ \A f \in DOMAIN c.protos :
            /\ h.protos[f].regs >= c.protos[f].regs
            /\ Unfolded(h.protos[f].code, h.consts, 1, 4) = Unfolded(c.protos[f].code, c.consts, 1, 4)

-----------------------------------------------------------------------------
(* Tokens, bytes, and the proxy.                                           *)

Texts == UNION {[1 .. n -> {1, 2}] : n \in 0 .. 5}
Words == UNION {[1 .. n -> {0, 255}] : n \in 0 .. 4}
Parts == {<<0>>, <<255, 0>>, <<255, 0, 255>>}
Packed == {<<>>, <<1>>, <<1, 2, 3, 4>>, <<1, 2, 3, 4, 5>>}

Entries ==
  [style : {"long", "other", "short"}, net : {"tcp", "ws"}, flaw : {"none"},
   named : {TRUE}, name : {"n"}]
    \cup [style : {"long", "short"}, net : {"tcp", "grpc"}, flaw : {"none", "flow", "reality", "no port"},
          named : BOOLEAN, name : {"m"}]
Selections == {<<<<>>, "">>, <<<<-1>>, "n">>, <<<<0>>, "">>, <<<<1>>, "">>, <<<<1>>, "n">>}
Ports ==
  {<<<<>>, 10808>>, <<[port |-> Wire!Num(5)], 5>>,
   <<("socks-port" :> Wire!Num(0)) @@ ("mixed-port" :> Wire!Text("9")), 9>>,
   <<("socks-port" :> Wire!Text("x")) @@ ("mixed-port" :> Wire!Num(9)) @@ [port |-> Wire!Num(5)], 5>>}

Uuid == [i \in 1 .. 16 |-> i]
Targets ==
  {<<"ip4", <<1, 2, 3, 4>>>>, <<"ip6", Uuid>>, <<"name", <<7>>>>, <<"name", <<7, 2, 3>>>>}

-----------------------------------------------------------------------------
(* Packages.  The names are a.t, /a.t, a-1.t, a, a/b, .. and none.         *)

FileNames ==
  {<<97, 46, 116>>, <<47, 97, 46, 116>>, <<97, 45, 49, 46, 116>>, <<97>>, <<97, 47, 98>>, <<46, 46>>, <<>>}
File(name, body) == [name |-> name, body |-> body]
Body1 == <<2, 190>>
FileLists ==
  {<<>>} \cup {<<File(n, b), File(m, Body1)>> : n, m \in FileNames, b \in {<<>>, <<1>>}}
    \cup {<<File(n, Body1), File(m, <<1>>), File(m, <<>>)>> : n, m \in FileNames}
Wxids == {<<<<119, 120, 49>>, <<119, 121, 49>>>>, <<<<9>>, <<1>>>>}

Laid == {<<>>, <<<<"a">>>>, <<<<"d", "b">>, <<"d", "a">>, <<"a">>>>}
Bodies(laid) == [{laid[i] : i \in DOMAIN laid} -> {<<>>, <<5>>, <<6, 123, 34>>}]

-----------------------------------------------------------------------------
Subjects ==
  [part : {"chunk"}, chunk : Chunks]
    \cup {[part |-> "code", chunk |-> TwoFunctions(i, j)] : i, j \in Instructions}
    \cup [part : {"tokens"}, text : Texts, rounds : 0 .. 3]
    \cup [part : {"bytes"}, bytes : Words, other : Parts]
    \cup [part : {"config"}, entries : {<<>>} \cup (Entries \X Entries)]
    \cup [part : {"wxapkg"}, files : FileLists]
    \cup UNION {[part : {"asar"}, laid : {laid}, bodies : Bodies(laid), beside : {{}, {<<"u">>}, {<<"d", "u">>}},
                 framing : {"pickle", "length", "bare"}] : laid \in Laid}
    \cup [part : {"request"}, target : Targets, port : {0, 255, 256, 65535}, payload : {<<>>, <<3, 9>>}]
    \cup [part : {"response"}, addon : {<<>>, <<5>>, <<5, 0>>}, cuts : SUBSET (1 .. 5)]

ReadsBack(s) ==
  CASE s.part = "chunk" ->
         ChunkReadsBack(s.chunk) /\ \A stub \in Stubs : ExeReadsBack(stub, s.chunk)
    [] s.part = "code" -> ObfuscationKeeps(s.chunk)
    [] s.part = "tokens" ->
         \A other \in {<<1, 1, 1, 2>>, <<2, 1, 2, 1, 1>>} : Tok!Tokenized(s.text, other, s.rounds)
    [] s.part = "bytes" ->
         /\ Byte!SwapAndFind(s.bytes, s.other)
         /\ \A off \in 0 .. 5, x \in Packed : Byte!NumberReadBack(s.bytes, off, x)
    [] s.part = "config" ->
         \A c \in Selections, p \in Ports : Wire!ConfigRead(s.entries, c[1], c[2], p[1], p[2])
    [] s.part = "wxapkg" -> \A id \in Wxids : Pack!PackageRead(s.files, id[1], id[2])
    [] s.part = "asar" -> Pack!AsarRight(s.bodies, s.laid, s.beside, s.framing)
    [] s.part = "request" -> Wire!RequestRead(Uuid, s.target, s.port, s.payload)
    [] s.part = "response" ->
         \A data \in {<<8>>, <<8, 1, 0>>} : Wire!ResponseDropped(s.addon, data, s.cuts)
=============================================================================
