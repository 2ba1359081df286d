------------------------------ MODULE Packages ------------------------------
(***************************************************************************)
(* Two kinds of packages that the toolkit reads and unpacks: wxapkg        *)
(* (internal/wxapkg) and asar (internal/native/asar.go).  A package is a   *)
(* sequence of bytes.  The beautifying of JSON files and the search for    *)
(* packages in directories are left out.                                   *)
(***************************************************************************)
EXTENDS Integers, Sequences, SequencesExt, FiniteSets, FiniteSetsExt, Functions, Bitwise, TLC

Cut(bs, from, size) == SubSeq(bs, from + 1, from + size)
BigEndian(bs) == FoldLeft(LAMBDA n, b : 256 * n + b, 0, bs)

-----------------------------------------------------------------------------
(* wxapkg.  A word is four bytes, the highest first.                       *)

IsDecrypted(data) == Len(data) >= 14 /\ data[1] = 190 /\ data[14] = 237

\* The cipher is external: an enciphered byte is a number that tells its key,
\* and only that key opens it.  Its blocks are Block long.
Block == 4
Prefix == 6
Enciphered(b, wxid) == 256 * (1 + BigEndian(wxid)) + b
Opened(cell, wxid) == IF cell \div 256 = 1 + BigEndian(wxid) THEN cell % 256 ELSE cell
XorKey(wxid) == IF Len(wxid) >= 2 THEN wxid[Len(wxid) - 1] ELSE 102

\* Mistake: the whole block is kept, also its last byte.
KeepsBlock(data, wxid) ==
  [i \in 1 .. Len(data) - Prefix |->
     IF i <= Block THEN Opened(data[Prefix + i], wxid) ELSE data[Prefix + i] ^^ XorKey(wxid)]
\* The last byte of the block is not kept.
Decrypt(data, wxid) ==
  [i \in 1 .. Len(data) - Prefix - 1 |->
     IF i < Block THEN Opened(data[Prefix + i], wxid) ELSE data[Prefix + i + 1] ^^ XorKey(wxid)]

NoWord == -1
ReadWord(bs, at) == IF at + 4 <= Len(bs) THEN BigEndian(Cut(bs, at, 4)) ELSE NoWord
\* A field that is cut off is read as 0.
Field(bs, at) == IF ReadWord(bs, at) = NoWord THEN 0 ELSE ReadWord(bs, at)

Char == [minus |-> 45, dot |-> 46, slash |-> 47, zero |-> 48, backslash |-> 92]
Limits == [count |-> 102400, name |-> 1024, size |-> 10485760]

\* A name that was seen gets a number before its last dot.
Numbered(base, j) ==
  LET dots == {i \in DOMAIN base : base[i] = Char.dot}
      at == IF dots = {} THEN Len(base) ELSE Max(dots) - 1
  IN Cut(base, 0, at) \o <<Char.minus, Char.zero + j>> \o Cut(base, at, Len(base) - at)
Unseen(base, seen) ==
  IF base \notin seen THEN base
  ELSE Numbered(base, Min({j \in 1 .. Cardinality(seen) + 1 : Numbered(base, j) \notin seen}))

NoIndex == [ok |-> FALSE, entries |-> <<>>]
\* What follows the length of a name: the name, the offset and the size.
EntryAt(bs, at, n, seen) ==
  [name |-> Unseen(Cut(bs, at, n), seen), offset |-> Field(bs, at + n), size |-> Field(bs, at + n + 4)]
Readable(bs, at, n) == n # NoWord /\ n <= Limits.name /\ at + n <= Len(bs)
RECURSIVE Index(_, _, _, _)
IndexWith(bs, at, left, entries, e) ==
  IF e.size > Limits.size THEN NoIndex ELSE Index(bs, at, left - 1, Append(entries, e))
IndexNext(bs, at, left, entries, n) ==
  IF ~Readable(bs, at, n) THEN NoIndex
  ELSE IndexWith(bs, at + n + 8, left, entries,
                 EntryAt(bs, at, n, {entries[i].name : i \in DOMAIN entries}))
Index(bs, at, left, entries) ==
  IF left = 0 THEN [ok |-> TRUE, entries |-> entries]
  ELSE IndexNext(bs, at + 4, left, entries, ReadWord(bs, at))
ParseIndex(data) ==
  IF Len(data) < 18 \/ ~IsDecrypted(data) \/ ReadWord(data, 14) > Limits.count THEN NoIndex
  ELSE Index(data, 18, ReadWord(data, 14), <<>>)

\* A file cannot lie in another, nor where a directory is.
Blocked(path, disk) ==
  \E q \in DOMAIN disk : IsPrefix(q \o <<Char.slash>>, path) \/ IsPrefix(path \o <<Char.slash>>, q)
TrimPrefix(name, c) == IF name # <<>> /\ name[1] = c THEN Tail(name) ELSE name
RelName(name) == TrimPrefix(TrimPrefix(name, Char.slash), Char.backslash)
Unsafe(path) == path = <<>> \/ \E i \in 1 .. Len(path) - 1 : {path[i], path[i + 1]} = {Char.dot}

\* It ends at the first entry that fails; what was written before stays.
StoreAt(st, path, e, data) ==
  IF ~st.ok \/ e.offset + e.size > Len(data) \/ Unsafe(path) \/ Blocked(path, st.disk)
  THEN [st EXCEPT !.ok = FALSE]
  ELSE [st EXCEPT !.disk = (path :> Cut(data, e.offset, e.size)) @@ @, !.count = @ + 1]
Store(st, e, data) == StoreAt(st, RelName(e.name), e, data)
Nothing == [ok |-> FALSE, disk |-> <<>>, count |-> 0]
UnpackFrom(data, index) ==
  IF ~index.ok THEN Nothing
  ELSE FoldLeft(LAMBDA st, e : Store(st, e, data), [Nothing EXCEPT !.ok = TRUE], index.entries)
UnpackOpen(data) == UnpackFrom(data, ParseIndex(data))
CanDecrypt(data, wxid, decrypt) == decrypt /\ wxid # <<>> /\ Len(data) >= Prefix + Block
Unpack(data, wxid, decrypt) ==
  IF ~IsDecrypted(data) /\ ~CanDecrypt(data, wxid, decrypt) THEN Nothing
  ELSE UnpackOpen(IF IsDecrypted(data) THEN data ELSE Decrypt(data, wxid))
-----------------------------------------------------------------------------
(* asar.  A word is four bytes, the lowest first.                          *)

Word(bs, at) == IF at + 4 <= Len(bs) THEN BigEndian(Reverse(Cut(bs, at, 4))) ELSE NoWord

\* The JSON text starts with {" (123, 34); its length is in the word before.
Opens(bs, at) == at + 2 <= Len(bs) /\ Cut(bs, at, 2) = <<123, 34>>
Fits(header, off) ==
  Word(header, off) >= 8 /\ off + 4 + Word(header, off) <= Len(header) /\ Opens(header, off + 4)
JSONWith(header, good, starts) ==
  CASE good # <<>> -> Cut(header, good[1] + 4, Word(header, good[1]))
    [] good = <<>> /\ starts # {} -> Cut(header, Min(starts), Len(header) - Min(starts))
    [] OTHER -> <<>>
LocateJSON(header) ==
  JSONWith(header, SelectSeq(<<4, 0, 8>>, LAMBDA off : Fits(header, off)),
           {i \in 0 .. Len(header) - 1 : Opens(header, i)})

\* The JSON decoder is external: what the text at the front says.
Read(texts, bs) == {t \in DOMAIN texts : IsPrefix(texts[t], bs)}
HeaderMax == 64 * 1048576
NoArchive == [ok |-> FALSE]
OpenWith(size, read) ==
  IF read = {} THEN NoArchive ELSE [ok |-> TRUE, base |-> 8 + size, root |-> CHOOSE t \in read : TRUE]
OpenSized(bs, texts, size) ==
  IF size \notin 16 .. HeaderMax \/ 8 + size > Len(bs) THEN NoArchive
  ELSE OpenWith(size, Read(texts, LocateJSON(Cut(bs, 8, size))))
OpenAsar(bs, texts) == OpenSized(bs, texts, Word(bs, 4))

\* A node is a function from names to entries; an entry with "files" is a directory.
IsDir(e) == "files" \in DOMAIN e
RECURSIVE WalkAsarFiles(_, _)
WalkAsarFiles(node, prefix) ==
  UNION {IF IsDir(node[x]) THEN WalkAsarFiles(node[x].files, Append(prefix, x))
         ELSE {Append(prefix, x)} : x \in DOMAIN node}
RECURSIVE FindAsarEntry(_, _)
FindAsarEntry(node, parts) ==
  IF Head(parts) \notin DOMAIN node THEN <<>>
  ELSE LET e == node[Head(parts)]
       IN IF Len(parts) = 1 THEN <<e>>
          ELSE IF IsDir(e) THEN FindAsarEntry(e.files, Tail(parts)) ELSE <<>>

\* jsonNum: a field that is missing is -1, a text is the number that it says.
JsonNum(e, field) == IF field \in DOMAIN e THEN e[field] ELSE -1
IsFile(e) == JsonNum(e, "size") >= 0 /\ JsonNum(e, "offset") >= 0
\* Bytes beyond the end of the archive are 0.
BodyOf(bs, base, e) ==
  [i \in 1 .. e.size |-> IF base + e.offset + i \in DOMAIN bs THEN bs[base + e.offset + i] ELSE 0]

Missing == <<"null">>
\* a is what OpenAsar gave.
ReadFound(bs, base, found) ==
  CASE found = <<>> -> Missing
    [] found # <<>> /\ IsFile(found[1]) -> <<"bytes", BodyOf(bs, base, found[1])>>
    [] OTHER -> <<"error">>
AsarRead(bs, a, parts) ==
  IF a.ok THEN ReadFound(bs, a.base, FindAsarEntry(a.root, parts)) ELSE Missing
AsarList(a) == IF a.ok THEN WalkAsarFiles(a.root, <<>>) ELSE {}
Extracted(bs, base, entries) ==
  [p \in {q \in DOMAIN entries : IsFile(entries[q])} |-> BodyOf(bs, base, entries[p])]
AsarExtract(bs, a) ==
  IF a.ok THEN Extracted(bs, a.base, [p \in AsarList(a) |-> FindAsarEntry(a.root, p)[1]]) ELSE <<>>
-----------------------------------------------------------------------------
(* The packages as other programs write them (external), and what must be  *)
(* read of them.                                                           *)

WordOf(n) == [i \in 1 .. 4 |-> (n \div 256 ^ (4 - i)) % 256]

\* files: the names and the bodies in their order.
IndexLength(files) == FoldLeft(LAMBDA n, f : n + 12 + Len(f.name), 0, files)
Before(files, i) == FoldLeft(LAMBDA n, f : n + Len(f.body), 0, SubSeq(files, 1, i - 1))
Package(files) ==
  <<190>> \o WordOf(0) \o WordOf(IndexLength(files) + 4) \o WordOf(Before(files, Len(files) + 1))
    \o <<237>> \o WordOf(Len(files))
    \o FlattenSeq([i \in DOMAIN files |->
         WordOf(Len(files[i].name)) \o files[i].name
           \o WordOf(18 + IndexLength(files) + Before(files, i)) \o WordOf(Len(files[i].body))])
    \o FlattenSeq([i \in DOMAIN files |-> files[i].body])
Encrypted(data, wxid) ==
  <<86, 49, 77, 77, 87, 88>> \o [i \in 1 .. Block - 1 |-> Enciphered(data[i], wxid)]
    \o <<Enciphered(1, wxid)>>
    \o [i \in 1 .. Len(data) - Block + 1 |-> data[Block + i - 1] ^^ XorKey(wxid)]

\* Every file of a package is unpacked, under its name, or under a name of its
\* own when another has that one; encrypted or not, but with no other key.  A
\* package that is cut within the bodies is an error, and what it wrote by then
\* is right.  Packages where some names start with a slash and others do not are
\* left out: "/a" and "a" are two names and one file, and the last one wins.
AllUnpacked(files, r, names) ==
  /\ r.count = Len(files) /\ Cardinality(DOMAIN r.disk) = Len(files)
  /\ \A i \in DOMAIN files :
       IF \A j \in 1 .. i - 1 : files[j].name # files[i].name
       THEN r.disk[RelName(files[i].name)] = files[i].body
       ELSE \E p \in DOMAIN r.disk \ names : r.disk[p] = files[i].body
CutRight(c, r, alike) ==
  ~c.ok /\ (alike => \A p \in DOMAIN c.disk : p \in DOMAIN r.disk /\ c.disk[p] = r.disk[p])
Alike(files) == Cardinality({files[i].name # RelName(files[i].name) : i \in DOMAIN files}) <= 1
UnpackedRight(files, data, r, names, wxid) ==
  /\ r.ok <=> /\ \A p, q \in names : ~IsPrefix(p \o <<Char.slash>>, q)
              /\ \A p \in names : ~Unsafe(p)
  /\ r.ok /\ Alike(files) => AllUnpacked(files, r, names)
  /\ \A n \in 18 + IndexLength(files) .. Len(data) - 1 :
       CutRight(Unpack(SubSeq(data, 1, n), wxid, FALSE), r, Alike(files))
HiddenRight(hidden, r, wxid, other) ==
  \A id \in {wxid, other}, decrypt \in BOOLEAN :
    Unpack(hidden, id, decrypt) = IF decrypt /\ id = wxid THEN r ELSE Nothing
ReadRight(files, data, r, wxid, other) ==
  /\ UnpackedRight(files, data, r, {RelName(files[i].name) : i \in DOMAIN files}, wxid)
  /\ HiddenRight(Encrypted(data, wxid), r, wxid, other)
UnpackRight(files, data, wxid, other) == ReadRight(files, data, UnpackOpen(data), wxid, other)
PackageRead(files, wxid, other) == UnpackRight(files, Package(files), wxid, other)

\* bodies: what is at the paths, in the order of laid; the paths in unpacked are
\* only named.  texts: how JSON says a tree.  framing: the word before the text
\* has one in front of it, is the first, or there is none.
OffsetOf(bodies, laid, i) == Before([j \in DOMAIN laid |-> [body |-> bodies[laid[j]]]], i)
EntryOf(bodies, laid, path) ==
  LET at == {i \in DOMAIN laid : laid[i] = path}
  IN IF at = {} THEN [size |-> 7]
     ELSE [size |-> Len(bodies[path]), offset |-> OffsetOf(bodies, laid, Min(at))]
DirOf(entries, x) ==
  [files |-> [y \in {p[2] : p \in {q \in DOMAIN entries : q[1] = x /\ Len(q) = 2}} |-> entries[<<x, y>>]]]
NodeOf(entries) ==
  [x \in {p[1] : p \in DOMAIN entries} |->
     IF <<x>> \in DOMAIN entries THEN entries[<<x>>] ELSE DirOf(entries, x)]
JSONText == <<123, 34>> \o [i \in 1 .. 13 |-> 97] \o <<125>>
Framed(framing) ==
  CASE framing = "pickle" -> Reverse(WordOf(20)) \o Reverse(WordOf(16)) \o JSONText
    [] framing = "length" -> Reverse(WordOf(16)) \o JSONText \o <<0>>
    [] framing = "bare" -> <<123>> \o JSONText \o <<0, 0>>
AsarOf(header, bodies, laid) ==
  Reverse(WordOf(4)) \o Reverse(WordOf(Len(header))) \o header
    \o FlattenSeq([i \in DOMAIN laid |-> bodies[laid[i]]])

\* Each file that lies in an archive is listed and read, one by one and with the
\* rest, as it was put there; one that lies beside the archive is listed only,
\* a directory is no file, and what is not there is missing.
OpenRight(bs, a, bodies, unpacked) ==
  /\ AsarList(a) = DOMAIN bodies \cup unpacked /\ AsarExtract(bs, a) = bodies
  /\ \A p \in DOMAIN bodies : AsarRead(bs, a, p) = <<"bytes", bodies[p]>>
  /\ \A p \in DOMAIN bodies \cup unpacked :
       /\ AsarRead(bs, a, Append(p, "x")) = Missing
       /\ p \in unpacked => AsarRead(bs, a, p) = <<"error">>
       /\ Len(p) = 2 => AsarRead(bs, a, Front(p)) = <<"error">>
ArchiveRight(bs, texts, header, bodies, unpacked) ==
  /\ OpenRight(bs, OpenAsar(bs, texts), bodies, unpacked)
  /\ \A n \in 0 .. 7 + header : OpenAsar(SubSeq(bs, 1, n), texts) = NoArchive
AsarRight(bodies, laid, unpacked, framing) ==
  ArchiveRight(AsarOf(Framed(framing), bodies, laid),
               NodeOf([p \in ToSet(laid) \cup unpacked |-> EntryOf(bodies, laid, p)]) :> JSONText,
               Len(Framed(framing)), bodies, unpacked)
=============================================================================
