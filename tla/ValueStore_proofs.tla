--------------------------- MODULE ValueStore_proofs ---------------------------
(***************************************************************************)
(* Proofs about ValueStore, for every set of tasks and cells and whatever  *)
(* the bounds on values, blocks and lengths, as one of the services of a   *)
(* process; with those about ClashProxy and HostHandles, the types of all  *)
(* services together; and about ByteOps, for all bytes.                    *)
(***************************************************************************)
EXTENDS ClashProxy_proofs, HostHandles_proofs

-----------------------------------------------------------------------------
(* The invariant.                                                          *)

Shapes ==
  /\ blocks \in Seq(Seq(Cells)) /\ values \in Seq(Values!ValueRec) /\ meant \in Seq(Values!Contents)
  /\ Len(meant) = Len(values) /\ Len(values) <= MaxValues

\* A value lies within its block; only a slice begins behind the start.
Inside ==
  \A v \in DOMAIN values :
    /\ values[v].at \in DOMAIN blocks
    /\ values[v].from + values[v].len <= Len(blocks[values[v].at])
    /\ values[v].from + values[v].len <= MaxLength
    /\ values[v].kind # "bytes" => values[v].from = 0

\* What is written in place has its block for itself.
Owned ==
  \A v, w \in DOMAIN values :
    v # w /\ values[v].kind # "bytes" => values[v].at # values[w].at

Stored == Shapes /\ Inside /\ Owned /\ Values!StorageMeans

\* An operation on a buffer stays within the buffer.
BusySound ==
  /\ busy \in [Tasks -> Values!Busy \cup {None}]
  /\ \A t \in Tasks : busy[t] # None =>
       /\ busy[t].v \in DOMAIN values /\ values[busy[t].v].kind = "mbuf"
       /\ busy[t].at <= busy[t].to /\ busy[t].to <= values[busy[t].v].len
       /\ busy[t].pc = "copy" => Len(busy[t].got) = busy[t].at

StoreInv == Stored /\ BusySound /\ lock \in Tasks \cup {None}
-----------------------------------------------------------------------------
(* Contents.                                                               *)

LEMMA ContentsAre ==
  ASSUME Values!StoreAssumption
  PROVE  \A c : c \in Values!Contents <=> c \in Seq(Cells) /\ Len(c) <= MaxLength
<1>. TAKE c
<1>1. ASSUME c \in Values!Contents PROVE c \in Seq(Cells) /\ Len(c) <= MaxLength
  <2>1. PICK n \in 0 .. MaxLength : c \in [1 .. n -> Cells]
    BY <1>1 DEF Values!Contents
  <2>2. n \in Nat
    BY <2>1 DEF Values!StoreAssumption
  <2>3. c \in Seq(Cells) /\ Len(c) = n
    BY <2>1, <2>2, SeqDef, LenProperties
  <2>. QED
    BY <2>1, <2>3 DEF Values!StoreAssumption
<1>2. ASSUME c \in Seq(Cells), Len(c) <= MaxLength PROVE c \in Values!Contents
  <2>1. c \in [1 .. Len(c) -> Cells] /\ Len(c) \in 0 .. MaxLength
    BY <1>2, LenProperties DEF Values!StoreAssumption
  <2>. QED
    BY <2>1 DEF Values!Contents
<1>. QED
  BY <1>1, <1>2

LEMMA WindowIs ==
  ASSUME NEW s \in Seq(Cells), NEW f \in Nat, NEW n \in Nat, f + n <= Len(s)
  PROVE  /\ Values!Ops!Window(s, f, n) \in Seq(Cells)
         /\ Len(Values!Ops!Window(s, f, n)) = n
         /\ \A i \in 1 .. n : Values!Ops!Window(s, f, n)[i] = s[f + i]
<1>1. Len(s) \in Nat
  BY LenProperties
<1>2. f + 1 \in Int /\ f + n \in Int
  OBVIOUS
<1>3. \A i \in f + 1 .. f + n : s[i] \in Cells
  <2>1. \A i \in f + 1 .. f + n : i \in 1 .. Len(s)
    BY <1>1
  <2>. QED
    BY <2>1, ElementOfSeq
<1>4. /\ SubSeq(s, f + 1, f + n) \in Seq(Cells)
      /\ Len(SubSeq(s, f + 1, f + n)) = IF f + 1 <= f + n THEN f + n - (f + 1) + 1 ELSE 0
      /\ \A i \in 1 .. f + n - (f + 1) + 1 : SubSeq(s, f + 1, f + n)[i] = s[f + 1 + i - 1]
  BY <1>2, <1>3, SubSeqProperties
<1>5. /\ (IF f + 1 <= f + n THEN f + n - (f + 1) + 1 ELSE 0) = n
      /\ f + n - (f + 1) + 1 = n /\ \A i \in 1 .. n : f + 1 + i - 1 = f + i
  OBVIOUS
<1>. QED
  BY <1>4, <1>5 DEF Values!Ops!Window

LEMMA WholeWindow ==
  ASSUME NEW s \in Seq(Cells)
  PROVE  Values!Ops!Window(s, 0, Len(s)) = s
<1>1. Len(s) \in Nat
  BY LenProperties
<1>2. /\ Values!Ops!Window(s, 0, Len(s)) \in Seq(Cells) /\ Len(Values!Ops!Window(s, 0, Len(s))) = Len(s)
      /\ \A i \in 1 .. Len(s) : Values!Ops!Window(s, 0, Len(s))[i] = s[0 + i]
  BY <1>1, WindowIs
<1>. QED
  BY <1>1, <1>2, SeqEqual

\* A window of a window.
LEMMA InnerWindow ==
  ASSUME NEW s \in Seq(Cells), NEW f \in Nat, NEW n \in Nat, f + n <= Len(s),
         NEW g \in Nat, NEW m \in Nat, g + m <= n
  PROVE  Values!Ops!Window(s, f + g, m) = Values!Ops!Window(Values!Ops!Window(s, f, n), g, m)
<1>. DEFINE t == Values!Ops!Window(s, f, n)
            a == Values!Ops!Window(s, f + g, m)
            b == Values!Ops!Window(t, g, m)
<1>1. t \in Seq(Cells) /\ Len(t) = n /\ \A i \in 1 .. n : t[i] = s[f + i]
  BY WindowIs
<1>2. a \in Seq(Cells) /\ Len(a) = m /\ \A i \in 1 .. m : a[i] = s[f + g + i]
  <2>1. f + g \in Nat /\ f + g + m <= Len(s)
    BY LenProperties
  <2>. QED
    BY <2>1, WindowIs
<1>. HIDE DEF t
<1>3. b \in Seq(Cells) /\ Len(b) = m /\ \A i \in 1 .. m : b[i] = t[g + i]
  BY <1>1, WindowIs
<1>. HIDE DEF a, b
<1>4. \A i \in 1 .. m : g + i \in 1 .. n /\ f + (g + i) = f + g + i
  OBVIOUS
<1>5. \A i \in 1 .. m : a[i] = b[i]
  BY <1>1, <1>2, <1>3, <1>4
<1>6. a = b
  BY <1>2, <1>3, <1>5, SeqEqual
<1>. QED
  BY <1>6 DEF a, b, t

LEMMA GreatestOfTwo ==
  ASSUME NEW a \in Int, NEW b \in Int
  PROVE  Values!Ops!Max({a, b}) = (IF a >= b THEN a ELSE b) /\ Values!Max({a, b}) = (IF a >= b THEN a ELSE b)
<1>1. \E x \in {a, b} : \A y \in {a, b} : x >= y
  OBVIOUS
<1>2. \A x \in {a, b} : (\A y \in {a, b} : x >= y) => x = IF a >= b THEN a ELSE b
  OBVIOUS
<1>. QED
  BY <1>1, <1>2 DEF Values!Ops!Max, Values!Max

LEMMA LeastOfTwo ==
  ASSUME NEW a \in Int, NEW b \in Int
  PROVE  Values!Ops!Min({a, b}) = IF a <= b THEN a ELSE b
<1>1. \E x \in {a, b} : \A y \in {a, b} : x <= y
  OBVIOUS
<1>2. \A x \in {a, b} : (\A y \in {a, b} : x <= y) => x = IF a <= b THEN a ELSE b
  OBVIOUS
<1>. QED
  BY <1>1, <1>2 DEF Values!Ops!Min

\* A slice begins and ends within its source.
LEMMA SliceWithin ==
  ASSUME NEW n \in Nat, NEW start \in Nat, NEW end \in Nat
  PROVE  LET w == Values!Ops!SliceOf(n, start, end)
         IN w.from \in Nat /\ w.len \in Nat /\ w.from + w.len <= n
<1>. DEFINE to == Values!Ops!Min({end, n})
            first == Values!Ops!Max({start, 0})
            from == Values!Ops!Min({first, to})
<1>1. to = (IF end <= n THEN end ELSE n) /\ first = start
  BY LeastOfTwo, GreatestOfTwo
<1>2. from = IF start <= to THEN start ELSE to
  <2>1. to \in Int /\ first \in Int
    BY <1>1
  <2>. HIDE DEF to, first
  <2>. QED
    BY <1>1, <2>1, LeastOfTwo
<1>3. Values!Ops!SliceOf(n, start, end) = [from |-> from, len |-> to - from]
  BY DEF Values!Ops!SliceOf
<1>. HIDE DEF to, first, from
<1>4. from \in Nat /\ to - from \in Nat /\ from + (to - from) <= n
  BY <1>1, <1>2
<1>. QED
  BY <1>3, <1>4

\* What the bytes operations make is bytes.
LEMMA FunctionsAreSeqs ==
  ASSUME NEW n \in Nat, NEW s \in [1 .. n -> Cells]
  PROVE  s \in Seq(Cells) /\ Len(s) = n
BY SeqDef, LenProperties

LEMMA ZerosAre ==
  ASSUME Values!StoreAssumption, NEW n \in Nat
  PROVE  Values!Ops!Zeros(n) \in Seq(Cells) /\ Len(Values!Ops!Zeros(n)) = n
<1>1. Values!Ops!Zeros(n) \in [1 .. n -> Cells]
  BY DEF Values!Ops!Zeros, Values!StoreAssumption
<1>. QED
  BY <1>1, FunctionsAreSeqs

LEMMA WriteAtIs ==
  ASSUME Values!StoreAssumption, NEW s \in Seq(Cells), NEW off \in Nat, NEW p \in Seq(Cells)
  PROVE  Values!Ops!WriteAt(s, off, p) \in Seq(Cells)
<1>1. /\ Len(s) \in Nat /\ DOMAIN s = 1 .. Len(s) /\ \A i \in DOMAIN s : s[i] \in Cells
      /\ Len(p) \in Nat /\ DOMAIN p = 1 .. Len(p) /\ \A i \in DOMAIN p : p[i] \in Cells
  BY LenProperties
<1>. DEFINE n == Values!Ops!Max({Len(s), off + Len(p)})
<1>2. n \in Nat
  <2>1. off + Len(p) \in Int /\ Len(s) \in Int /\ off + Len(p) \in Nat
    BY <1>1
  <2>. QED
    BY <1>1, <2>1, GreatestOfTwo
<1>. HIDE DEF n
<1>3. Values!Ops!WriteAt(s, off, p) \in [1 .. n -> Cells]
  BY <1>1 DEF Values!Ops!WriteAt, n, Values!StoreAssumption
<1>. QED
  BY <1>2, <1>3, FunctionsAreSeqs

LEMMA FillIs ==
  ASSUME Values!StoreAssumption, NEW s \in Seq(Cells), NEW off \in Nat, NEW n \in Nat, NEW b \in Cells
  PROVE  Values!Ops!Fill(s, off, n, b) \in Seq(Cells)
<1>1. [i \in 1 .. n |-> b] \in Seq(Cells)
  BY FunctionsAreSeqs
<1>. QED
  BY <1>1, WriteAtIs DEF Values!Ops!Fill

LEMMA SwapIs ==
  ASSUME NEW s \in Seq(Cells)
  PROVE  Values!Ops!Swap(s, 2) \in Seq(Cells)
<1>1. Len(s) \in Nat /\ DOMAIN s = 1 .. Len(s) /\ \A i \in 1 .. Len(s) : s[i] \in Cells
  BY LenProperties
<1>. DEFINE w == Len(s) - (Len(s) % 2)
<1>2. w \in Nat /\ w <= Len(s) /\ w % 2 = 0
  BY <1>1
<1>3. \A i \in 1 .. Len(s) : i <= w => ((i - 1) \div 2) * 2 + 2 - ((i - 1) % 2) \in 1 .. Len(s)
  BY <1>1, <1>2
<1>4. \A i \in 1 .. Len(s) : ~ (i > w) => i <= w
  BY <1>1, <1>2
<1>5. Values!Ops!Swap(s, 2) \in [1 .. Len(s) -> Cells]
  BY <1>1, <1>3, <1>4 DEF Values!Ops!Swap
<1>. QED
  BY <1>1, <1>5, FunctionsAreSeqs

\* The recursion of FlattenSeq, followed for two parts.
LEMMA ConcatIs ==
  ASSUME NEW a \in Seq(Cells), NEW b \in Seq(Cells)
  PROVE  Values!Ops!Concat(<<a, b>>) \in Seq(Cells)
<1>. DEFINE s == <<a, b>>
            F == CHOOSE f : f = [i \in 1 .. Len(s) |-> IF i = 1 THEN s[i] ELSE f[i-1] \o s[i]]
<1>1. \E f : f = [i \in 1 .. Len(s) |-> IF i = 1 THEN s[i] ELSE f[i-1] \o s[i]]
  <2>. DEFINE g == [i \in 1 .. 2 |-> IF i = 1 THEN a ELSE a \o b]
  <2>1. g = [i \in 1 .. Len(s) |-> IF i = 1 THEN s[i] ELSE g[i-1] \o s[i]]
    OBVIOUS
  <2>. QED
    BY <2>1
<1>2. F = [i \in 1 .. Len(s) |-> IF i = 1 THEN s[i] ELSE F[i-1] \o s[i]]
  BY <1>1
<1>3. Values!Ops!Concat(s) = F[Len(s)]
  BY DEF Values!Ops!Concat, Values!Ops!FlattenSeq
<1>4. Len(s) = 2 /\ s[1] = a /\ s[2] = b
  OBVIOUS
<1>. HIDE DEF F, s
<1>5. F[1] = a
  BY <1>2, <1>4
<1>6. F[2] = F[1] \o b
  BY <1>2, <1>4
<1>7. a \o b \in Seq(Cells)
  BY ConcatProperties
<1>. QED
  BY <1>3, <1>4, <1>5, <1>6, <1>7 DEF s
-----------------------------------------------------------------------------
(* The two ways in which the store changes.                                *)

LEMMA Types ==
  ASSUME Values!StoreAssumption, Shapes
  PROVE  /\ Len(blocks) \in Nat /\ DOMAIN blocks = 1 .. Len(blocks)
         /\ Len(values) \in Nat /\ DOMAIN values = 1 .. Len(values)
         /\ DOMAIN meant = DOMAIN values
         /\ \A k \in DOMAIN blocks : blocks[k] \in Seq(Cells) /\ Len(blocks[k]) \in Nat
         /\ \A v \in DOMAIN values :
              /\ values[v] \in Values!ValueRec /\ values[v].kind \in {"bytes", "array", "mbuf"}
              /\ values[v].at \in 1 .. MaxBlocks
              /\ values[v].from \in Nat /\ values[v].len \in Nat /\ values[v].len <= MaxLength
              /\ meant[v] \in Seq(Cells) /\ Len(meant[v]) \in Nat
<1>1. /\ Len(blocks) \in Nat /\ DOMAIN blocks = 1 .. Len(blocks)
      /\ Len(values) \in Nat /\ DOMAIN values = 1 .. Len(values)
      /\ DOMAIN meant = 1 .. Len(meant)
  BY LenProperties DEF Shapes
<1>2. \A k \in DOMAIN blocks : blocks[k] \in Seq(Cells)
  BY <1>1, ElementOfSeq DEF Shapes
<1>3. \A k \in DOMAIN blocks : Len(blocks[k]) \in Nat
  BY <1>2, LenProperties
<1>4. \A v \in DOMAIN values : values[v] \in Values!ValueRec
  BY <1>1, ElementOfSeq DEF Shapes
<1>5. \A v \in DOMAIN values : meant[v] \in Values!Contents
  BY <1>1, ElementOfSeq DEF Shapes
<1>6. \A v \in DOMAIN values : meant[v] \in Seq(Cells) /\ Len(meant[v]) \in Nat
  BY <1>5, ContentsAre, LenProperties
<1>7. \A v \in DOMAIN values :
        /\ values[v].kind \in {"bytes", "array", "mbuf"} /\ values[v].at \in 1 .. MaxBlocks
        /\ values[v].from \in Nat /\ values[v].len \in Nat /\ values[v].len <= MaxLength
  BY <1>4 DEF Values!ValueRec, Values!StoreAssumption
<1>. QED
  BY <1>1, <1>2, <1>3, <1>4, <1>6, <1>7 DEF Shapes

\* What a value holds is as long as the value.
LEMMA ContentIs ==
  ASSUME Values!StoreAssumption, Stored, NEW v \in DOMAIN values
  PROVE  /\ Values!Content(v) = meant[v] /\ Values!Content(v) \in Seq(Cells) /\ Len(Values!Content(v)) = values[v].len
         /\ \A i \in 1 .. values[v].len :
              Values!Content(v)[i] = blocks[values[v].at][values[v].from + i]
<1>1. /\ values[v].at \in DOMAIN blocks /\ blocks[values[v].at] \in Seq(Cells)
      /\ values[v].from \in Nat /\ values[v].len \in Nat
      /\ values[v].from + values[v].len <= Len(blocks[values[v].at])
  BY Types DEF Stored, Inside
<1>. QED
  BY <1>1, WindowIs DEF Values!Content, Stored, Values!StorageMeans

\* A new value: those that were keep what they hold.
LEMMA OneNew ==
  ASSUME Values!StoreAssumption, Stored, Len(values) < MaxValues,
         NEW r \in Values!ValueRec, NEW c \in Values!Contents,
         values' = Append(values, r), meant' = Append(meant, c),
         blocks' \in Seq(Seq(Cells)), DOMAIN blocks \subseteq DOMAIN blocks',
         \A k \in DOMAIN blocks : blocks'[k] = blocks[k],
         r.at \in DOMAIN blocks', r.from + r.len <= Len(blocks'[r.at]),
         r.from + r.len <= MaxLength, r.kind # "bytes" => r.from = 0,
         \A w \in DOMAIN values :
           r.kind # "bytes" \/ values[w].kind # "bytes" => values[w].at # r.at,
         Values!Ops!Window(blocks'[r.at], r.from, r.len) = c
  PROVE  Stored' /\ \A v \in DOMAIN values : v \in DOMAIN values' /\ values'[v] = values[v]
<1>. DEFINE n == Len(values)
<1>1. n \in Nat /\ DOMAIN values = 1 .. n /\ Len(meant) = n /\ DOMAIN meant = 1 .. n
  BY Types DEF Stored, Shapes
<1>2. /\ values' \in Seq(Values!ValueRec) /\ Len(values') = n + 1 /\ values'[n + 1] = r
      /\ \A v \in 1 .. n : values'[v] = values[v]
  BY AppendProperties DEF Stored, Shapes
<1>3. /\ meant' \in Seq(Values!Contents) /\ Len(meant') = n + 1 /\ meant'[n + 1] = c
      /\ \A v \in 1 .. n : meant'[v] = meant[v]
  BY <1>1, AppendProperties DEF Stored, Shapes
<1>4. DOMAIN values' = 1 .. n + 1
  BY <1>2, LenProperties
<1>. HIDE DEF n
<1>5. \A v \in DOMAIN values' : (v \in DOMAIN values /\ v \in 1 .. n) \/ v = n + 1
  BY <1>1, <1>4
<1>6. n + 1 <= MaxValues /\ \A v \in DOMAIN values : v \in DOMAIN values' /\ values'[v] = values[v]
  BY <1>1, <1>2, <1>4 DEF n, Values!StoreAssumption
<1>7. Shapes'
  BY <1>2, <1>3, <1>6 DEF Shapes
<1>8. Inside'
  BY <1>1, <1>2, <1>5 DEF Stored, Inside
<1>9. Owned'
  BY <1>1, <1>2, <1>5 DEF Stored, Owned
<1>10. Values!StorageMeans'
  BY <1>1, <1>2, <1>3, <1>5 DEF Stored, Values!StorageMeans, Inside, Values!Content
<1>. QED
  BY <1>6, <1>7, <1>8, <1>9, <1>10 DEF Stored

\* A value is written in place, grown or shrunk: it has its block for itself,
\* or a new one.
LEMMA OneChanged ==
  ASSUME Values!StoreAssumption, Stored, NEW v \in DOMAIN values, values[v].kind # "bytes",
         NEW r \in Values!ValueRec, NEW c \in Values!Contents,
         values' = [values EXCEPT ![v] = r], meant' = [meant EXCEPT ![v] = c],
         r.kind = values[v].kind, r.from = 0,
         blocks' \in Seq(Seq(Cells)), DOMAIN blocks \subseteq DOMAIN blocks',
         \A k \in DOMAIN blocks : k # values[v].at => blocks'[k] = blocks[k],
         r.at = values[v].at \/ r.at \notin DOMAIN blocks,
         r.at \in DOMAIN blocks', r.len <= Len(blocks'[r.at]), r.len <= MaxLength,
         Values!Ops!Window(blocks'[r.at], 0, r.len) = c
  PROVE  Stored'
<1>1. /\ DOMAIN values = 1 .. Len(values) /\ DOMAIN meant = DOMAIN values
      /\ Len(meant) = Len(values)
  BY Types DEF Stored, Shapes
<1>2. /\ values' \in Seq(Values!ValueRec) /\ Len(values') = Len(values)
      /\ \A w \in DOMAIN values : values'[w] = IF w = v THEN r ELSE values[w]
  BY <1>1, ExceptSeq DEF Stored, Shapes
<1>3. /\ meant' \in Seq(Values!Contents) /\ Len(meant') = Len(meant)
      /\ \A w \in DOMAIN values : meant'[w] = IF w = v THEN c ELSE meant[w]
  BY <1>1, ExceptSeq DEF Stored, Shapes
<1>4. DOMAIN values' = DOMAIN values
  BY <1>1, <1>2, LenProperties
<1>5. Shapes'
  BY <1>1, <1>2, <1>3 DEF Stored, Shapes
<1>a. 0 + r.len = r.len /\ r.len \in Nat
  BY DEF Values!ValueRec, Values!StoreAssumption
<1>6. \A w \in DOMAIN values : w # v =>
        /\ values'[w] = values[w] /\ values[w].at \in DOMAIN blocks
        /\ values[w].at # values[v].at /\ blocks'[values[w].at] = blocks[values[w].at]
        /\ values[w].at # r.at
  BY <1>2 DEF Stored, Inside, Owned
<1>7. Inside'
  BY <1>2, <1>4, <1>6, <1>a DEF Stored, Inside
<1>8. Owned'
  BY <1>2, <1>4, <1>6 DEF Stored, Owned
<1>9. Values!StorageMeans'
  BY <1>2, <1>3, <1>4, <1>6 DEF Stored, Values!StorageMeans, Values!Content
<1>. QED
  BY <1>5, <1>7, <1>8, <1>9 DEF Stored
-----------------------------------------------------------------------------
(* The operations.                                                         *)

LEMMA PutStores ==
  ASSUME Values!StoreAssumption, Stored, NEW kind \in {"bytes", "array", "mbuf"},
         NEW c \in Seq(Cells), Values!Put(kind, c)
  PROVE  Stored' /\ \A v \in DOMAIN values : v \in DOMAIN values' /\ values'[v] = values[v]
<1>. DEFINE n == Len(blocks)
            r == [kind |-> kind, at |-> n + 1, from |-> 0, len |-> Len(c)]
<1>1. /\ Len(values) < MaxValues /\ n < MaxBlocks /\ Len(c) <= MaxLength /\ Len(c) \in Nat
      /\ n \in Nat /\ DOMAIN blocks = 1 .. n
      /\ blocks' = Append(blocks, c) /\ values' = Append(values, r) /\ meant' = Append(meant, c)
  BY Types, LenProperties DEF Values!Put, Values!RoomFor, Stored
<1>2. c \in Values!Contents
  BY <1>1, ContentsAre
<1>3. /\ blocks' \in Seq(Seq(Cells)) /\ Len(blocks') = n + 1 /\ blocks'[n + 1] = c
      /\ \A k \in 1 .. n : blocks'[k] = blocks[k]
  BY <1>1, AppendProperties DEF Stored, Shapes
<1>4. DOMAIN blocks' = 1 .. n + 1
  BY <1>3, LenProperties
<1>. HIDE DEF n
<1>5. r \in Values!ValueRec /\ r.kind = kind /\ r.at = n + 1 /\ r.from = 0 /\ r.len = Len(c)
  BY <1>1 DEF Values!ValueRec, Values!StoreAssumption
<1>. HIDE DEF r
<1>6. Values!Ops!Window(blocks'[r.at], r.from, r.len) = c
  BY <1>3, <1>5, WholeWindow
<1>7. \A w \in DOMAIN values : values[w].at # r.at
  BY <1>1, <1>5 DEF Stored, Inside
<1>8. /\ r.at \in DOMAIN blocks' /\ DOMAIN blocks \subseteq DOMAIN blocks'
      /\ r.from + r.len = Len(c) /\ Len(c) <= Len(c)
  BY <1>1, <1>4, <1>5
<1>. QED
  BY <1>1, <1>2, <1>3, <1>5, <1>6, <1>7, <1>8, OneNew

LEMMA SliceStores ==
  ASSUME Values!StoreAssumption, Stored, NEW v \in Values!Of("bytes"), NEW start \in Nat, NEW end \in Nat,
         Values!Slice(v, start, end)
  PROVE  Stored' /\ \A w \in DOMAIN values : w \in DOMAIN values' /\ values'[w] = values[w]
<1>. DEFINE s == Values!Ops!SliceOf(values[v].len, start, end)
            r == [values[v] EXCEPT !.from = @ + s.from, !.len = s.len]
            c == Values!Ops!Window(meant[v], s.from, s.len)
<1>1. /\ v \in DOMAIN values /\ values[v].kind = "bytes" /\ values[v] \in Values!ValueRec
      /\ values[v].from \in Nat /\ values[v].len \in Nat /\ values[v].at \in DOMAIN blocks
      /\ blocks[values[v].at] \in Seq(Cells) /\ Len(blocks[values[v].at]) \in Nat
      /\ values[v].from + values[v].len <= Len(blocks[values[v].at])
      /\ values[v].from + values[v].len <= MaxLength
  BY Types DEF Values!Of, Stored, Inside
<1>2. s.from \in Nat /\ s.len \in Nat /\ s.from + s.len <= values[v].len
  BY <1>1, SliceWithin
<1>3. /\ Len(values) < MaxValues /\ values' = Append(values, r) /\ meant' = Append(meant, c)
      /\ blocks' = blocks
  BY DEF Values!Slice
<1>4. meant[v] \in Seq(Cells) /\ Len(meant[v]) = values[v].len
      /\ meant[v] = Values!Ops!Window(blocks[values[v].at], values[v].from, values[v].len)
  BY <1>1, ContentIs DEF Values!Content
<1>. HIDE DEF s
<1>5. c \in Seq(Cells) /\ Len(c) = s.len
  BY <1>2, <1>4, WindowIs
<1>6. /\ values[v].from + s.from \in Nat /\ s.len <= MaxLength
      /\ values[v].from + s.from + s.len <= Len(blocks[values[v].at])
      /\ values[v].from + s.from + s.len <= MaxLength
      /\ values[v].from + s.from <= MaxLength
  <2>. DEFINE f == values[v].from
              l == values[v].len
              g == s.from
              m == s.len
              b == Len(blocks[values[v].at])
  <2>1. /\ f \in Nat /\ l \in Nat /\ g \in Nat /\ m \in Nat /\ b \in Nat /\ MaxLength \in Nat
        /\ g + m <= l /\ f + l <= b /\ f + l <= MaxLength
    BY <1>1, <1>2 DEF Values!StoreAssumption
  <2>. HIDE DEF f, l, g, m, b
  <2>2. f + g \in Nat /\ m <= MaxLength /\ f + g + m <= b /\ f + g + m <= MaxLength /\ f + g <= MaxLength
    BY <2>1
  <2>. QED
    BY <2>2 DEF f, l, g, m, b
<1>7. /\ r \in Values!ValueRec /\ r.kind = "bytes" /\ r.at = values[v].at
      /\ r.from = values[v].from + s.from /\ r.len = s.len
  <2>1. /\ r.kind = "bytes" /\ r.at = values[v].at
        /\ r.from = values[v].from + s.from /\ r.len = s.len
    BY <1>1 DEF Values!ValueRec
  <2>2. values[v].from + s.from \in 0 .. MaxLength /\ s.len \in 0 .. MaxLength
    BY <1>2, <1>6 DEF Values!StoreAssumption
  <2>3. r \in Values!ValueRec
    BY <1>1, <2>2 DEF Values!ValueRec
  <2>. QED
    BY <2>1, <2>3
<1>8. c \in Values!Contents
  BY <1>5, <1>6, ContentsAre
<1>9. Values!Ops!Window(blocks[r.at], r.from, r.len) = c
  BY <1>1, <1>2, <1>4, <1>7, InnerWindow
<1>10. \A w \in DOMAIN values : values[w].kind # "bytes" => values[w].at # r.at
  BY <1>1, <1>7 DEF Stored, Owned
<1>. HIDE DEF r, c
<1>. QED
  BY <1>1, <1>3, <1>6, <1>7, <1>8, <1>9, <1>10, OneNew DEF Stored, Shapes

\* A cell of an array or a buffer is written, the one behind the last included.
LEMMA WrittenIs ==
  ASSUME Values!StoreAssumption, Stored, NEW v \in DOMAIN values, values[v].kind # "bytes",
         NEW i \in 1 .. Len(blocks[values[v].at]), NEW b \in Cells,
         blocks' = Values!Written(v, i, b)
  PROVE  /\ blocks' \in Seq(Seq(Cells)) /\ DOMAIN blocks' = DOMAIN blocks
         /\ \A k \in DOMAIN blocks : k # values[v].at => blocks'[k] = blocks[k]
         /\ blocks'[values[v].at] = [blocks[values[v].at] EXCEPT ![i] = b]
         /\ blocks'[values[v].at] \in Seq(Cells)
         /\ Len(blocks'[values[v].at]) = Len(blocks[values[v].at])
         /\ \A j \in 1 .. Len(blocks[values[v].at]) :
              blocks'[values[v].at][j] = IF j = i THEN b ELSE blocks[values[v].at][j]
<1>. DEFINE k == values[v].at
            s == [blocks[k] EXCEPT ![i] = b]
<1>1. /\ k \in DOMAIN blocks /\ DOMAIN blocks = 1 .. Len(blocks) /\ blocks[k] \in Seq(Cells)
      /\ Len(blocks[k]) \in Nat /\ values[v].from = 0
  BY Types DEF Stored, Inside
<1>2. i \in 1 .. Len(blocks[k]) /\ 0 + i = i
  BY <1>1
<1>3. /\ s \in Seq(Cells) /\ Len(s) = Len(blocks[k])
      /\ \A j \in 1 .. Len(blocks[k]) : s[j] = IF j = i THEN b ELSE blocks[k][j]
  BY <1>1, <1>2, ExceptSeq
<1>4. blocks' = [blocks EXCEPT ![k] = s]
  BY <1>1, <1>2 DEF Values!Written
<1>. HIDE DEF s
<1>5. /\ blocks' \in Seq(Seq(Cells)) /\ Len(blocks') = Len(blocks)
      /\ \A j \in 1 .. Len(blocks) : blocks'[j] = IF j = k THEN s ELSE blocks[j]
  BY <1>1, <1>3, <1>4, ExceptSeq DEF Stored, Shapes
<1>6. DOMAIN blocks' = DOMAIN blocks
  BY <1>1, <1>5, LenProperties
<1>. QED
  BY <1>1, <1>3, <1>5, <1>6 DEF s

LEMMA WriteStores ==
  ASSUME Values!StoreAssumption, Stored, NEW v \in DOMAIN values, values[v].kind # "bytes",
         NEW i \in 1 .. values[v].len, NEW b \in Cells,
         blocks' = Values!Written(v, i, b), meant' = [meant EXCEPT ![v][i] = b], values' = values
  PROVE  Stored'
<1>. DEFINE k == values[v].at
            n == values[v].len
            c == [meant[v] EXCEPT ![i] = b]
<1>1. /\ k \in DOMAIN blocks /\ blocks[k] \in Seq(Cells) /\ Len(blocks[k]) \in Nat
      /\ values[v].from = 0 /\ n \in Nat /\ values[v] \in Values!ValueRec /\ n <= MaxLength
      /\ DOMAIN values = 1 .. Len(values)
  BY Types DEF Stored, Inside
<1>2. 0 + n <= Len(blocks[k])
  BY <1>1 DEF Stored, Inside
<1>3. n <= Len(blocks[k]) /\ i \in 1 .. Len(blocks[k]) /\ \A j \in 1 .. n : 0 + j = j
  BY <1>1, <1>2
<1>4. /\ meant[v] \in Seq(Cells) /\ Len(meant[v]) = n
      /\ \A j \in 1 .. n : meant[v][j] = blocks[k][j]
  BY <1>1, <1>3, ContentIs
<1>5. /\ c \in Seq(Cells) /\ Len(c) = n /\ \A j \in 1 .. n : c[j] = IF j = i THEN b ELSE meant[v][j]
  BY <1>4, ExceptSeq
<1>6. meant' = [meant EXCEPT ![v] = c] /\ c \in Values!Contents
  BY <1>1, <1>5, ContentsAre
<1>. HIDE DEF c
<1>7. /\ blocks' \in Seq(Seq(Cells)) /\ DOMAIN blocks' = DOMAIN blocks
      /\ \A j \in DOMAIN blocks : j # k => blocks'[j] = blocks[j]
      /\ blocks'[k] \in Seq(Cells) /\ Len(blocks'[k]) = Len(blocks[k])
      /\ \A j \in 1 .. Len(blocks[k]) : blocks'[k][j] = IF j = i THEN b ELSE blocks[k][j]
  <2>1. k = values[v].at /\ i \in 1 .. Len(blocks[k]) /\ i \in 1 .. values[v].len
    BY <1>3
  <2>. HIDE DEF k, n
  <2>2. i \in 1 .. Len(blocks[values[v].at])
    BY <2>1
  <2>3. /\ blocks' \in Seq(Seq(Cells)) /\ DOMAIN blocks' = DOMAIN blocks
        /\ \A j \in DOMAIN blocks : j # values[v].at => blocks'[j] = blocks[j]
        /\ blocks'[values[v].at] = [blocks[values[v].at] EXCEPT ![i] = b]
        /\ blocks'[values[v].at] \in Seq(Cells)
        /\ Len(blocks'[values[v].at]) = Len(blocks[values[v].at])
        /\ \A j \in 1 .. Len(blocks[values[v].at]) :
              blocks'[values[v].at][j] = IF j = i THEN b ELSE blocks[values[v].at][j]
    BY <2>2, WrittenIs
  <2>. QED
    BY <2>1, <2>3
<1>8. Values!Ops!Window(blocks'[k], 0, n) = c
  <2>1. /\ Values!Ops!Window(blocks'[k], 0, n) \in Seq(Cells) /\ Len(Values!Ops!Window(blocks'[k], 0, n)) = n
        /\ \A j \in 1 .. n : Values!Ops!Window(blocks'[k], 0, n)[j] = blocks'[k][0 + j]
    <3>1. 0 + n <= Len(blocks'[k]) /\ 0 \in Nat
      BY <1>2, <1>7
    <3>. QED
      BY <1>1, <1>7, <3>1, WindowIs, ZenonT(30)
  <2>2. \A j \in 1 .. n : j \in 1 .. Len(blocks[k])
    BY <1>1, <1>3
  <2>3. \A j \in 1 .. n : Values!Ops!Window(blocks'[k], 0, n)[j] = c[j]
    BY <1>3, <1>4, <1>5, <1>7, <2>1, <2>2, SMTT(30)
  <2>. HIDE DEF n
  <2>. QED
    BY <1>5, <2>1, <2>3, SeqEqual
<1>9. values' = [values EXCEPT ![v] = values[v]]
  BY <1>1 DEF Stored, Shapes
<1>. QED
  BY <1>1, <1>3, <1>6, <1>7, <1>8, <1>9, OneChanged, ZenonT(30)

\* The last cell goes, and stays in the block.
LEMMA PopStores ==
  ASSUME Values!StoreAssumption, Stored, NEW v \in Values!Of("array"), Values!Pop(v)
  PROVE  Stored'
<1>. DEFINE k == values[v].at
            n == values[v].len
            r == [values[v] EXCEPT !.len = n - 1]
            c == Values!Front(meant[v])
<1>1. /\ v \in DOMAIN values /\ values[v].kind = "array" /\ k \in DOMAIN blocks
      /\ blocks[k] \in Seq(Cells) /\ Len(blocks[k]) \in Nat /\ n \in Nat /\ n <= MaxLength
      /\ values[v].from = 0 /\ 0 + n <= Len(blocks[k]) /\ values[v] \in Values!ValueRec
  BY Types DEF Values!Of, Stored, Inside
<1>2. /\ n > 0 /\ blocks' = blocks /\ values' = [values EXCEPT ![v] = r]
      /\ meant' = [meant EXCEPT ![v] = c]
  BY DEF Values!Pop
<1>3. /\ r \in Values!ValueRec /\ r.kind = "array" /\ r.from = 0 /\ r.at = k /\ r.len = n - 1
  <2>1. n - 1 \in 0 .. MaxLength
    BY <1>1, <1>2 DEF Values!StoreAssumption
  <2>. HIDE DEF n
  <2>. QED
    BY <1>1, <2>1 DEF Values!ValueRec
<1>4. meant[v] \in Seq(Cells) /\ Len(meant[v]) = n /\ meant[v] = Values!Ops!Window(blocks[k], 0, n)
  BY <1>1, ContentIs DEF Values!Content
<1>. HIDE DEF k, n, r
<1>5. n - 1 \in Nat /\ 0 + (n - 1) <= n /\ 0 \in Nat /\ 0 + 0 = 0 /\ 0 + (n - 1) <= Len(blocks[k])
      /\ n - 1 <= Len(blocks[k]) /\ n - 1 <= MaxLength
  BY <1>1, <1>2 DEF Values!StoreAssumption
<1>6. c = Values!Ops!Window(meant[v], 0, n - 1)
  BY <1>4, <1>5 DEF Values!Front, Values!Ops!Window
<1>7. c \in Seq(Cells) /\ Len(c) = n - 1
  BY <1>4, <1>5, <1>6, WindowIs
<1>8. c \in Values!Contents
  BY <1>5, <1>7, ContentsAre
<1>9. Values!Ops!Window(blocks[k], 0, n - 1) = c
  <2>1. Values!Ops!Window(blocks[k], 0 + 0, n - 1) = Values!Ops!Window(Values!Ops!Window(blocks[k], 0, n), 0, n - 1)
    BY <1>1, <1>5, InnerWindow
  <2>. QED
    BY <1>4, <1>5, <1>6, <2>1
<1>. HIDE DEF c
<1>10. blocks' \in Seq(Seq(Cells)) /\ DOMAIN blocks \subseteq DOMAIN blocks'
       /\ \A j \in DOMAIN blocks : j # values[v].at => blocks'[j] = blocks[j]
  BY <1>2 DEF Stored, Shapes
<1>11. r.at = values[v].at /\ r.at \in DOMAIN blocks' /\ r.len <= Len(blocks'[r.at])
       /\ r.len <= MaxLength /\ Values!Ops!Window(blocks'[r.at], 0, r.len) = c
       /\ values[v].kind # "bytes" /\ r.kind = values[v].kind
  BY <1>1, <1>2, <1>3, <1>5, <1>9 DEF k
<1>. QED
  BY <1>1, <1>2, <1>3, <1>8, <1>10, <1>11, OneChanged

\* A cell more: in the capacity of the block, or in a block of its own.
LEMMA PushStores ==
  ASSUME Values!StoreAssumption, Stored, NEW v \in Values!Of("array"), NEW b \in Cells, Values!Push(v, b)
  PROVE  Stored'
<1>. DEFINE k == values[v].at
            n == values[v].len
            m == Len(blocks)
            c == Append(meant[v], b)
            z == Values!Max({n - 1, 0})
            rest == Values!Ops!Zeros(z)
            new == Values!Content(v) \o <<b>> \o rest
            full == n = Len(blocks[k])
            r == [values[v] EXCEPT !.at = IF full THEN m + 1 ELSE k, !.len = n + 1]
<1>1. /\ v \in DOMAIN values /\ values[v].kind = "array" /\ k \in DOMAIN blocks
      /\ blocks[k] \in Seq(Cells) /\ Len(blocks[k]) \in Nat /\ n \in Nat
      /\ values[v].from = 0 /\ 0 + n <= Len(blocks[k]) /\ values[v] \in Values!ValueRec
      /\ m \in Nat /\ DOMAIN blocks = 1 .. m /\ k \in 1 .. MaxBlocks
  BY Types DEF Values!Of, Stored, Inside
<1>2. /\ n < MaxLength /\ (full => m < MaxBlocks)
      /\ full => blocks' = Append(blocks, new)
      /\ ~full => blocks' = Values!Written(v, n + 1, b)
      /\ meant' = [meant EXCEPT ![v] = c]
  BY DEF Values!Push
<1>3. values' = [values EXCEPT ![v] = r]
  <2>1. CASE full
    <3>1. values' = [values EXCEPT ![v].at = m + 1, ![v].len = n + 1]
      BY <2>1 DEF Values!Push
    <3>. QED
      BY <1>1, <2>1, <3>1 DEF Stored, Shapes
  <2>2. CASE ~full
    <3>1. values' = [values EXCEPT ![v].len = n + 1]
      BY <2>2 DEF Values!Push
    <3>2. r = [values[v] EXCEPT !.len = n + 1]
      BY <1>1, <2>2 DEF Values!ValueRec
    <3>. QED
      BY <1>1, <3>1, <3>2 DEF Stored, Shapes
  <2>. QED
    BY <2>1, <2>2
<1>4. /\ meant[v] = Values!Content(v) /\ Values!Content(v) \in Seq(Cells) /\ Len(Values!Content(v)) = n
      /\ \A i \in 1 .. n : Values!Content(v)[i] = blocks[k][0 + i]
  BY <1>1, ContentIs
<1>5. /\ c \in Seq(Cells) /\ Len(c) = n + 1 /\ c[n + 1] = b
      /\ \A i \in 1 .. n : c[i] = Values!Content(v)[i]
  BY <1>4, AppendProperties
<1>6. c \in Values!Contents
  <2>1. n + 1 <= MaxLength
    BY <1>1, <1>2 DEF Values!StoreAssumption
  <2>. QED
    BY <1>5, <2>1, ContentsAre
<1>7. /\ r \in Values!ValueRec /\ r.kind = "array" /\ r.from = 0 /\ r.len = n + 1
      /\ r.at = IF full THEN m + 1 ELSE k
  <2>1. n + 1 \in 0 .. MaxLength /\ (IF full THEN m + 1 ELSE k) \in 1 .. MaxBlocks
    BY <1>1, <1>2 DEF Values!StoreAssumption
  <2>. HIDE DEF n, m, full, k
  <2>. QED
    BY <1>1, <2>1 DEF Values!ValueRec
<1>. HIDE DEF c, r
<1>8. /\ blocks' \in Seq(Seq(Cells)) /\ DOMAIN blocks \subseteq DOMAIN blocks'
      /\ \A j \in DOMAIN blocks : j # k => blocks'[j] = blocks[j]
      /\ r.at \in DOMAIN blocks' /\ (r.at = k \/ r.at \notin DOMAIN blocks)
      /\ blocks'[r.at] \in Seq(Cells) /\ n + 1 <= Len(blocks'[r.at])
      /\ \A i \in 1 .. n + 1 : blocks'[r.at][i] = c[i]
  <2>1. CASE full
    <3>1. z \in Nat
      <4>1. n - 1 \in Int /\ 0 \in Int
        BY <1>1
      <4>2. z = IF n - 1 >= 0 THEN n - 1 ELSE 0
        BY <4>1, GreatestOfTwo
      <4>. QED
        BY <4>1, <4>2
    <3>. HIDE DEF z
    <3>2. rest \in Seq(Cells) /\ Len(rest) = z
      BY <3>1, ZerosAre
    <3>. HIDE DEF rest
    <3>3. <<b>> \in Seq(Cells) /\ Len(<<b>>) = 1 /\ <<b>>[1] = b
      OBVIOUS
    <3>4. /\ Values!Content(v) \o <<b>> \in Seq(Cells) /\ Len(Values!Content(v) \o <<b>>) = n + 1
          /\ \A i \in 1 .. n + 1 : (Values!Content(v) \o <<b>>)[i] = IF i <= n THEN Values!Content(v)[i] ELSE <<b>>[i - n]
      BY <1>4, <3>3, ConcatProperties
    <3>. DEFINE y == Values!Content(v) \o <<b>>
    <3>a. y \in Seq(Cells) /\ Len(y) = n + 1
      BY <3>4
    <3>b. new = y \o rest
      OBVIOUS
    <3>. HIDE DEF y, new
    <3>c. /\ y \o rest \in Seq(Cells) /\ Len(y \o rest) = Len(y) + Len(rest)
          /\ \A i \in 1 .. Len(y) + Len(rest) :
               (y \o rest)[i] = IF i <= Len(y) THEN y[i] ELSE rest[i - Len(y)]
      BY <3>2, <3>a, ConcatProperties
    <3>5. /\ new \in Seq(Cells) /\ Len(new) = n + 1 + z
          /\ \A i \in 1 .. n + 1 + z : i <= n + 1 => new[i] = y[i]
      BY <3>2, <3>a, <3>b, <3>c
    <3>6. \A i \in 1 .. n + 1 : new[i] = c[i]
      <4>. TAKE i \in 1 .. n + 1
      <4>1. i \in 1 .. n + 1 + z /\ i <= n + 1 /\ (i <= n \/ i = n + 1) /\ i - n = IF i = n + 1 THEN 1 ELSE i - n
        BY <1>1, <3>1
      <4>2. new[i] = (Values!Content(v) \o <<b>>)[i]
        BY <3>5, <4>1 DEF y
      <4>3. CASE i <= n
        BY <1>5, <3>4, <4>2, <4>3
      <4>4. CASE i = n + 1
        <5>1. ~ (i <= n) /\ i - n = 1
          BY <1>1, <4>4
        <5>. QED
          BY <1>5, <3>3, <3>4, <4>2, <4>4, <5>1
      <4>. QED
        BY <4>1, <4>3, <4>4
    <3>7. n + 1 <= n + 1 + z
      BY <1>1, <3>1
    <3>8. /\ blocks' \in Seq(Seq(Cells)) /\ Len(blocks') = m + 1 /\ blocks'[m + 1] = new
          /\ \A j \in 1 .. m : blocks'[j] = blocks[j]
      <4>1. blocks' = Append(blocks, new) /\ blocks \in Seq(Seq(Cells))
        BY <1>2, <2>1 DEF Stored, Shapes
      <4>. QED
        BY <3>5, <4>1, AppendProperties
    <3>9. DOMAIN blocks' = 1 .. m + 1
      BY <3>8, LenProperties
    <3>. HIDE DEF n, m, k
    <3>. QED
      BY <1>1, <1>7, <2>1, <3>5, <3>6, <3>7, <3>8, <3>9
  <2>2. CASE ~full
    <3>1. n + 1 \in 1 .. Len(blocks[k]) /\ n + 1 <= Len(blocks[k])
      BY <1>1, <2>2
    <3>2. /\ blocks' \in Seq(Seq(Cells)) /\ DOMAIN blocks' = DOMAIN blocks
          /\ \A j \in DOMAIN blocks : j # k => blocks'[j] = blocks[j]
          /\ blocks'[k] \in Seq(Cells) /\ Len(blocks'[k]) = Len(blocks[k])
          /\ \A j \in 1 .. Len(blocks[k]) : blocks'[k][j] = IF j = n + 1 THEN b ELSE blocks[k][j]
      <4>1. /\ k = values[v].at /\ values[v].kind # "bytes" /\ v \in DOMAIN values
            /\ n + 1 \in 1 .. Len(blocks[values[v].at]) /\ blocks' = Values!Written(v, n + 1, b)
        BY <1>1, <1>2, <2>2, <3>1
      <4>. DEFINE i == n + 1
      <4>. HIDE DEF k, n, i
      <4>2. /\ blocks' \in Seq(Seq(Cells)) /\ DOMAIN blocks' = DOMAIN blocks
            /\ \A j \in DOMAIN blocks : j # values[v].at => blocks'[j] = blocks[j]
            /\ blocks'[values[v].at] = [blocks[values[v].at] EXCEPT ![i] = b]
            /\ blocks'[values[v].at] \in Seq(Cells)
            /\ Len(blocks'[values[v].at]) = Len(blocks[values[v].at])
            /\ \A j \in 1 .. Len(blocks[values[v].at]) :
                 blocks'[values[v].at][j] = IF j = i THEN b ELSE blocks[values[v].at][j]
        <5>1. i \in 1 .. Len(blocks[values[v].at]) /\ blocks' = Values!Written(v, i, b)
          BY <4>1 DEF i
        <5>. QED
          BY <4>1, <5>1, WrittenIs
      <4>. QED
        BY <4>1, <4>2 DEF i
    <3>3. \A i \in 1 .. n + 1 : i \in 1 .. Len(blocks[k]) /\ (i = n + 1 \/ i \in 1 .. n) /\ 0 + i = i
      BY <1>1, <3>1
    <3>4. \A i \in 1 .. n + 1 : blocks'[k][i] = c[i]
      BY <1>4, <1>5, <3>2, <3>3
    <3>5. r.at = k
      BY <1>7, <2>2
    <3>. HIDE DEF n, m, k
    <3>. QED
      BY <1>1, <3>1, <3>2, <3>4, <3>5
  <2>. QED
    BY <2>1, <2>2
<1>. HIDE DEF k, n, m, full
<1>9. Values!Ops!Window(blocks'[r.at], 0, n + 1) = c
  <2>1. n + 1 \in Nat /\ 0 \in Nat /\ 0 + (n + 1) <= Len(blocks'[r.at]) /\ \A i \in 1 .. n + 1 : 0 + i = i
    BY <1>1, <1>8
  <2>2. /\ Values!Ops!Window(blocks'[r.at], 0, n + 1) \in Seq(Cells)
        /\ Len(Values!Ops!Window(blocks'[r.at], 0, n + 1)) = n + 1
        /\ \A i \in 1 .. n + 1 : Values!Ops!Window(blocks'[r.at], 0, n + 1)[i] = blocks'[r.at][0 + i]
    BY <1>8, <2>1, WindowIs
  <2>3. \A i \in 1 .. n + 1 : Values!Ops!Window(blocks'[r.at], 0, n + 1)[i] = c[i]
    BY <1>8, <2>1, <2>2
  <2>. QED
    BY <1>5, <2>2, <2>3, SeqEqual
<1>10. /\ \A j \in DOMAIN blocks : j # values[v].at => blocks'[j] = blocks[j]
       /\ r.at = values[v].at \/ r.at \notin DOMAIN blocks
       /\ r.len <= Len(blocks'[r.at]) /\ r.len <= MaxLength
       /\ Values!Ops!Window(blocks'[r.at], 0, r.len) = c
       /\ r.kind = values[v].kind /\ values[v].kind # "bytes"
  <2>1. n + 1 <= MaxLength
    BY <1>1, <1>2 DEF Values!StoreAssumption
  <2>. QED
    BY <1>1, <1>7, <1>8, <1>9, <2>1 DEF k
<1>. QED
  BY <1>1, <1>2, <1>3, <1>6, <1>7, <1>8, <1>10, OneChanged
-----------------------------------------------------------------------------
(* The operations on buffers that tasks are in.                            *)

LEMMA BusyAlike ==
  ASSUME BusySound, busy' = busy,
         \A v \in DOMAIN values : v \in DOMAIN values' /\ values'[v] = values[v]
  PROVE  BusySound'
BY DEF BusySound

LEMMA BusyChanged ==
  ASSUME BusySound, NEW t \in Tasks, NEW r \in Values!Busy \cup {None}, busy' = [busy EXCEPT ![t] = r],
         \A v \in DOMAIN values : v \in DOMAIN values' /\ values'[v] = values[v],
         r # None =>
           /\ r.v \in DOMAIN values /\ values[r.v].kind = "mbuf"
           /\ r.at <= r.to /\ r.to <= values[r.v].len
           /\ r.pc = "copy" => Len(r.got) = r.at
  PROVE  BusySound'
<1>1. \A u \in Tasks : busy'[u] = IF u = t THEN r ELSE busy[u]
  BY DEF BusySound
<1>2. busy' \in [Tasks -> Values!Busy \cup {None}]
  BY DEF BusySound
<1>. QED
  BY <1>1, <1>2 DEF BusySound

\* Where there are no buffers no task is in an operation.
LEMMA NoBuffers ==
  ASSUME BusySound, Values!Of("mbuf") = {}, busy' = busy
  PROVE  BusySound'
BY DEF BusySound, Values!Of

LEMMA ByteKeeps ==
  ASSUME Values!StoreAssumption, StoreInv, Values!MakeBytes
  PROVE  StoreInv'
<1>1. \A v \in Values!Of("bytes") : v \in DOMAIN values /\ Values!Content(v) \in Seq(Cells)
  BY ContentIs DEF StoreInv, Values!Of
<1>2. \A n \in Values!Lengths : n \in Nat
  BY DEF Values!Lengths, Values!StoreAssumption
<1>3. ASSUME NEW c \in Seq(Cells), Values!NewBytes(c)
      PROVE  Stored' /\ (\A v \in DOMAIN values : v \in DOMAIN values' /\ values'[v] = values[v])
             /\ busy' = busy /\ lock' = lock
  BY <1>3, PutStores DEF Values!NewBytes, StoreInv
<1>4. ASSUME NEW c, c \in Seq(Cells), Values!NewBytes(c) PROVE StoreInv'
  BY <1>3, <1>4, BusyAlike DEF StoreInv
<1>5. ASSUME NEW n \in Values!Lengths, Values!Zeros(n) PROVE StoreInv'
  <2>1. Values!Ops!Zeros(n) \in Seq(Cells)
    BY <1>2, ZerosAre
  <2>. QED
    BY <1>4, <1>5, <2>1 DEF Values!Zeros
<1>6. ASSUME NEW b \in Cells, Values!FromU8(b) PROVE StoreInv'
  <2>1. <<b>> \in Seq(Cells)
    OBVIOUS
  <2>. QED
    BY <1>4, <1>6, <2>1 DEF Values!FromU8
<1>7. ASSUME NEW v \in Values!Of("bytes"), NEW w \in Values!Of("bytes"), Values!Concat(v, w) PROVE StoreInv'
  <2>1. Values!Ops!Concat(<<Values!Content(v), Values!Content(w)>>) \in Seq(Cells)
    BY <1>1, ConcatIs
  <2>. QED
    BY <1>4, <1>7, <2>1 DEF Values!Concat
<1>8. ASSUME NEW v \in Values!Of("bytes"), NEW w \in Values!Of("bytes"), NEW off \in Values!Lengths, Values!WriteAt(v, off, w)
      PROVE  StoreInv'
  <2>1. Values!Ops!WriteAt(Values!Content(v), off, Values!Content(w)) \in Seq(Cells)
    BY <1>1, <1>2, WriteAtIs
  <2>. QED
    BY <1>4, <1>8, <2>1 DEF Values!WriteAt
<1>9. ASSUME NEW v \in Values!Of("bytes"), NEW off \in Values!Lengths, NEW n \in Values!Lengths, Values!Slice(v, off, n)
      PROVE  StoreInv'
  <2>1. /\ Stored' /\ \A w \in DOMAIN values : w \in DOMAIN values' /\ values'[w] = values[w]
    BY <1>2, <1>9, SliceStores DEF StoreInv
  <2>2. busy' = busy /\ lock' = lock
    BY <1>9 DEF Values!Slice
  <2>. QED
    BY <2>1, <2>2, BusyAlike DEF StoreInv
<1>10. ASSUME NEW v \in Values!Of("bytes"), NEW off \in Values!Lengths, NEW n \in Values!Lengths, NEW b \in Cells,
              Values!Fill(v, off, n, b)
       PROVE  StoreInv'
  <2>1. Values!Ops!Fill(Values!Content(v), off, n, b) \in Seq(Cells)
    BY <1>1, <1>2, FillIs
  <2>. QED
    BY <1>4, <1>10, <2>1 DEF Values!Fill
<1>11. ASSUME NEW v \in Values!Of("bytes"), Values!Swap16(v) PROVE StoreInv'
  <2>1. Values!Ops!Swap(Values!Content(v), 2) \in Seq(Cells)
    BY <1>1, SwapIs
  <2>. QED
    BY <1>4, <1>11, <2>1 DEF Values!Swap16
<1>. QED
  BY <1>5, <1>6, <1>7, <1>8, <1>9, <1>10, <1>11 DEF Values!MakeBytes

LEMMA ArrayKeeps ==
  ASSUME Values!StoreAssumption, StoreInv, Values!Of("mbuf") = {}, Values!UseArray
  PROVE  StoreInv'
<1>1. \A v \in Values!Of("array") :
        /\ v \in DOMAIN values /\ values[v].kind = "array" /\ values[v].len \in Nat
        /\ Values!Content(v) \in Seq(Cells) /\ Len(Values!Content(v)) = values[v].len
  BY ContentIs, Types DEF StoreInv, Values!Of, Stored
<1>2. \A n \in Values!Lengths : n \in Nat
  BY DEF Values!Lengths, Values!StoreAssumption
<1>3. ASSUME Stored', busy' = busy, lock' = lock PROVE StoreInv'
  BY <1>3, NoBuffers DEF StoreInv
<1>4. ASSUME NEW c, c \in Seq(Cells), Values!NewArray(c) PROVE StoreInv'
  BY <1>3, <1>4, PutStores DEF Values!NewArray, StoreInv
<1>5. ASSUME NEW b \in Cells, Values!NewArray(<<b>>) PROVE StoreInv'
  <2>1. <<b>> \in Seq(Cells)
    OBVIOUS
  <2>. QED
    BY <1>4, <1>5, <2>1
<1>6. ASSUME NEW v \in Values!Of("array"), Values!Clone(v) PROVE StoreInv'
  BY <1>1, <1>4, <1>6 DEF Values!Clone
<1>7. ASSUME NEW v \in Values!Of("array"), Values!Pop(v) PROVE StoreInv'
  BY <1>3, <1>7, PopStores DEF StoreInv, Values!Pop
<1>8. ASSUME NEW v \in Values!Of("array"), NEW i \in Values!Lengths, NEW n \in Values!Lengths, Values!SliceArray(v, i, n)
      PROVE  StoreInv'
  <2>. DEFINE w == Values!Ops!SliceOf(values[v].len, i, n)
  <2>1. w.from \in Nat /\ w.len \in Nat /\ w.from + w.len <= Len(Values!Content(v))
    BY <1>1, <1>2, SliceWithin
  <2>2. Values!NewArray(Values!Ops!Window(Values!Content(v), w.from, w.len))
    BY <1>8 DEF Values!SliceArray
  <2>. HIDE DEF w
  <2>3. Values!Ops!Window(Values!Content(v), w.from, w.len) \in Seq(Cells)
    BY <1>1, <2>1, WindowIs
  <2>. QED
    BY <1>4, <2>2, <2>3
<1>9. ASSUME NEW v \in Values!Of("array"), NEW b \in Cells, Values!Push(v, b) PROVE StoreInv'
  BY <1>3, <1>9, PushStores DEF StoreInv, Values!Push
<1>10. ASSUME NEW v \in Values!Of("array"), NEW b \in Cells, NEW i \in Values!Lengths, Values!SetIndex(v, i, b)
       PROVE  StoreInv'
  <2>1. /\ i \in 1 .. values[v].len /\ blocks' = Values!Written(v, i, b)
        /\ meant' = [meant EXCEPT ![v][i] = b] /\ values' = values /\ busy' = busy /\ lock' = lock
    BY <1>10 DEF Values!SetIndex
  <2>2. v \in DOMAIN values /\ values[v].kind # "bytes" /\ Stored
    BY <1>1 DEF StoreInv
  <2>3. Stored'
    BY <2>1, <2>2, WriteStores
  <2>. QED
    BY <1>3, <2>1, <2>3
<1>. QED
  BY <1>5, <1>6, <1>7, <1>8, <1>9, <1>10 DEF Values!UseArray

\* The buffer whose operation a task is in.
LEMMA BusyIs ==
  ASSUME Values!StoreAssumption, StoreInv, NEW t \in Tasks, busy[t] # None
  PROVE  /\ busy[t] \in Values!Busy /\ busy[t].v \in DOMAIN values /\ values[busy[t].v].kind = "mbuf"
         /\ busy[t].at \in Nat /\ busy[t].to \in Nat /\ busy[t].b \in Cells
         /\ busy[t].at <= busy[t].to /\ busy[t].to <= values[busy[t].v].len
         /\ busy[t].to <= MaxLength /\ values[busy[t].v].len \in Nat
         /\ busy[t].got \in Seq(Cells) /\ Len(busy[t].got) \in Nat
         /\ busy[t].pc = "copy" => Len(busy[t].got) = busy[t].at
<1>1. busy[t] \in Values!Busy
  BY DEF StoreInv, BusySound
<1>2. /\ busy[t].at \in Nat /\ busy[t].to \in Nat /\ busy[t].to <= MaxLength /\ busy[t].b \in Cells
      /\ busy[t].got \in Values!Contents
  BY <1>1 DEF Values!Busy, Values!StoreAssumption
<1>3. busy[t].got \in Seq(Cells) /\ Len(busy[t].got) \in Nat
  BY <1>2, ContentsAre, LenProperties
<1>4. /\ busy[t].v \in DOMAIN values /\ values[busy[t].v].kind = "mbuf"
      /\ busy[t].at <= busy[t].to /\ busy[t].to <= values[busy[t].v].len
      /\ busy[t].pc = "copy" => Len(busy[t].got) = busy[t].at
  BY DEF StoreInv, BusySound
<1>5. values[busy[t].v].len \in Nat
  BY <1>4, Types DEF StoreInv, Stored
<1>. QED
  BY <1>1, <1>2, <1>3, <1>4, <1>5

\* A fill goes on to the next cell, which lies within its buffer.
LEMMA FillKeeps ==
  ASSUME Values!StoreAssumption, StoreInv, NEW t \in Tasks, Values!MFillWrite(t)
  PROVE  StoreInv'
<1>. DEFINE v == busy[t].v
            i == busy[t].at + 1
            b == busy[t].b
            r == [busy[t] EXCEPT !.at = @ + 1]
<1>1. /\ busy[t] # None /\ busy[t].pc = "fill" /\ busy[t].at < busy[t].to
      /\ blocks' = Values!Written(v, i, b) /\ meant' = [meant EXCEPT ![v][i] = b]
      /\ busy' = [busy EXCEPT ![t].at = @ + 1] /\ values' = values /\ lock' = lock
  BY DEF Values!MFillWrite
<1>2. /\ busy[t] \in Values!Busy /\ v \in DOMAIN values /\ values[v].kind = "mbuf"
      /\ busy[t].at \in Nat /\ busy[t].to \in Nat /\ b \in Cells
      /\ busy[t].to <= values[v].len /\ busy[t].to <= MaxLength /\ values[v].len \in Nat
  BY <1>1, BusyIs
<1>3. i \in 1 .. values[v].len /\ i <= busy[t].to /\ i \in 0 .. MaxLength
  BY <1>1, <1>2 DEF Values!StoreAssumption
<1>4. /\ r \in Values!Busy /\ r.v = v /\ r.at = i /\ r.to = busy[t].to /\ r.pc = "fill"
  <2>1. busy[t].at + 1 \in 0 .. MaxLength
    BY <1>3
  <2>. QED
    BY <1>1, <1>2, <2>1 DEF Values!Busy
<1>5. busy' = [busy EXCEPT ![t] = r]
  BY <1>1
<1>6. Stored'
  <2>1. values[v].kind # "bytes" /\ Stored
    BY <1>2 DEF StoreInv
  <2>. HIDE DEF v, i, b
  <2>. QED
    BY <1>1, <1>2, <1>3, <2>1, WriteStores
<1>7. BusySound'
  <2>1. /\ r.v \in DOMAIN values /\ values[r.v].kind = "mbuf" /\ r.at <= r.to
        /\ r.to <= values[r.v].len /\ r.pc # "copy"
    BY <1>2, <1>3, <1>4
  <2>2. \A w \in DOMAIN values : w \in DOMAIN values' /\ values'[w] = values[w]
    BY <1>1
  <2>3. r \in Values!Busy \cup {None} /\ BusySound
    BY <1>4 DEF StoreInv
  <2>. HIDE DEF r
  <2>. QED
    BY <1>5, <2>1, <2>2, <2>3, BusyChanged
<1>. QED
  BY <1>1, <1>6, <1>7 DEF StoreInv

\* A copy goes on to the next cell.
LEMMA CopyFinishes ==
  ASSUME Values!StoreAssumption, StoreInv, NEW t \in Tasks, Values!MBytesCopy(t)
  PROVE  StoreInv'
<1>. DEFINE x == Values!Content(busy[t].v)[busy[t].at + 1]
            g == Append(busy[t].got, x)
            r == [busy[t] EXCEPT !.at = @ + 1, !.got = g]
<1>1. /\ busy[t] # None /\ busy[t].pc = "copy" /\ busy[t].at < busy[t].to
      /\ busy' = [busy EXCEPT ![t].at = @ + 1, ![t].got = Append(@, x)]
      /\ blocks' = blocks /\ values' = values /\ meant' = meant /\ lock' = lock
  BY DEF Values!MBytesCopy
<1>2. /\ busy[t] \in Values!Busy /\ busy[t].v \in DOMAIN values /\ values[busy[t].v].kind = "mbuf"
      /\ busy[t].at \in Nat /\ busy[t].to \in Nat /\ busy[t].got \in Seq(Cells)
      /\ busy[t].to <= values[busy[t].v].len /\ busy[t].to <= MaxLength
      /\ values[busy[t].v].len \in Nat /\ Len(busy[t].got) = busy[t].at
  BY <1>1, BusyIs
<1>3. /\ busy[t].at + 1 \in 1 .. values[busy[t].v].len /\ busy[t].at + 1 <= busy[t].to
      /\ busy[t].at + 1 \in 0 .. MaxLength /\ busy[t].at + 1 <= MaxLength
  BY <1>1, <1>2, SMTT(30) DEF Values!StoreAssumption
<1>4. x \in Cells
  <2>1. /\ Values!Content(busy[t].v) \in Seq(Cells) /\ Len(Values!Content(busy[t].v)) = values[busy[t].v].len
    BY <1>2, ContentIs DEF StoreInv
  <2>. QED
    BY <1>3, <2>1, ElementOfSeq
<1>. HIDE DEF x
<1>5. g \in Seq(Cells) /\ Len(g) = busy[t].at + 1
  BY <1>2, <1>4, AppendProperties
<1>6. g \in Values!Contents
  BY <1>3, <1>5, ContentsAre
<1>7. busy' = [busy EXCEPT ![t] = r]
  BY <1>1
<1>. HIDE DEF g
<1>8. r \in Values!Busy /\ r.v = busy[t].v /\ r.at = busy[t].at + 1 /\ r.to = busy[t].to /\ r.got = g
  BY <1>2, <1>3, <1>6 DEF Values!Busy
<1>9. BusySound'
  <2>1. /\ r.v \in DOMAIN values /\ values[r.v].kind = "mbuf" /\ r.at <= r.to
        /\ r.to <= values[r.v].len /\ Len(r.got) = r.at
    BY <1>2, <1>3, <1>5, <1>8
  <2>2. \A w \in DOMAIN values : w \in DOMAIN values' /\ values'[w] = values[w]
    BY <1>1
  <2>3. r \in Values!Busy \cup {None} /\ BusySound
    BY <1>8 DEF StoreInv
  <2>. HIDE DEF r
  <2>. QED
    BY <1>7, <2>1, <2>2, <2>3, BusyChanged
<1>10. Stored'
  BY <1>1 DEF StoreInv, Stored, Shapes, Inside, Owned, Values!StorageMeans, Values!Content
<1>. QED
  BY <1>1, <1>9, <1>10 DEF StoreInv

LEMMA BufferKeeps ==
  ASSUME Values!StoreAssumption, StoreInv, NEW t \in Tasks, Values!UseBuffer(t)
  PROVE  StoreInv'
<1>1. \A v \in Values!Of("mbuf") :
        /\ v \in DOMAIN values /\ values[v].kind = "mbuf" /\ values[v].len \in 0 .. MaxLength
        /\ v \in 1 .. MaxValues
  <2>. SUFFICES ASSUME NEW v \in Values!Of("mbuf")
                PROVE  /\ v \in DOMAIN values /\ values[v].kind = "mbuf"
                       /\ values[v].len \in 0 .. MaxLength /\ v \in 1 .. MaxValues
    OBVIOUS
  <2>1. v \in DOMAIN values /\ values[v].kind = "mbuf"
    BY DEF Values!Of
  <2>2. /\ values[v] \in Values!ValueRec /\ DOMAIN values = 1 .. Len(values) /\ Len(values) \in Nat
        /\ Len(values) <= MaxValues /\ MaxValues \in Nat
    BY <2>1, Types DEF StoreInv, Stored, Shapes, Values!StoreAssumption
  <2>3. values[v].len \in 0 .. MaxLength
    BY <2>2 DEF Values!ValueRec
  <2>. QED
    BY <2>1, <2>2, <2>3
<1>2. \A n \in Values!Lengths : n \in Nat /\ n \in 0 .. MaxLength
  BY DEF Values!Lengths, Values!StoreAssumption
<1>3. <<>> \in Values!Contents
  <2>1. <<>> \in Seq(Cells) /\ Len(<<>>) = 0 /\ 0 <= MaxLength
    BY EmptySeq DEF Values!StoreAssumption
  <2>. QED
    BY <2>1, ContentsAre
<1>4. ASSUME NEW n \in Values!Lengths, Values!MBuf(t, n) PROVE StoreInv'
  <2>1. Values!Ops!Zeros(n) \in Seq(Cells) /\ Values!Put("mbuf", Values!Ops!Zeros(n)) /\ busy' = busy /\ lock' = lock
    BY <1>2, <1>4, ZerosAre DEF Values!MBuf
  <2>2. Stored' /\ \A v \in DOMAIN values : v \in DOMAIN values' /\ values'[v] = values[v]
    BY <2>1, PutStores DEF StoreInv
  <2>. QED
    BY <2>1, <2>2, BusyAlike DEF StoreInv
<1>5. ASSUME NEW v \in Values!Of("mbuf"), NEW b \in Cells, NEW i \in Values!Lengths, Values!MSet(t, v, i, b) PROVE StoreInv'
  <2>1. /\ i \in 1 .. values[v].len /\ blocks' = Values!Written(v, i, b)
        /\ meant' = [meant EXCEPT ![v][i] = b] /\ values' = values /\ busy' = busy /\ lock' = lock
    BY <1>5 DEF Values!MSet
  <2>2. v \in DOMAIN values /\ values[v].kind # "bytes" /\ Stored
    BY <1>1 DEF StoreInv
  <2>3. Stored'
    BY <2>1, <2>2, WriteStores
  <2>. QED
    BY <2>1, <2>3, BusyAlike DEF StoreInv
<1>6. ASSUME blocks' = blocks, values' = values, meant' = meant, lock' \in Tasks \cup {None},
             NEW r, r \in Values!Busy \cup {None}, busy' = [busy EXCEPT ![t] = r],
             r # None =>
               /\ r.v \in DOMAIN values /\ values[r.v].kind = "mbuf"
               /\ r.at <= r.to /\ r.to <= values[r.v].len
               /\ r.pc = "copy" => Len(r.got) = r.at
      PROVE  StoreInv'
  <2>1. \A v \in DOMAIN values : v \in DOMAIN values' /\ values'[v] = values[v]
    BY <1>6
  <2>2. BusySound'
    BY <1>6, <2>1, BusyChanged DEF StoreInv
  <2>3. Stored'
    BY <1>6 DEF StoreInv, Stored, Shapes, Inside, Owned, Values!StorageMeans, Values!Content
  <2>. QED
    BY <1>6, <2>2, <2>3 DEF StoreInv
<1>7. ASSUME NEW v \in Values!Of("mbuf"), NEW b \in Cells, NEW i \in Values!Lengths, NEW n \in Values!Lengths,
             Values!MFillBegin(t, v, i, n, b)
      PROVE  StoreInv'
  <2>. DEFINE r == [pc |-> "fill", v |-> v, at |-> i, to |-> i + n, b |-> b, got |-> <<>>]
  <2>1. /\ i + n <= values[v].len /\ lock' = t /\ busy' = [busy EXCEPT ![t] = r]
        /\ blocks' = blocks /\ values' = values /\ meant' = meant
    BY <1>7 DEF Values!MFillBegin
  <2>2. i + n \in 0 .. MaxLength /\ i <= i + n
    <3>. DEFINE l == values[v].len
    <3>1. l \in 0 .. MaxLength /\ i + n <= l
      BY <1>1, <2>1
    <3>. HIDE DEF l
    <3>. QED
      BY <1>2, <3>1 DEF Values!StoreAssumption
  <2>3. /\ r \in Values!Busy /\ r.v = v /\ r.at = i /\ r.to = i + n /\ r.pc # "copy"
    BY <1>1, <1>2, <1>3, <2>2 DEF Values!Busy
  <2>. HIDE DEF r
  <2>. QED
    BY <1>1, <1>6, <2>1, <2>2, <2>3
<1>8. ASSUME NEW v \in Values!Of("mbuf"), Values!MBytesBegin(t, v) PROVE StoreInv'
  <2>. DEFINE x == CHOOSE b \in Cells : TRUE
              r == [pc |-> "copy", v |-> v, at |-> 0, to |-> values[v].len, b |-> x, got |-> <<>>]
  <2>1. /\ lock' = lock /\ busy' = [busy EXCEPT ![t] = r]
        /\ blocks' = blocks /\ values' = values /\ meant' = meant
    BY <1>8 DEF Values!MBytesBegin
  <2>2. x \in Cells
    BY DEF Values!StoreAssumption
  <2>. HIDE DEF x
  <2>3. 0 \in 0 .. MaxLength /\ 0 <= values[v].len /\ values[v].len <= values[v].len /\ Len(<<>>) = 0
    BY <1>1, EmptySeq DEF Values!StoreAssumption
  <2>4. /\ r \in Values!Busy /\ r.v = v /\ r.at = 0 /\ r.to = values[v].len /\ r.got = <<>>
    BY <1>1, <1>3, <2>2, <2>3 DEF Values!Busy
  <2>. HIDE DEF r
  <2>. QED
    BY <1>1, <1>6, <2>1, <2>3, <2>4 DEF StoreInv
<1>9. CASE Values!MFillWrite(t)
  BY <1>9, FillKeeps
<1>10. CASE Values!MFillEnd(t)
  BY <1>6, <1>10 DEF Values!MFillEnd
<1>11. CASE Values!MBytesCopy(t)
  BY <1>11, CopyFinishes
<1>12. CASE Values!MBytesEnd(t)
  <2>1. busy[t] # None /\ Values!Put("bytes", busy[t].got) /\ busy' = [busy EXCEPT ![t] = None]
        /\ lock' = lock
    BY <1>12 DEF Values!MBytesEnd
  <2>2. busy[t].got \in Seq(Cells)
    BY <2>1, BusyIs
  <2>3. Stored' /\ \A v \in DOMAIN values : v \in DOMAIN values' /\ values'[v] = values[v]
    BY <2>1, <2>2, PutStores DEF StoreInv
  <2>4. BusySound'
    BY <2>1, <2>3, BusyChanged DEF StoreInv
  <2>. QED
    BY <2>1, <2>3, <2>4 DEF StoreInv
<1>. QED
  BY <1>4, <1>5, <1>7, <1>8, <1>9, <1>10, <1>11, <1>12 DEF Values!UseBuffer
-----------------------------------------------------------------------------
(* The theorems.                                                           *)

LEMMA StoreInit == Values!StoreAssumption /\ Values!Init => StoreInv
<1>. SUFFICES ASSUME Values!StoreAssumption, Values!Init PROVE StoreInv
  OBVIOUS
<1>1. blocks = <<>> /\ values = <<>> /\ meant = <<>> /\ busy = [t \in Tasks |-> None] /\ lock = None
  BY DEF Values!Init
<1>2. Len(values) = 0 /\ DOMAIN values = {} /\ 0 <= MaxValues
  BY <1>1 DEF Values!StoreAssumption
<1>3. Shapes
  BY <1>1, <1>2 DEF Shapes
<1>4. Inside /\ Owned /\ Values!StorageMeans
  BY <1>2 DEF Inside, Owned, Values!StorageMeans
<1>5. BusySound
  BY <1>1 DEF BusySound
<1>. QED
  BY <1>1, <1>3, <1>4, <1>5 DEF StoreInv, Stored

LEMMA StoreNext == Values!StoreAssumption /\ StoreInv /\ [Values!Next]_(Values!vars) => StoreInv'
<1>. SUFFICES ASSUME Values!StoreAssumption, StoreInv, [Values!Next]_(Values!vars) PROVE StoreInv'
  OBVIOUS
<1>1. CASE Values!MakeBytes
  BY <1>1, ByteKeeps
<1>2. ASSUME NEW t \in Tasks, Values!UseBuffer(t) PROVE StoreInv'
  BY <1>2, BufferKeeps
<1>3. CASE Values!Of("bytes") \cup Values!Of("mbuf") = {} /\ Values!UseArray
  <2>1. Values!Of("mbuf") = {}
    BY <1>3
  <2>. QED
    BY <1>3, <2>1, ArrayKeeps
<1>4. CASE UNCHANGED Values!vars
  BY <1>4 DEF Values!vars, StoreInv, Stored, Shapes, Inside, Owned, Values!StorageMeans, Values!Content, BusySound
<1>. QED
  BY <1>1, <1>2, <1>3, <1>4 DEF Values!Next

LEMMA StoreAlways == Spec => []StoreInv
<1>1. Init => StoreInv
  BY StoreInit, ServicesAssumption DEF Init
<1>2. StoreInv /\ [Next]_vars => StoreInv'
  <2>1. [Next]_vars => [Values!Next]_(Values!vars)
    BY DEF Next, ProxyMoves, HandlesMove, ValuesMove, vars, valueVars, Values!vars
  <2>. QED
    BY <2>1, StoreNext, ServicesAssumption
<1>. QED
  BY <1>1, <1>2, PTL DEF Spec

\* The variables of ValueStore keep their types.
THEOREM StoreTypes == Spec => []Values!TypeOK
<1>1. ASSUME StoreInv PROVE Values!TypeOK
  <2>1. Values!StoreAssumption /\ Stored /\ Shapes
    BY <1>1, ServicesAssumption DEF StoreInv, Stored
  <2>2. /\ \A k \in DOMAIN blocks : blocks[k] \in Seq(Cells)
        /\ \A v \in DOMAIN values : values[v] \in Values!ValueRec
        /\ DOMAIN values = 1 .. Len(values) /\ Len(meant) = Len(values)
        /\ meant \in Seq(Values!Contents)
    BY <2>1, Types DEF Shapes
  <2>3. \A v \in DOMAIN values : meant[v] \in Values!Contents
    BY <2>2, ElementOfSeq
  <2>. QED
    BY <1>1, <2>2, <2>3 DEF StoreInv, BusySound, Values!TypeOK
<1>. QED
  BY <1>1, StoreAlways, PTL

\* Whatever blocks bytes, arrays and buffers share, in whatever order they are
\* sliced, cloned, grown, shrunk and written, each holds what it would hold if
\* it shared nothing.
THEOREM SharingShowsInNoValue == Spec => []StorageMeans
<1>1. StoreInv => StorageMeans
  BY DEF StoreInv, Stored, StorageMeans, Values!StorageMeans
<1>. QED
  BY <1>1, StoreAlways, PTL

\* All variables of the services of a process keep their types: every listener
\* and connection that the proxy's goroutines hold is one that was opened, no
\* counter passes the number of objects opened, and no slice, write, fill or
\* copy reaches outside the block it works on.
THEOREM TypeCorrect == Spec => []TypeOK
<1>1. Proxy!TypeOK /\ Handles!TypeOK /\ Values!TypeOK => TypeOK
  BY DEF TypeOK
<1>. QED
  BY <1>1, ProxyTypes, HandleTypes, StoreTypes, PTL
-----------------------------------------------------------------------------
(* What the operations on bytes compute.                                   *)

Byte == INSTANCE ByteOps

LEMMA LargerOf ==
  ASSUME NEW a \in Int, NEW b \in Int
  PROVE  /\ b <= a => Byte!Max({a, b}) = a
         /\ a <= b => Byte!Max({a, b}) = b
         /\ a <= b => Byte!Min({a, b}) = a
         /\ b <= a => Byte!Min({a, b}) = b
<1>1. /\ \A x \in {a, b} : (\A y \in {a, b} : x >= y) => (b <= a => x = a) /\ (a <= b => x = b)
      /\ \A x \in {a, b} : (\A y \in {a, b} : x <= y) => (a <= b => x = a) /\ (b <= a => x = b)
  OBVIOUS
<1>2. /\ \E x \in {a, b} : \A y \in {a, b} : x >= y
      /\ \E x \in {a, b} : \A y \in {a, b} : x <= y
  OBVIOUS
<1>. QED
  BY <1>1, <1>2 DEF Byte!Max, Byte!Min

\* A row of n numbers is a sequence.
LEMMA RowIsSeq ==
  ASSUME NEW n \in Nat, NEW f \in [1 .. n -> Int]
  PROVE  f \in Seq(Int) /\ Len(f) = n
<1>1. f \in Seq(Int)
  BY DEF Seq
<1>. QED
  BY <1>1, LenProperties

\* Functions that agree everywhere.
LEMMA RowsEqual ==
  ASSUME NEW S, NEW f \in [S -> Int], NEW g \in [S -> Int], \A i \in S : f[i] = g[i]
  PROVE  f = g
OBVIOUS

\* What a window shows, and that a read within the bytes is a window.
LEMMA WindowShows ==
  ASSUME NEW bs \in Seq(Int), NEW off \in Nat, NEW n \in Nat, off + n <= Len(bs)
  PROVE  /\ Byte!U(bs, off, n) = Byte!Window(bs, off, n)
         /\ Byte!Window(bs, off, n) \in Seq(Int) /\ Len(Byte!Window(bs, off, n)) = n
         /\ Byte!Window(bs, off, n) \in [1 .. n -> Int]
         /\ \A i \in 1 .. n : Byte!Window(bs, off, n)[i] = bs[off + i]
<1> DEFINE lo == off + 1
           hi == off + n
           w == SubSeq(bs, lo, hi)
<1>1. Len(bs) \in Nat /\ \A i \in 1 .. Len(bs) : bs[i] \in Int
  BY LenProperties, ElementOfSeq
<1>2. /\ lo \in Int /\ hi \in Int /\ hi - lo + 1 = n /\ (n # 0 => lo <= hi) /\ (lo <= hi => n # 0)
      /\ \A i \in lo .. hi : bs[i] \in Int
      /\ \A i \in 1 .. n : lo + i - 1 = off + i
  BY <1>1
<1>a. lo \in Int /\ hi \in Int /\ \A i \in lo .. hi : bs[i] \in Int
  BY <1>2
<1> HIDE DEF lo, hi
<1>3. /\ w \in Seq(Int) /\ Len(w) = IF lo <= hi THEN hi - lo + 1 ELSE 0
      /\ \A i \in 1 .. hi - lo + 1 : w[i] = bs[lo + i - 1]
  BY <1>a, SubSeqProperties
<1>4. Len(w) = n
  BY <1>2, <1>3
<1>5. \A i \in 1 .. n : w[i] = bs[off + i]
  BY <1>2, <1>3
<1>6. w \in [1 .. n -> Int]
  BY <1>3, <1>4, LenProperties
<1> HIDE DEF w
<1>7. Byte!Window(bs, off, n) = w
  BY DEF Byte!Window, w, lo, hi
<1>8. Byte!U(bs, off, n) = Byte!Window(bs, off, n)
  BY <1>1 DEF Byte!U, Byte!InBounds
<1>. QED
  BY <1>3, <1>4, <1>5, <1>6, <1>7, <1>8

LEMMA Read ==
  ASSUME NEW bs \in Seq(Int), NEW off \in Nat, NEW n \in Nat, off + n <= Len(bs)
  PROVE  Byte!U(bs, off, n) \in [1 .. n -> Int] /\ \A i \in 1 .. n : Byte!U(bs, off, n)[i] = bs[off + i]
BY WindowShows

LEMMA NumberPacked ==
  ASSUME NEW x \in Seq(Int)
  PROVE  /\ Byte!FromU32le(<<x>>) = Byte!Digits(x, 4)
         /\ Byte!Digits(x, 4) \in [1 .. 4 -> Int]
<1> DEFINE p == Byte!Digits(x, 4)
           s == [k \in DOMAIN <<x>> |-> Byte!Digits(<<x>>[k], 4)]
<1>1. p \in [1 .. 4 -> Int]
  BY LenProperties, ElementOfSeq DEF Byte!Digits
<1>2. s = <<p>>
  OBVIOUS
<1>3. Byte!FromU32le(<<x>>) = Byte!FlattenSeq(s)
  BY DEF Byte!FromU32le
<1> HIDE DEF p, s
<1> DEFINE f == CHOOSE f : f = [i \in 1 .. Len(<<p>>) |-> IF i = 1 THEN <<p>>[i] ELSE f[i - 1] \o <<p>>[i]]
<1>4. Byte!FlattenSeq(<<p>>) = f[1]
  BY DEF Byte!FlattenSeq
<1>5. f = [i \in 1 .. Len(<<p>>) |-> IF i = 1 THEN <<p>>[i] ELSE f[i - 1] \o <<p>>[i]]
  <2> DEFINE h == [i \in 1 .. 1 |-> p]
  <2>1. h = [i \in 1 .. Len(<<p>>) |-> IF i = 1 THEN <<p>>[i] ELSE h[i - 1] \o <<p>>[i]]
    OBVIOUS
  <2> HIDE DEF h
  <2>. QED
    BY <2>1
<1> HIDE DEF f
<1>6. f[1] = p
  BY <1>5
<1>. QED
  BY <1>1, <1>2, <1>3, <1>4, <1>6 DEF p

\* out is bs with patch written at off.
Written(out, bs, off, patch) ==
  /\ out \in Seq(Int) /\ Len(out) \in Nat /\ off + Len(patch) <= Len(out) /\ Len(bs) <= Len(out)
  /\ \A i \in 1 .. Len(out) :
       out[i] = IF i - off \in 1 .. Len(patch) THEN patch[i - off]
                ELSE IF i \in 1 .. Len(bs) THEN bs[i] ELSE 0

LEMMA WrittenAt ==
  ASSUME NEW bs \in Seq(Int), NEW off \in Nat, NEW patch \in Seq(Int)
  PROVE  Written(Byte!WriteAt(bs, off, patch), bs, off, patch)
<1> DEFINE out == Byte!WriteAt(bs, off, patch)
           len == Len(bs)
           end == off + Len(patch)
           m == Byte!Max({len, end})
           e(i) == IF i - off \in 1 .. Len(patch) THEN patch[i - off]
                   ELSE IF i \in 1 .. Len(bs) THEN bs[i] ELSE 0
<1>1. /\ Len(bs) \in Nat /\ Len(patch) \in Nat
      /\ DOMAIN bs = 1 .. Len(bs) /\ DOMAIN patch = 1 .. Len(patch)
      /\ \A i \in 1 .. Len(bs) : bs[i] \in Int
      /\ \A i \in 1 .. Len(patch) : patch[i] \in Int
  BY LenProperties, ElementOfSeq
<1>2. len \in Nat /\ end \in Nat
  BY <1>1
<1>3. m \in Nat /\ end <= m /\ len <= m /\ (m = len \/ m = end)
  <2> HIDE DEF len, end, m
  <2>1. len <= end => m = end
    BY <1>2, LargerOf DEF m
  <2>2. end <= len => m = len
    BY <1>2, LargerOf DEF m
  <2>. QED
    BY <1>2, <2>1, <2>2
<1> HIDE DEF m
<1>4. out = [i \in 1 .. m |-> e(i)]
  BY <1>1 DEF Byte!WriteAt, m
<1>5. \A i \in 1 .. m : e(i) \in Int
  BY <1>1
<1> HIDE DEF out, e
<1>6. out \in [1 .. m -> Int]
  BY <1>4, <1>5
<1>7. out \in Seq(Int) /\ Len(out) = m
  BY <1>3, <1>6, RowIsSeq
<1>8. \A i \in 1 .. m : out[i] = e(i)
  BY <1>4
<1>. QED
  BY <1>3, <1>7, <1>8 DEF out, e, Written

\* What is read from a slice lies in its source, behind the start.
LEMMA SliceReads ==
  ASSUME NEW out \in Seq(Int), NEW s \in 0 .. Len(out), NEW e \in 0 .. Len(out), NEW n \in Nat \ {0},
         NEW w, w = Byte!SliceOf(Len(out), s, e), NEW i \in Nat, i + n <= w.len
  PROVE  Byte!U(Byte!Window(out, w.from, w.len), i, n) = Byte!U(out, s + i, n)
<1>1. Len(out) \in Nat
  BY LenProperties
<1>2. w.from = (IF s <= e THEN s ELSE e) /\ w.len = e - w.from
  <2> DEFINE len == Len(out)
  <2>0. len \in Int /\ s \in Int /\ e \in Int /\ e <= len /\ 0 <= s /\ 0 \in Int
    BY <1>1
  <2> HIDE DEF len
  <2>1. Byte!Min({e, len}) = e
    BY <2>0, LargerOf
  <2>2. Byte!Max({s, 0}) = s
    BY <2>0, LargerOf
  <2>3. Byte!Min({s, e}) = IF s <= e THEN s ELSE e
    <3>1. CASE s <= e
      BY <2>0, <3>1, LargerOf
    <3>2. CASE e <= s
      BY <2>0, <3>2, LargerOf
    <3>. QED
      BY <2>0, <3>1, <3>2
  <2>. QED
    BY <2>1, <2>2, <2>3 DEF Byte!SliceOf, len
<1>3. w.len \in Nat /\ w.from = s /\ s + w.len <= Len(out) /\ (s + i) + n <= Len(out)
  BY <1>1, <1>2
<1> DEFINE l == w.len
           v == Byte!Window(out, s, l)
<1>4. l \in Nat /\ s + l <= Len(out) /\ i \in Nat /\ i + n <= l /\ s \in Nat /\ s + i \in Nat /\ n \in Nat
  BY <1>1, <1>3
<1> HIDE DEF l
<1>5. v \in Seq(Int) /\ Len(v) = l /\ \A k \in 1 .. l : v[k] = out[s + k]
  BY <1>4, WindowShows
<1>a. v \in Seq(Int) /\ i \in Nat /\ n \in Nat /\ i + n <= Len(v)
  BY <1>4, <1>5
<1> HIDE DEF v
<1>6. Byte!U(v, i, n) \in [1 .. n -> Int] /\ \A k \in 1 .. n : Byte!U(v, i, n)[k] = v[i + k]
  BY <1>a, Read
<1> DEFINE j == s + i
<1>7. j \in Nat /\ j + n <= Len(out) /\ \A k \in 1 .. n : i + k \in 1 .. l /\ s + (i + k) = j + k
  BY <1>3, <1>4
<1> HIDE DEF j
<1>8. Byte!U(out, j, n) \in [1 .. n -> Int] /\ \A k \in 1 .. n : Byte!U(out, j, n)[k] = out[j + k]
  BY <1>4, <1>7, Read
<1>9. Byte!U(v, i, n) = Byte!U(out, j, n)
  <2>1. ASSUME NEW k \in 1 .. n PROVE Byte!U(v, i, n)[k] = Byte!U(out, j, n)[k]
    <3>1. Byte!U(v, i, n)[k] = v[i + k] /\ v[i + k] = out[s + (i + k)]
      BY <1>5, <1>6, <1>7
    <3>2. s + (i + k) = j + k /\ Byte!U(out, j, n)[k] = out[j + k]
      BY <1>7, <1>8
    <3>. QED
      BY <3>1, <3>2
  <2>. QED
    BY <1>6, <1>8, <2>1
<1>. QED
  BY <1>3, <1>9 DEF v, l, j

\* A number that was packed is read back at its offset in any bytes, whether they
\* reach so far or not; the bytes beside it stay, and between the old end and the
\* offset are zeros; every slice reads as its source does.
THEOREM NumbersReadBack ==
  \A bs \in Seq(Int), off \in Nat, x \in Seq(Int) : Byte!NumberReadBack(bs, off, x)
<1> SUFFICES ASSUME NEW bs \in Seq(Int), NEW off \in Nat, NEW x \in Seq(Int)
             PROVE  Byte!NumberReadBack(bs, off, x)
  OBVIOUS
<1> DEFINE p == Byte!Digits(x, 4)
           out == Byte!WriteAt(bs, off, Byte!FromU32le(<<x>>))
<1>1. out = Byte!WriteAt(bs, off, p)
  BY NumberPacked
<1>2. p \in Seq(Int) /\ Len(p) = 4 /\ p \in [1 .. 4 -> Int]
  BY NumberPacked, RowIsSeq
<1>3. Len(bs) \in Nat
  BY LenProperties
<1> HIDE DEF p
<1>4. /\ out \in Seq(Int) /\ Len(out) \in Nat /\ off + 4 <= Len(out) /\ Len(bs) <= Len(out)
      /\ \A i \in 1 .. Len(out) :
           out[i] = IF i - off \in 1 .. 4 THEN p[i - off] ELSE IF i \in 1 .. Len(bs) THEN bs[i] ELSE 0
  <2>1. Written(Byte!WriteAt(bs, off, p), bs, off, p)
    BY <1>2, WrittenAt
  <2> HIDE DEF out
  <2>2. Written(out, bs, off, p)
    BY <1>1, <2>1
  <2>. QED
    BY <1>2, <2>2 DEF Written
<1> HIDE DEF out
<1>a. out \in Seq(Int) /\ Len(out) \in Nat /\ off + 4 <= Len(out)
  BY <1>4
<1>5. Byte!U(out, off, 4) = p
  <2>1. /\ Byte!U(out, off, 4) \in [1 .. 4 -> Int]
        /\ \A i \in 1 .. 4 : Byte!U(out, off, 4)[i] = out[off + i]
    <3> DEFINE n == 4
    <3>1. n \in Nat /\ off + n <= Len(out)
      BY <1>a
    <3> HIDE DEF n
    <3>2. Byte!U(out, off, n) \in [1 .. n -> Int] /\ \A i \in 1 .. n : Byte!U(out, off, n)[i] = out[off + i]
      BY <1>a, <3>1, Read
    <3>. QED
      BY <3>2 DEF n
  <2>2. ASSUME NEW i \in 1 .. 4 PROVE out[off + i] = p[i]
    <3>1. off + i \in 1 .. Len(out) /\ (off + i) - off = i
      BY <1>4
    <3>. QED
      BY <1>4, <3>1
  <2>3. \A i \in 1 .. 4 : Byte!U(out, off, 4)[i] = p[i]
    BY <2>1, <2>2
  <2> DEFINE S == 1 .. 4
             u == Byte!U(out, off, 4)
  <2>4. u \in [S -> Int] /\ p \in [S -> Int] /\ \A i \in S : u[i] = p[i]
    BY <1>2, <2>1, <2>3
  <2> HIDE DEF S, u
  <2>5. u = p
    BY <2>4, RowsEqual
  <2>. QED
    BY <2>5 DEF u
<1>6. ASSUME NEW i \in 0 .. Len(out) - 1, i \notin off .. off + 3
      PROVE  Byte!U(out, i, 1) = IF i < Len(bs) THEN Byte!U(bs, i, 1) ELSE <<0>>
  <2> DEFINE j == i + 1
  <2>1. i \in Nat /\ j \in 1 .. Len(out) /\ i + 1 <= Len(out) /\ 1 \in Nat /\ 1 \in 1 .. 1
    BY <1>4
  <2>2. j - off \notin 1 .. 4
    BY <1>6
  <2>3. Byte!U(out, i, 1) = [k \in 1 .. 1 |-> out[j]]
    <3>1. Byte!U(out, i, 1) \in [1 .. 1 -> Int] /\ Byte!U(out, i, 1)[1] = out[j]
      <4> DEFINE n == 1
      <4>1. n \in Nat /\ i + n <= Len(out) /\ n \in 1 .. n /\ i \in Nat /\ out \in Seq(Int)
        BY <1>a, <2>1
      <4> HIDE DEF n
      <4>2. Byte!U(out, i, n) \in [1 .. n -> Int] /\ Byte!U(out, i, n)[n] = out[i + n]
        BY <4>1, Read
      <4>. QED
        BY <4>2 DEF n
    <3>. QED
      BY <3>1
  <2>4. CASE i < Len(bs)
    <3>1. j \in 1 .. Len(bs) /\ i + 1 <= Len(bs)
      BY <1>3, <2>1, <2>4
    <3>2. Byte!U(bs, i, 1) \in [1 .. 1 -> Int] /\ Byte!U(bs, i, 1)[1] = bs[j]
      BY <2>1, <3>1, Read
    <3>3. out[j] = bs[j]
      BY <1>4, <2>1, <2>2, <3>1
    <3> HIDE DEF j
    <3>4. Byte!U(bs, i, 1) = [k \in 1 .. 1 |-> bs[j]]
      BY <3>2
    <3>. QED
      BY <2>3, <2>4, <3>3, <3>4
  <2>5. CASE ~ (i < Len(bs))
    <3>1. j \notin 1 .. Len(bs)
      BY <1>3, <2>1, <2>5
    <3>2. out[j] = 0
      BY <1>4, <2>1, <2>2, <3>1
    <3> HIDE DEF j
    <3>3. [k \in 1 .. 1 |-> out[j]] = <<0>>
      BY <3>2
    <3>. QED
      BY <2>3, <2>5, <3>3
  <2>. QED
    BY <2>4, <2>5
<1>7. ASSUME NEW s \in 0 .. Len(out), NEW e \in 0 .. Len(out)
      PROVE  LET w == Byte!SliceOf(Len(out), s, e)
             IN \A i \in 0 .. w.len - 1, n \in {1, 2, 4} :
                  i + n <= w.len => Byte!U(Byte!Window(out, w.from, w.len), i, n) = Byte!U(out, s + i, n)
  <2> DEFINE w == Byte!SliceOf(Len(out), s, e)
  <2> SUFFICES ASSUME NEW i \in 0 .. w.len - 1, NEW n \in {1, 2, 4}, i + n <= w.len
               PROVE  Byte!U(Byte!Window(out, w.from, w.len), i, n) = Byte!U(out, s + i, n)
    OBVIOUS
  <2>1. n \in Nat \ {0} /\ i \in Nat
    OBVIOUS
  <2>2. w = Byte!SliceOf(Len(out), s, e)
    OBVIOUS
  <2> HIDE DEF w
  <2>. QED
    BY <1>a, <2>1, <2>2, SliceReads
<1>. QED
  BY <1>5, <1>6, <1>7 DEF Byte!NumberReadBack, p, out

LEMMA QuotientOf ==
  ASSUME NEW g \in Nat \ {0}, NEW i \in Nat
  PROVE  i \div g \in Nat /\ i % g \in 0 .. g - 1 /\ i = (i \div g) * g + (i % g)
OBVIOUS

\* Of two places in groups of g, the one in an earlier group comes before.
LEMMA GroupBefore ==
  ASSUME NEW g \in Nat \ {0}, NEW q \in Nat, NEW r \in Nat, NEW c \in 0 .. g - 1, NEW d \in Nat, q < r
  PROVE  q * g + c < r * g + d
<1>1. (q + 1) * g <= r * g
  OBVIOUS
<1>2. (q + 1) * g = q * g + g
  OBVIOUS
<1>3. q * g \in Nat /\ r * g \in Nat
  OBVIOUS
<1>. QED
  BY <1>1, <1>2, <1>3

LEMMA QuotientIs ==
  ASSUME NEW g \in Nat \ {0}, NEW r \in Nat, NEW c \in 0 .. g - 1, NEW i, i = r * g + c
  PROVE  i \in Nat /\ i \div g = r /\ i % g = c
<1> DEFINE q == i \div g
           d == i % g
<1>1. i \in Nat /\ r * g \in Nat
  OBVIOUS
<1>2. q \in Nat /\ d \in 0 .. g - 1 /\ i = q * g + d
  BY <1>1, QuotientOf
<1> HIDE DEF q, d
<1>3. q = r
  <2>1. ~ (q < r) /\ ~ (r < q)
    BY <1>1, <1>2, GroupBefore
  <2>. QED
    BY <1>2, <2>1
<1>4. d = c
  BY <1>1, <1>2, <1>3
<1>. QED
  BY <1>1, <1>3, <1>4 DEF q, d

\* The place in its group of g, counted from the other end of the group.
Mirror(i, g) == ((i - 1) \div g) * g + g - ((i - 1) % g)

LEMMA Mirrored ==
  ASSUME NEW g \in Nat \ {0}, NEW m \in Nat, NEW i \in 1 .. m * g
  PROVE  Mirror(i, g) \in 1 .. m * g /\ Mirror(Mirror(i, g), g) = i
<1> DEFINE r == (i - 1) \div g
           c == (i - 1) % g
           j == Mirror(i, g)
<1>1. m * g \in Nat /\ i - 1 \in Nat /\ i - 1 < m * g
  OBVIOUS
<1>2. r \in Nat /\ c \in 0 .. g - 1 /\ i - 1 = r * g + c
  BY <1>1, QuotientOf
<1>3. j = r * g + g - c
  BY DEF Mirror
<1> HIDE DEF r, c, j
<1> DEFINE b == g - 1 - c
<1>4. r * g \in Nat /\ b \in 0 .. g - 1 /\ j - 1 = r * g + b /\ j \in Nat \ {0} /\ g - b = c + 1
  BY <1>2, <1>3
<1> HIDE DEF b
<1>5. j <= m * g
  <2>1. ~ (m <= r)
    <3>1. m <= r => m * g <= r * g
      BY <1>2
    <3>. QED
      BY <1>1, <1>2, <1>4, <3>1
  <2>2. r * g + b < m * g + 0
    BY <1>2, <1>4, <2>1, GroupBefore
  <2>. QED
    BY <1>1, <1>4, <2>2
<1>6. (j - 1) \div g = r /\ (j - 1) % g = b
  BY <1>2, <1>4, QuotientIs
<1>7. Mirror(j, g) = r * g + g - b
  BY <1>6 DEF Mirror
<1>8. Mirror(j, g) = i
  BY <1>2, <1>4, <1>7
<1>. QED
  BY <1>1, <1>4, <1>5, <1>8 DEF j

\* What swap16 and swap32 make of a sequence.
Swapped(v, bs, g, m) ==
  /\ v \in Seq(Int) /\ Len(v) = Len(bs)
  /\ \A i \in 1 .. Len(bs) : v[i] = IF i > m * g THEN bs[i] ELSE bs[Mirror(i, g)]

LEMMA SwapMirrors ==
  ASSUME NEW bs \in Seq(Int), NEW g \in Nat \ {0}, NEW m, m = Len(bs) \div g
  PROVE  m \in Nat /\ m * g \in Nat /\ m * g <= Len(bs) /\ Swapped(Byte!Swap(bs, g), bs, g, m)
<1> DEFINE n == Len(bs)
           e(i) == IF i > m * g THEN bs[i] ELSE bs[Mirror(i, g)]
           v == Byte!Swap(bs, g)
<1>1. n \in Nat /\ DOMAIN bs = 1 .. n /\ \A i \in 1 .. n : bs[i] \in Int
  BY LenProperties, ElementOfSeq
<1>2. m \in Nat /\ m * g \in Nat /\ m * g <= n /\ n - (n % g) = m * g
  <2> HIDE DEF n
  <2>1. n \div g \in Nat /\ n % g \in 0 .. g - 1 /\ n = (n \div g) * g + (n % g)
    BY <1>1, QuotientOf
  <2>2. m = n \div g
    BY DEF n
  <2>3. m * g \in Nat
    BY <2>1, <2>2
  <2>. QED
    BY <1>1, <2>1, <2>2, <2>3
<1>3. v = [i \in 1 .. n |-> e(i)]
  BY <1>1, <1>2 DEF Byte!Swap, Mirror
<1>4. ASSUME NEW i \in 1 .. n PROVE e(i) \in Int
  <2>1. CASE i > m * g
    BY <1>1, <2>1
  <2>2. CASE ~ (i > m * g)
    <3>1. i \in 1 .. m * g
      BY <1>2, <2>2
    <3>2. Mirror(i, g) \in 1 .. m * g
      BY <1>2, <3>1, Mirrored
    <3>3. Mirror(i, g) \in 1 .. n
      BY <1>1, <1>2, <3>2
    <3>. QED
      BY <1>1, <2>2, <3>3
  <2>. QED
    BY <2>1, <2>2
<1> HIDE DEF e, v
<1>5. v \in [1 .. n -> Int]
  BY <1>3, <1>4
<1>6. v \in Seq(Int) /\ Len(v) = n
  BY <1>1, <1>5, RowIsSeq
<1>7. \A i \in 1 .. n : v[i] = e(i)
  BY <1>3
<1>. QED
  BY <1>2, <1>6, <1>7 DEF Swapped, v, e

\* swap16 and swap32 turn each whole group around and leave what is left over at
\* the end; done twice they change nothing.
THEOREM SwapsUndone ==
  \A bs \in Seq(Int), g \in Nat \ {0} :
    /\ Byte!Swap(Byte!Swap(bs, g), g) = bs
    /\ \A k \in 0 .. (Len(bs) \div g) - 1 :
         Byte!U(Byte!Swap(bs, g), k * g, g) = Byte!Reverse(Byte!U(bs, k * g, g))
<1> SUFFICES ASSUME NEW bs \in Seq(Int), NEW g \in Nat \ {0}
             PROVE  /\ Byte!Swap(Byte!Swap(bs, g), g) = bs
                    /\ \A k \in 0 .. (Len(bs) \div g) - 1 :
                         Byte!U(Byte!Swap(bs, g), k * g, g) = Byte!Reverse(Byte!U(bs, k * g, g))
  OBVIOUS
<1> DEFINE m == Len(bs) \div g
           v == Byte!Swap(bs, g)
           u == Byte!Swap(v, g)
<1>0. Len(bs) \in Nat
  BY LenProperties
<1>1. m \in Nat /\ m * g \in Nat /\ m * g <= Len(bs) /\ Swapped(v, bs, g, m)
  BY SwapMirrors
<1>2. v \in Seq(Int) /\ Len(v) = Len(bs) /\ m = Len(v) \div g
  BY <1>1 DEF Swapped
<1> HIDE DEF m, v
<1>3. Swapped(u, v, g, m)
  BY <1>2, SwapMirrors
<1> HIDE DEF u
<1>4. ASSUME NEW i \in 1 .. Len(bs) PROVE u[i] = bs[i]
  <2>1. CASE i > m * g
    BY <1>1, <1>2, <1>3, <2>1 DEF Swapped
  <2>2. CASE ~ (i > m * g)
    <3> DEFINE j == Mirror(i, g)
    <3>1. i \in 1 .. m * g
      BY <1>1, <2>2
    <3>2. j \in 1 .. m * g /\ Mirror(j, g) = i
      BY <1>1, <3>1, Mirrored
    <3>3. u[i] = v[j]
      BY <1>2, <1>3, <2>2 DEF Swapped
    <3> HIDE DEF j
    <3>4. j \in 1 .. Len(bs) /\ ~ (j > m * g)
      BY <1>0, <1>1, <3>2
    <3>5. v[j] = bs[Mirror(j, g)]
      BY <1>1, <3>4 DEF Swapped
    <3>. QED
      BY <3>2, <3>3, <3>5
  <2>. QED
    BY <2>1, <2>2
<1>5. u = bs
  <2>1. u \in Seq(Int) /\ Len(u) = Len(bs)
    BY <1>2, <1>3 DEF Swapped
  <2>. QED
    BY <1>4, <2>1, SeqEqual
<1>6. ASSUME NEW k \in 0 .. m - 1 PROVE Byte!U(v, k * g, g) = Byte!Reverse(Byte!U(bs, k * g, g))
  <2> DEFINE off == k * g
             w == Byte!U(bs, off, g)
             r == Byte!Reverse(w)
  <2>1. off \in Nat /\ off + g <= m * g
    <3>1. (k + 1) * g <= m * g
      BY <1>1
    <3>2. (k + 1) * g = k * g + g /\ k * g \in Nat
      OBVIOUS
    <3>. QED
      BY <3>1, <3>2
  <2>2. ASSUME NEW i \in 1 .. g
        PROVE  /\ off + i \in 1 .. m * g
               /\ Mirror(off + i, g) = off + (g - i + 1)
    <3> DEFINE c == i - 1
               at == (off + i) - 1
    <3>1. c \in 0 .. g - 1 /\ at = k * g + c /\ k \in Nat
      BY <2>1
    <3> HIDE DEF c, at
    <3>2. at \div g = k /\ at % g = c
      BY <3>1, QuotientIs
    <3>3. Mirror(off + i, g) = off + g - c
      BY <3>2 DEF Mirror, at
    <3> HIDE DEF off
    <3>. QED
      BY <1>1, <2>1, <3>3 DEF c
  <2> HIDE DEF off
  <2>a. off + g <= Len(bs) /\ off + g <= Len(v) /\ g \in Nat
    BY <1>0, <1>1, <1>2, <2>1
  <2>3. /\ w \in [1 .. g -> Int] /\ \A i \in 1 .. g : w[i] = bs[off + i]
    BY <2>1, <2>a, Read
  <2>4. /\ Byte!U(v, off, g) \in [1 .. g -> Int] /\ \A i \in 1 .. g : Byte!U(v, off, g)[i] = v[off + i]
    BY <1>2, <2>1, <2>a, Read
  <2> HIDE DEF w
  <2>5. Len(w) = g
    BY <2>3, RowIsSeq
  <2>6. r = [i \in 1 .. g |-> w[g - i + 1]]
    BY <2>5 DEF Byte!Reverse
  <2>7. ASSUME NEW i \in 1 .. g PROVE Byte!U(v, off, g)[i] = r[i] /\ r[i] \in Int
    <3>1. g - i + 1 \in 1 .. g
      OBVIOUS
    <3>2. r[i] = bs[off + (g - i + 1)] /\ r[i] \in Int
      BY <2>3, <2>6, <3>1
    <3>3. off + i \in 1 .. Len(bs) /\ ~ (off + i > m * g)
      BY <1>0, <1>1, <2>2
    <3>4. v[off + i] = bs[Mirror(off + i, g)]
      BY <1>1, <3>3 DEF Swapped
    <3>. QED
      BY <2>2, <2>4, <3>2, <3>4
  <2>8. r \in [1 .. g -> Int]
    BY <2>6, <2>7
  <2> HIDE DEF r
  <2>9. Byte!U(v, off, g) = r
    BY <2>4, <2>7, <2>8, RowsEqual
  <2>. QED
    BY <2>9 DEF off, w, r
<1>. QED
  BY <1>5, <1>6 DEF m, v, u
=============================================================================
