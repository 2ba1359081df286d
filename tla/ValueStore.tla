----------------------------- MODULE ValueStore -----------------------------
(***************************************************************************)
(* Where the contents of bytes, arrays and mutable buffers lie: slices of  *)
(* bytes share the block of their source, an array grows in the capacity   *)
(* of its block, and buffers are written in place by several tasks         *)
(* (internal/native/bin.go, push, pop and clone of native.go, the byte     *)
(* instructions of internal/vm/vm.go).                                     *)
(*                                                                         *)
(* meant says what each value holds if nothing were shared.  A handle of   *)
(* an array stands for all variables that hold it: they share its header.  *)
(* BSET8, which the compiler never emits, is left out.                     *)
(***************************************************************************)
EXTENDS Integers, Sequences, SequencesExt, FiniteSetsExt

CONSTANTS
  Tasks,
  Cells,      \* the bytes and elements that occur
  MaxLength,  \* bound on the length of a value
  MaxValues,  \* bound on the values that are made
  MaxBlocks,  \* bound on the blocks that are allocated
  None

\* What the constants have to be: what is not written reads as 0.
StoreAssumption ==
  0 \in Cells /\ MaxLength \in Nat /\ MaxValues \in Nat /\ MaxBlocks \in Nat

VARIABLES
  blocks,  \* the cells of each block, as many as its capacity
  values,  \* kind, block, first cell and length of each value
  meant,   \* the contents of each value
  busy,    \* the buffer operation that each task is in
  lock     \* mbufMu

vars == <<blocks, values, meant, busy, lock>>

Ops == INSTANCE ByteOps

Contents == UNION {[1 .. n -> Cells] : n \in 0 .. MaxLength}
ValueRec == [kind : {"bytes", "array", "mbuf"}, at : 1 .. MaxBlocks, from : 0 .. MaxLength,
             len : 0 .. MaxLength]
\* A fill has cells left to write, a copy has got cells so far.
Busy == [pc : {"fill", "copy"}, v : 1 .. MaxValues, at : 0 .. MaxLength, to : 0 .. MaxLength,
         b : Cells, got : Contents]

Of(kind) == {v \in DOMAIN values : values[v].kind = kind}
Cell(v, i) == <<values[v].at, values[v].from + i>>
Content(v) == Ops!Window(blocks[values[v].at], values[v].from, values[v].len)

Init ==
  /\ blocks = <<>> /\ values = <<>> /\ meant = <<>>
  /\ busy = [t \in Tasks |-> None] /\ lock = None

RoomFor(c) == Len(values) < MaxValues /\ Len(blocks) < MaxBlocks /\ Len(c) <= MaxLength

\* A value in a block of its own.
Put(kind, c) ==
  /\ RoomFor(c)
  /\ blocks' = Append(blocks, c)
  /\ values' = Append(values, [kind |-> kind, at |-> Len(blocks) + 1, from |-> 0, len |-> Len(c)])
  /\ meant' = Append(meant, c)

NewBytes(c) == Put("bytes", c) /\ UNCHANGED <<busy, lock>>

Zeros(n) == NewBytes(Ops!Zeros(n))
FromU8(b) == NewBytes(<<b>>)
Concat(v, w) == NewBytes(Ops!Concat(<<Content(v), Content(w)>>))
WriteAt(v, off, w) == NewBytes(Ops!WriteAt(Content(v), off, Content(w)))
Fill(v, off, size, b) == NewBytes(Ops!Fill(Content(v), off, size, b))
Swap16(v) == NewBytes(Ops!Swap(Content(v), 2))

\* bin.slice and BSLICE of bytes.
Slice(v, start, end) ==
  LET w == Ops!SliceOf(values[v].len, start, end)
  IN /\ Len(values) < MaxValues
     /\ values' = Append(values, [values[v] EXCEPT !.from = @ + w.from, !.len = w.len])
     /\ meant' = Append(meant, Ops!Window(meant[v], w.from, w.len))
     /\ UNCHANGED <<blocks, busy, lock>>

NewArray(c) == Put("array", c) /\ UNCHANGED <<busy, lock>>
\* BSLICE of an array copies.
SliceArray(v, start, end) ==
  LET w == Ops!SliceOf(values[v].len, start, end)
  IN NewArray(Ops!Window(Content(v), w.from, w.len))

\* Mistake: the copy has a header of its own but not a block.
SharesBlock(v) ==
  /\ RoomFor(Content(v))
  /\ values' = Append(values, values[v]) /\ meant' = Append(meant, meant[v])
  /\ UNCHANGED <<blocks, busy, lock>>

Clone(v) == NewArray(Content(v))
-----------------------------------------------------------------------------
Written(v, i, b) == [blocks EXCEPT ![values[v].at][values[v].from + i] = b]

SetIndex(v, i, b) ==
  /\ i \in 1 .. values[v].len
  /\ blocks' = Written(v, i, b) /\ meant' = [meant EXCEPT ![v][i] = b]
  /\ UNCHANGED <<values, busy, lock>>

\* append: into the capacity, or into a block of twice the size.
Push(v, b) ==
  LET n == values[v].len
      full == n = Len(blocks[values[v].at])
  IN /\ n < MaxLength
     /\ IF full
        THEN /\ Len(blocks) < MaxBlocks
             /\ blocks' = Append(blocks, Content(v) \o <<b>> \o Ops!Zeros(Max({n - 1, 0})))
             /\ values' = [values EXCEPT ![v].at = Len(blocks) + 1, ![v].len = n + 1]
        ELSE /\ blocks' = Written(v, n + 1, b)
             /\ values' = [values EXCEPT ![v].len = n + 1]
     /\ meant' = [meant EXCEPT ![v] = Append(@, b)]
     /\ UNCHANGED <<busy, lock>>

\* The last cell stays in the block, beyond the end.
Pop(v) ==
  /\ values[v].len > 0
  /\ values' = [values EXCEPT ![v].len = @ - 1] /\ meant' = [meant EXCEPT ![v] = Front(@)]
  /\ UNCHANGED <<blocks, busy, lock>>
-----------------------------------------------------------------------------
(* Buffers: a number in mbufs, for ever.                                   *)

Ready(t) == busy[t] = None /\ lock = None

\* One is enough: buffers have a block each and nothing else is shared.
MBuf(t, n) == Ready(t) /\ Of("mbuf") = {} /\ Put("mbuf", Ops!Zeros(n)) /\ UNCHANGED <<busy, lock>>

MSet(t, v, i, b) ==
  /\ Ready(t) /\ i \in 1 .. values[v].len
  /\ blocks' = Written(v, i, b) /\ meant' = [meant EXCEPT ![v][i] = b]
  /\ UNCHANGED <<values, busy, lock>>

\* mfill tests its bounds and writes cell after cell, all under the lock.
MFillBegin(t, v, off, size, b) ==
  /\ Ready(t) /\ off + size <= values[v].len
  /\ lock' = t
  /\ busy' = [busy EXCEPT ![t] = [pc |-> "fill", v |-> v, at |-> off, to |-> off + size,
                                  b |-> b, got |-> <<>>]]
  /\ UNCHANGED <<blocks, values, meant>>
MFillWrite(t) ==
  LET f == busy[t] IN
  /\ f # None /\ f.pc = "fill" /\ f.at < f.to
  /\ blocks' = Written(f.v, f.at + 1, f.b) /\ meant' = [meant EXCEPT ![f.v][f.at + 1] = f.b]
  /\ busy' = [busy EXCEPT ![t].at = @ + 1]
  /\ UNCHANGED <<values, lock>>
MFillEnd(t) ==
  /\ busy[t] # None /\ busy[t].pc = "fill" /\ busy[t].at = busy[t].to
  /\ busy' = [busy EXCEPT ![t] = None] /\ lock' = None
  /\ UNCHANGED <<blocks, values, meant>>

\* mbytes finds the block under the lock and copies it without the lock.
MBytesBegin(t, v) ==
  /\ Ready(t)
  /\ busy' = [busy EXCEPT ![t] = [pc |-> "copy", v |-> v, at |-> 0, to |-> values[v].len,
                                  b |-> CHOOSE b \in Cells : TRUE, got |-> <<>>]]
  /\ UNCHANGED <<blocks, values, meant, lock>>
MBytesCopy(t) ==
  LET c == busy[t] IN
  /\ c # None /\ c.pc = "copy" /\ c.at < c.to
  /\ busy' = [busy EXCEPT ![t].at = @ + 1, ![t].got = Append(@, Content(c.v)[c.at + 1])]
  /\ UNCHANGED <<blocks, values, meant, lock>>

\* Mistake: the value is the block of the buffer itself.
NotCopied(t) ==
  /\ busy[t] # None /\ busy[t].pc = "copy" /\ busy[t].at = busy[t].to
  /\ RoomFor(busy[t].got)
  /\ values' = Append(values, [values[busy[t].v] EXCEPT !.kind = "bytes"])
  /\ meant' = Append(meant, Content(busy[t].v))
  /\ busy' = [busy EXCEPT ![t] = None]
  /\ UNCHANGED <<blocks, lock>>

MBytesEnd(t) ==
  /\ busy[t] # None /\ busy[t].pc = "copy" /\ busy[t].at = busy[t].to
  /\ Put("bytes", busy[t].got)
  /\ busy' = [busy EXCEPT ![t] = None]
  /\ UNCHANGED lock
-----------------------------------------------------------------------------
Lengths == 0 .. MaxLength
MakeBytes ==
  \/ \E n \in Lengths : Zeros(n)
  \/ \E b \in Cells : FromU8(b)
  \/ \E v, w \in Of("bytes") : Concat(v, w) \/ \E off \in Lengths : WriteAt(v, off, w)
  \/ \E v \in Of("bytes"), off, n \in Lengths : Slice(v, off, n) \/ \E b \in Cells : Fill(v, off, n, b)
  \/ \E v \in Of("bytes") : Swap16(v)
UseArray ==
  \/ \E b \in Cells : NewArray(<<b>>)
  \/ \E v \in Of("array") :
       \/ Clone(v) \/ Pop(v)
       \/ \E i, n \in Lengths : SliceArray(v, i, n)
       \/ \E b \in Cells : Push(v, b) \/ \E i \in Lengths : SetIndex(v, i, b)
UseBuffer(t) ==
  \/ \E n \in Lengths : MBuf(t, n)
  \/ \E v \in Of("mbuf") :
       \/ MBytesBegin(t, v)
       \/ \E b \in Cells, i, n \in Lengths : MSet(t, v, i, b) \/ MFillBegin(t, v, i, n, b)
  \/ MFillWrite(t) \/ MFillEnd(t) \/ MBytesCopy(t) \/ MBytesEnd(t)

\* Arrays share no blocks with bytes and buffers: a behaviour has one or the other.
Next ==
  \/ Of("array") = {} /\ (MakeBytes \/ \E t \in Tasks : UseBuffer(t))
  \/ Of("bytes") \cup Of("mbuf") = {} /\ UseArray
Spec == Init /\ [][Next]_vars
-----------------------------------------------------------------------------
TypeOK ==
  /\ \A k \in DOMAIN blocks : blocks[k] \in Seq(Cells)
  /\ \A v \in DOMAIN values : values[v] \in ValueRec /\ meant[v] \in Contents
  /\ \A t \in Tasks : busy[t] = None \/ busy[t] \in Busy
  /\ lock \in Tasks \cup {None}

\* Whatever blocks are shared, in whatever order things are sliced, cloned,
\* pushed, popped and written, and whatever a buffer that was copied holds
\* later: each value holds what it would hold if it shared nothing.
StorageMeans == \A v \in DOMAIN values : Content(v) = meant[v]
=============================================================================
