------------------------------ MODULE ByteOps ------------------------------
(***************************************************************************)
(* What the operations on bytes compute (internal/native/bin.go and the    *)
(* byte instructions of internal/vm/vm.go).  Offsets count from 0.  A      *)
(* number is given by its digits to the base 256, the lowest first.        *)
(***************************************************************************)
EXTENDS Integers, Sequences, SequencesExt, FiniteSetsExt

Zeros(n) == [i \in 1 .. n |-> 0]
Window(bs, off, n) == SubSeq(bs, off + 1, off + n)

\* u8, u16le, u32le, u64le with n = 1, 2, 4, 8; a failure is <<>>.
InBounds(bs, off, n) == off >= 0 /\ off + n <= Len(bs)
U(bs, off, n) == IF InBounds(bs, off, n) THEN Window(bs, off, n) ELSE <<>>

\* Each number is cut to four digits.
Digits(x, n) == [i \in 1 .. n |-> IF i \in DOMAIN x THEN x[i] ELSE 0]
FromU32le(xs) == FlattenSeq([k \in DOMAIN xs |-> Digits(xs[k], 4)])

Concat(parts) == FlattenSeq(parts)

\* Where a slice begins and how long it is.  An end below 0 is left to the
\* Go runtime, which panics.
SliceOf(len, start, end) ==
  LET to == Min({end, len})
      from == Min({Max({start, 0}), to})
  IN [from |-> from, len |-> to - from]

\* Mistake: the patch is copied first and the old bytes over it.
OldOverPatch(bs, off, patch) ==
  [i \in 1 .. Max({Len(bs), off + Len(patch)}) |->
     IF i \in DOMAIN bs THEN bs[i] ELSE IF i > off THEN patch[i - off] ELSE 0]

\* It grows where it has to; between the end and the offset are zeros.
WriteAt(bs, off, patch) ==
  [i \in 1 .. Max({Len(bs), off + Len(patch)}) |->
     IF i - off \in DOMAIN patch THEN patch[i - off] ELSE IF i \in DOMAIN bs THEN bs[i] ELSE 0]

Fill(bs, off, size, b) == WriteAt(bs, off, [i \in 1 .. size |-> b])
NopFill(bs, off, n) == Fill(bs, off, n, 144)

\* swap16 and swap32: what is left over at the end stays.
Swap(bs, g) ==
  LET whole == Len(bs) - (Len(bs) % g)
  IN [i \in DOMAIN bs |->
        IF i > whole THEN bs[i] ELSE bs[((i - 1) \div g) * g + g - ((i - 1) % g)]]

FindBytes(hay, needle) ==
  LET found == {i \in 0 .. Len(hay) - Len(needle) : Window(hay, i, Len(needle)) = needle}
  IN IF found = {} THEN -1 ELSE Min(found)

ChecksumSum8(bs) == FoldLeft(LAMBDA sum, b : (sum + b) % 256, 0, bs)
-----------------------------------------------------------------------------
\* A number that was packed is read back at its offset, whatever was written
\* beside it, and the bytes beside it stay; a slice reads as its source does.
NumberReadBack(bs, off, x) ==
  LET out == WriteAt(bs, off, FromU32le(<<x>>))
  IN /\ U(out, off, 4) = Digits(x, 4)
     /\ \A i \in 0 .. Len(out) - 1 :
          i \notin off .. off + 3 => U(out, i, 1) = (IF i < Len(bs) THEN U(bs, i, 1) ELSE <<0>>)
     /\ \A s, e \in 0 .. Len(out) :
          LET w == SliceOf(Len(out), s, e)
          IN \A i \in 0 .. w.len - 1, n \in {1, 2, 4} :
               i + n <= w.len => U(Window(out, w.from, w.len), i, n) = U(out, s + i, n)

\* Swapping twice is nothing, and turns each group around; a part is found no
\* later than where it was put; the checksum of parts is that of the whole.
SwapAndFind(bs, part) ==
  LET all == Concat(<<bs, part, bs>>)
      at == FindBytes(all, part)
  IN /\ \A g \in {2, 4} :
          /\ Swap(Swap(bs, g), g) = bs
          /\ \A k \in 0 .. (Len(bs) \div g) - 1 :
               U(Swap(bs, g), k * g, g) = Reverse(U(bs, k * g, g))
     /\ at \in 0 .. Len(bs) /\ Window(all, at, Len(part)) = part
     /\ ChecksumSum8(all) = (2 * ChecksumSum8(bs) + ChecksumSum8(part)) % 256
=============================================================================
