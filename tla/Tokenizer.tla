------------------------------ MODULE Tokenizer ------------------------------
(***************************************************************************)
(* The byte pair tokenizer of internal/native/tensor.go: training finds    *)
(* the rules, the i-th rule (from 0) makes the token Byte + i out of a     *)
(* pair, encoding applies the rules in their order and decoding expands    *)
(* the tokens again.  A token below Byte is a byte.                        *)
(***************************************************************************)
EXTENDS Integers, Sequences, SequencesExt, FiniteSets, Functions

Byte == 256

-----------------------------------------------------------------------------
(* A rule is the pair it merges.  One pass, left to right; a token that was *)
(* merged is not merged again in the pass.                                  *)

At(tokens, i, pair) == i < Len(tokens) /\ <<tokens[i], tokens[i + 1]>> = pair

\* The positions where the pass merges: in a run of one token every second.
Merged(tokens, pair) ==
  FoldLeft(LAMBDA at, i : IF At(tokens, i, pair) /\ (i - 1) \notin at THEN at \cup {i} ELSE at,
           {}, [i \in DOMAIN tokens |-> i])
MergeAt(tokens, at, id) ==
  FlattenSeq([i \in DOMAIN tokens |->
    IF i \in at THEN <<id>> ELSE IF (i - 1) \in at THEN <<>> ELSE <<tokens[i]>>])
Merge(tokens, pair, id) == MergeAt(tokens, Merged(tokens, pair), id)

Pairs(tokens) == {<<tokens[i], tokens[i + 1]>> : i \in 1 .. Len(tokens) - 1}
\* Every place counts, the overlapping ones of a run too.
Count(tokens, pair) == Cardinality({i \in DOMAIN tokens : At(tokens, i, pair)})

\* The most frequent pair; of several, the least.
Before(p, q) == p[1] < q[1] \/ (p[1] = q[1] /\ p[2] < q[2])
Better(tokens, p, q) ==
  \/ Count(tokens, p) > Count(tokens, q)
  \/ Count(tokens, p) = Count(tokens, q) /\ Before(p, q)
Best(tokens) == CHOOSE p \in Pairs(tokens) : \A q \in Pairs(tokens) \ {p} : Better(tokens, p, q)

\* tBPETrain: the rules, and the text as the rules left it.
Round(t) ==
  IF \E p \in Pairs(t.tokens) : Count(t.tokens, p) >= 2
  THEN [rules |-> Append(t.rules, Best(t.tokens)),
        tokens |-> Merge(t.tokens, Best(t.tokens), Byte + Len(t.rules))]
  ELSE t
Train(text, rounds) ==
  FoldLeft(LAMBDA t, i : Round(t), [rules |-> <<>>, tokens |-> text], [i \in 1 .. rounds |-> i])

\* tBPEEncode.
\* Mistake: the first rule makes the token that the second should.
EncodeFromOne(text, rules) ==
  FoldLeft(LAMBDA tokens, i : Merge(tokens, rules[i], Byte + i), text, [i \in DOMAIN rules |-> i])
Encode(text, rules) ==
  FoldLeft(LAMBDA tokens, i : Merge(tokens, rules[i], Byte + i - 1), text,
           [i \in DOMAIN rules |-> i])

\* tBPEDecode; a token that no rule makes is the byte of "?".
RECURSIVE Expand(_, _)
Expand(id, rules) ==
  IF id < Byte THEN <<id>>
  ELSE IF id - Byte + 1 \in DOMAIN rules
       THEN Expand(rules[id - Byte + 1][1], rules) \o Expand(rules[id - Byte + 1][2], rules)
       ELSE <<63>>
Decode(tokens, rules) == FlattenSeq([i \in DOMAIN tokens |-> Expand(tokens[i], rules)])

-----------------------------------------------------------------------------
(* Encoding ends where training ended, and any text comes back.            *)
Tokenized(text, other, rounds) ==
  LET t == Train(text, rounds)
  IN /\ Encode(text, t.rules) = t.tokens
     /\ Decode(t.tokens, t.rules) = text
     /\ Decode(Encode(other, t.rules), t.rules) = other
=============================================================================
