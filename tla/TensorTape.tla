----------------------------- MODULE TensorTape -----------------------------
(***************************************************************************)
(* The tensors of scripts and their gradients (internal/native/tensor.go). *)
(* An operation makes a new tensor and, while gradients are enabled,       *)
(* appends to one tape of the process an entry that remembers its operands *)
(* and the data they had; backward runs the tape from its end and clears   *)
(* it.                                                                     *)
(*                                                                         *)
(* Elements are integers.  The operations are those whose values and       *)
(* derivatives stay integers; exp, log, sqrt, div, gelu, softmax,          *)
(* cross_entropy and attention go through the same tape and are left out.  *)
(* Indices of elements are 0-based, as in the code.                        *)
(***************************************************************************)
EXTENDS Integers, Sequences, FiniteSets, SequencesExt, FiniteSetsExt

CONSTANTS
  Leaves,      \* the tensors a script starts with: shape and data
  Shapes,      \* shapes for reshape
  Slices,      \* bounds for slice_2d: rows from, to, columns from, to
  Lookups,     \* lists of rows for embed_lookup
  MaxTensors,  \* bound on the number of tensors
  MaxRuns,     \* bound on the calls of backward and step_adam
  MaxSteps     \* bound on both together

VARIABLES
  tensors,     \* shape, data, grad
  made,        \* how each tensor was made: operation, operands, their data
  enabled,     \* tensorGradEnabled
  tape,        \* tensorTape: the tensors whose operations are on it
  runs,        \* calls of backward and step_adam so far
  last         \* history: the last backward, its tape and the gradients before

vars == <<tensors, made, enabled, tape, runs, last>>

NoGrad == <<>>
Ids == 1 .. Len(tensors)
At(d, i) == d[i + 1]

\* s[1] + ... + s[n]
Total(s, n) == LET t[i \in 0 .. n] == IF i = 0 THEN 0 ELSE t[i - 1] + s[i] IN t[n]

\* The product of the dimensions after d, and of all.
Stride(s, d) ==
  LET p[i \in 0 .. Len(s)] == IF i = 0 THEN 1 ELSE p[i - 1] * s[Len(s) + 1 - i]
  IN p[Len(s) - d]
Numel(s) == Stride(s, 0)

\* A tensor whose data fit its shape; cat can make others, which nothing tests.
Fits(t) == Len(t.data) = Numel(t.shape)

\* The tensors and arguments of a script: none is empty.  The bounds of a slice
\* are those the code makes of negative ones and of ones past the end.
Script ==
  /\ Leaves \in Seq([shape : Seq(Nat \ {0}), data : Seq(Int)])
  /\ \A i \in DOMAIN Leaves : Fits(Leaves[i])
  /\ Shapes \subseteq Seq(Nat \ {0})
  /\ Lookups \subseteq Seq(Int) \ {<<>>}
  /\ \A b \in Slices : b \in Seq(Nat) /\ Len(b) = 4 /\ b[1] < b[2] /\ b[3] < b[4]

Backward0 == [loss |-> 0, tape |-> <<>>, before |-> <<>>]
Leaf(t) == [shape |-> t.shape, data |-> t.data, grad |-> NoGrad]
LeafMade == [op |-> "leaf", in |-> <<>>, seen |-> <<>>, arg |-> <<>>]

Init ==
  /\ tensors = [i \in 1 .. Len(Leaves) |-> Leaf(Leaves[i])]
  /\ made = [i \in 1 .. Len(Leaves) |-> LeafMade]
  /\ enabled = FALSE /\ tape = <<>> /\ runs = 0 /\ last = Backward0

-----------------------------------------------------------------------------
(* The values of the operations.  An operand is a shape and data.          *)

\* simpleBroadcast.
Dim(s, i) == IF i < Len(s) THEN s[Len(s) - i] ELSE 1
Rank(s, t) == IF Len(s) > Len(t) THEN Len(s) ELSE Len(t)
Broadcasts(s, t) ==
  \A i \in 0 .. Rank(s, t) - 1 : Dim(s, i) = Dim(t, i) \/ 1 \in {Dim(s, i), Dim(t, i)}
BroadcastShape(s, t) ==
  [j \in 1 .. Rank(s, t) |-> LET i == Rank(s, t) - j
                             IN IF Dim(s, i) = 1 THEN Dim(t, i) ELSE Dim(s, i)]

\* The element of a tensor of shape s that is at i once it is spread to shape t.
Spread(s, t, i) ==
  Total([d \in 1 .. Len(s) |->
           LET e == d + Len(t) - Len(s)
           IN IF s[d] = t[e] THEN ((i \div Stride(t, e)) % t[e]) * Stride(s, d) ELSE 0],
        Len(s))

Scalar(op, x, y) ==
  CASE op = "add" -> x + y
    [] op = "sub" -> x - y
    [] op = "mul" -> x * y

ElementWise(op, a, b) ==
  LET s == BroadcastShape(a.shape, b.shape)
  IN [shape |-> s,
      data |-> [k \in 1 .. Numel(s) |->
                  Scalar(op, At(a.data, Spread(a.shape, s, k - 1)),
                             At(b.data, Spread(b.shape, s, k - 1)))]]

\* execElementWiseSingle: relu, pow(a, 2) and tNeg.
Single(op, x) ==
  CASE op = "neg" -> -x
    [] op = "relu" -> IF x > 0 THEN x ELSE 0
    [] op = "square" -> x * x
Slope(op, x) ==
  CASE op = "neg" -> -1
    [] op = "relu" -> IF x > 0 THEN 1 ELSE 0
    [] op = "square" -> 2 * x

Matmul(a, b) ==
  LET m == a.shape[1]
      n == a.shape[2]
      l == b.shape[2]
  IN [shape |-> <<m, l>>,
      data |-> [k \in 1 .. m * l |->
                  Total([j \in 1 .. n |-> At(a.data, ((k - 1) \div l) * n + j - 1)
                                           * At(b.data, (j - 1) * l + ((k - 1) % l))], n)]]

\* Which element of the operand, of shape s, an operation that only moves
\* elements puts at i.
Moved(op, s, arg, i) ==
  CASE op = "reshape" -> i
    [] op = "transpose" -> (i % s[1]) * s[2] + i \div s[1]
    [] op = "slice" -> (arg[1] + i \div (arg[4] - arg[3])) * s[2]
                         + arg[3] + (i % (arg[4] - arg[3]))

MovedShape(op, s, arg) ==
  CASE op = "reshape" -> arg
    [] op = "transpose" -> <<s[2], s[1]>>
    [] op = "slice" -> <<arg[2] - arg[1], arg[4] - arg[3]>>

\* embed_lookup: a negative index counts from the end, one out of range is 0.
Row(vocab, x) ==
  LET y == IF x < 0 THEN vocab + x ELSE x
  IN IF y \in 0 .. vocab - 1 THEN y ELSE 0

Embed(w, rows) ==
  LET dim == w.shape[2]
  IN [shape |-> <<Len(rows), dim>>,
      data |-> [k \in 1 .. Len(rows) * dim |->
                  At(w.data, Row(w.shape[1], At(rows, (k - 1) \div dim)) * dim + ((k - 1) % dim))]]

\* cat: the dimensions before the last are multiplied, for each operand, into
\* rows of the first dimension.
CatRows(s) == Numel(Front(s))
Cat(a, b) ==
  [shape |-> <<CatRows(a.shape) + CatRows(b.shape)>> \o Tail(a.shape),
   data |-> a.data \o b.data]

Apply(op, in, arg) ==
  CASE op \in {"add", "sub", "mul"} -> ElementWise(op, in[1], in[2])
    [] op \in {"neg", "relu", "square"} ->
         [shape |-> in[1].shape,
          data |-> [i \in DOMAIN in[1].data |-> Single(op, in[1].data[i])]]
    [] op = "matmul" -> Matmul(in[1], in[2])
    [] op \in {"reshape", "transpose", "slice"} ->
         LET s == MovedShape(op, in[1].shape, arg)
         IN [shape |-> s,
             data |-> [k \in 1 .. Numel(s) |-> At(in[1].data, Moved(op, in[1].shape, arg, k - 1))]]
    [] op = "sum" -> [shape |-> <<>>, data |-> <<Total(in[1].data, Len(in[1].data))>>]
    [] op = "embed" -> Embed(in[1], arg)
    [] op = "cat" -> Cat(in[1], in[2])

\* What the operations accept: the early returns with an error.
Accepts(op, s, arg) ==
  CASE op \in {"add", "sub", "mul"} -> Broadcasts(s[1], s[2])
    [] op \in {"neg", "relu", "square", "sum"} -> TRUE
    [] op = "matmul" -> Len(s[1]) = 2 /\ Len(s[2]) = 2 /\ s[1][2] = s[2][1]
    [] op = "reshape" -> Numel(s[1]) = Numel(arg)
    [] op = "transpose" -> Len(s[1]) = 2
    [] op = "slice" -> Len(s[1]) = 2 /\ arg[2] <= s[1][1] /\ arg[4] <= s[1][2]
    [] op = "embed" -> Len(s[1]) = 2
    [] op = "cat" -> Len(s[1]) > 0 /\ Len(s[2]) > 0 /\ Last(s[1]) = Last(s[2])
-----------------------------------------------------------------------------
(* What an entry of the tape adds to the gradient of each of its operands. *)
(* m is what the entry remembers, out the gradient of its result.          *)

\* The sum of the part[i] that go to each of n elements; those for 0 are
\* passed over.
Gathered(n, to, part) ==
  [k \in 1 .. n |-> Total([i \in DOMAIN part |-> IF to[i] = k THEN part[i] ELSE 0], Len(part))]

\* Mistake: both operands get the derivative by the first.
BothFirst(op, p, x, y) == IF op = "mul" THEN y ELSE 1

Partial(op, p, x, y) ==
  CASE op = "add" -> 1
    [] op = "sub" -> IF p = 1 THEN 1 ELSE -1
    [] op = "mul" -> IF p = 1 THEN y ELSE x

ElementWiseBack(m, out) ==
  LET s == BroadcastShape(m.seen[1].shape, m.seen[2].shape)
      X(p, i) == At(m.seen[p].data, Spread(m.seen[p].shape, s, i - 1))
      Back(p) ==
        LET n == Numel(m.seen[p].shape)
        IN Gathered(n, [i \in DOMAIN out |-> 1 + ((i - 1) % n)],
                    [i \in DOMAIN out |-> out[i] * Partial(m.op, p, X(1, i), X(2, i))])
  IN <<Back(1), Back(2)>>

SingleBack(m, out) ==
  <<[k \in DOMAIN out |-> out[k] * Slope(m.op, m.seen[1].data[k])]>>

MatmulBack(m, out) ==
  LET a == m.seen[1]
      b == m.seen[2]
      r == a.shape[1]
      n == a.shape[2]
      l == b.shape[2]
  IN <<[k \in 1 .. r * n |->
          Total([j \in 1 .. l |-> At(out, ((k - 1) \div n) * l + j - 1)
                                   * At(b.data, ((k - 1) % n) * l + j - 1)], l)],
       [k \in 1 .. n * l |->
          Total([j \in 1 .. r |-> At(a.data, (j - 1) * n + (k - 1) \div l)
                                   * At(out, (j - 1) * l + ((k - 1) % l))], r)]>>

MovedBack(m, out) ==
  LET s == m.seen[1].shape
  IN <<Gathered(Numel(s), [i \in DOMAIN out |-> 1 + Moved(m.op, s, m.arg, i - 1)], out)>>

SumBack(m, out) == <<[k \in 1 .. Numel(m.seen[1].shape) |-> out[1]]>>

\* An index that is negative or out of range is passed over.
EmbedBack(m, out) ==
  LET vocab == m.seen[1].shape[1]
      dim == m.seen[1].shape[2]
      row(i) == At(m.arg, (i - 1) \div dim)
  IN <<Gathered(vocab * dim,
                [i \in DOMAIN out |-> IF row(i) \in 0 .. vocab - 1
                                      THEN row(i) * dim + ((i - 1) % dim) + 1 ELSE 0],
                out)>>

CatBack(m, out) ==
  LET Back(p, at) == [k \in DOMAIN m.seen[p].data |->
                        IF at + k \in DOMAIN out THEN out[at + k] ELSE 0]
  IN <<Back(1, 0), Back(2, Len(m.seen[1].data))>>

Back(m, out) ==
  CASE m.op \in {"add", "sub", "mul"} -> ElementWiseBack(m, out)
    [] m.op \in {"neg", "relu", "square"} -> SingleBack(m, out)
    [] m.op = "matmul" -> MatmulBack(m, out)
    [] m.op \in {"reshape", "transpose", "slice"} -> MovedBack(m, out)
    [] m.op = "sum" -> SumBack(m, out)
    [] m.op = "embed" -> EmbedBack(m, out)
    [] m.op = "cat" -> CatBack(m, out)

(* g is the gradient of each tensor. *)

\* ensureGrad.
Grown(g, t) == IF g[t] = NoGrad THEN [k \in 1 .. Numel(tensors[t].shape) |-> 0] ELSE g[t]

Added(g, t, v) == [k \in DOMAIN Grown(g, t) |-> Grown(g, t)[k] + v[k]]
Adds(g, t, v) == [g EXCEPT ![t] = Added(g, t, v)]

\* Of two operands the first is written and then, on what that wrote, the
\* second; element by element both are read before one is written.
RunEntry(e, g) ==
  LET m == made[e]
      v == Back(m, g[e])
      a == m.in[1]
      b == m.in[2]
  IN CASE g[e] = NoGrad -> g
       [] g[e] # NoGrad /\ Len(m.in) = 1 -> Adds(g, a, v[1])
       [] g[e] # NoGrad /\ m.op \in {"add", "sub", "mul"} ->
            [g EXCEPT ![a] = Added(g, a, v[1]), ![b] = Added(g, b, v[2])]
       [] g[e] # NoGrad /\ m.op \in {"matmul", "cat"} -> Adds(Adds(g, a, v[1]), b, v[2])

\* The entries are run from the last to the first.
Accrued(ops, g) ==
  LET run[j \in 0 .. Len(ops)] ==
        IF j = 0 THEN g ELSE RunEntry(ops[Len(ops) + 1 - j], run[j - 1])
  IN run[Len(ops)]

Grads == [i \in Ids |-> tensors[i].grad]
Seeded(g, loss) == [g EXCEPT ![loss] = [Grown(g, loss) EXCEPT ![1] = 1]]
-----------------------------------------------------------------------------
Args(op) ==
  CASE op = "reshape" -> Shapes
    [] op = "slice" -> Slices
    [] op = "embed" -> Lookups
    [] OTHER -> {<<>>}

Binary == {"add", "sub", "mul", "matmul", "cat"}
Unary == {"neg", "relu", "square", "reshape", "transpose", "slice", "sum", "embed"}
Operands(op) == IF op \in Binary THEN Ids \X Ids ELSE {<<i>> : i \in Ids}

Operand(i) == [shape |-> tensors[i].shape, data |-> tensors[i].data]

Operate(op, in, arg) ==
  /\ Len(tensors) < MaxTensors
  /\ \A p \in DOMAIN in : Fits(tensors[in[p]])
  /\ Accepts(op, [p \in DOMAIN in |-> tensors[in[p]].shape], arg)
  /\ LET out == Apply(op, [p \in DOMAIN in |-> Operand(in[p])], arg)
     IN tensors' = Append(tensors, Leaf(out))
  /\ made' = Append(made, [op |-> op, in |-> in, arg |-> arg,
                           seen |-> [p \in DOMAIN in |-> Operand(in[p])]])
  /\ tape' = IF enabled THEN Append(tape, Len(tensors) + 1) ELSE tape
  /\ last' = Backward0
  /\ UNCHANGED <<enabled, runs>>

\* enable_grad and disable_grad.
SetGrad(on) ==
  /\ enabled' = on /\ tape' = <<>> /\ last' = Backward0
  /\ UNCHANGED <<tensors, made, runs>>

ZeroGrad(S) ==
  /\ tensors' = [i \in Ids |-> IF i \in S THEN [tensors[i] EXCEPT !.grad = NoGrad]
                               ELSE tensors[i]]
  /\ last' = Backward0
  /\ UNCHANGED <<made, enabled, tape, runs>>

\* Mistake: the tape is run and kept.
KeepsTape(loss) ==
  /\ runs < MaxRuns /\ Len(tensors) + runs < MaxSteps /\ runs' = runs + 1
  /\ LET after == Accrued(tape, Seeded(Grads, loss))
     IN tensors' = [i \in Ids |-> [tensors[i] EXCEPT !.grad = after[i]]]
  /\ last' = [loss |-> loss, tape |-> tape, before |-> Grads]
  /\ UNCHANGED <<made, enabled, tape>>

Backward(loss) ==
  /\ runs < MaxRuns /\ Len(tensors) + runs < MaxSteps /\ runs' = runs + 1
  /\ LET after == Accrued(tape, Seeded(Grads, loss))
     IN tensors' = [i \in Ids |-> [tensors[i] EXCEPT !.grad = after[i]]]
  /\ tape' = <<>>
  /\ last' = [loss |-> loss, tape |-> tape, before |-> Grads]
  /\ UNCHANGED <<made, enabled>>

\* step_adam writes the data of the parameters that have a gradient; what it
\* makes of the moments is left out: the data move by the gradient.
StepAdam(S) ==
  /\ runs < MaxRuns /\ Len(tensors) + runs < MaxSteps /\ runs' = runs + 1
  /\ tensors' = [i \in Ids |->
                   IF i \in S /\ tensors[i].grad # NoGrad
                   THEN [tensors[i] EXCEPT
                           !.data = [k \in DOMAIN @ |-> @[k] - tensors[i].grad[k]]]
                   ELSE tensors[i]]
  /\ last' = Backward0
  /\ UNCHANGED <<made, enabled, tape>>

Parameters == 1 .. Len(Leaves)

Next ==
  \/ \E op \in Binary \cup Unary : \E in \in Operands(op), arg \in Args(op) :
       Operate(op, in, arg)
  \/ \E on \in BOOLEAN : SetGrad(on)
  \/ ZeroGrad(Parameters)
  \/ \E loss \in Ids : Backward(loss)
  \/ StepAdam(Parameters)

Spec == Init /\ [][Next]_vars
-----------------------------------------------------------------------------
(* The derivative by definition, from the tangents of the operations: an   *)
(* operation that is linear in each operand has, for a small change of its *)
(* operands, the sum of its values with one operand replaced by its change.*)

Plus(s, t) == [k \in DOMAIN s |-> s[k] + t[k]]

\* d is the change of each operand.
Tangent(m, d) ==
  LET a == m.seen[1]
      b == m.seen[2]
      Changed(p) == [shape |-> m.seen[p].shape, data |-> d[p]]
  IN CASE m.op \in {"mul", "matmul"} ->
            Plus(Apply(m.op, <<Changed(1), b>>, m.arg).data, Apply(m.op, <<a, Changed(2)>>, m.arg).data)
       [] m.op = "square" -> [k \in DOMAIN d[1] |-> 2 * a.data[k] * d[1][k]]
       [] m.op = "relu" -> [k \in DOMAIN d[1] |-> IF a.data[k] > 0 THEN d[1][k] ELSE 0]
       [] OTHER -> Apply(m.op, [p \in DOMAIN m.seen |-> Changed(p)], m.arg).data

\* The change of the loss for that of element k of x; only what was made after
\* x changes with it.
Start(x, k) == [i \in Ids |-> [j \in DOMAIN tensors[i].data |-> IF i = x /\ j = k THEN 1 ELSE 0]]
Change(e, t) ==
  [t EXCEPT ![e] = Tangent(made[e], [p \in DOMAIN made[e].in |-> t[made[e].in[p]]])]
Derivative(loss, ops, x, k) ==
  LET run[j \in 0 .. Len(ops)] ==
        IF j = 0 THEN Start(x, k)
        ELSE IF ops[j] <= x THEN run[j - 1]
        ELSE Change(ops[j], run[j - 1])
  IN run[Len(ops)][loss][1]

Value(g, k) == IF g = NoGrad THEN 0 ELSE g[k]
Follows == \A x \in {y \in Ids : Fits(tensors[y])} : \A k \in DOMAIN tensors[x].data :
             Value(tensors[x].grad, k) =
               IF x = last.loss /\ k = 1 THEN 1
               ELSE Value(last.before[x], k) + Derivative(last.loss, last.tape, x, k)

\* backward leaves in each tensor what was there and the derivative of the
\* loss by it, also when parameters were stepped between the operation and
\* backward, unless an operation on the tape took the same tensor for both
\* operands element by element, spread an operand other than along leading
\* dimensions, or looked an index up from the end.
Plain(e) ==
  LET m == made[e]
  IN CASE m.op = "cat" -> Fits(tensors[e])
       [] m.op \in {"add", "sub", "mul"} ->
            LET s == BroadcastShape(m.seen[1].shape, m.seen[2].shape)
            IN /\ m.in[1] # m.in[2]
               /\ \A p \in {1, 2} : \A i \in 0 .. Numel(s) - 1 :
                    Spread(m.seen[p].shape, s, i) = i % Numel(m.seen[p].shape)
       [] m.op = "embed" ->
            \A i \in DOMAIN m.arg : m.arg[i] \in 0 .. m.seen[1].shape[1] - 1
       [] OTHER -> TRUE

GradientIsDerivative ==
  last.loss # 0 /\ (\A i \in DOMAIN last.tape : Plain(last.tape[i])) => Follows

\* No entry is run twice: what is on the tape has not been reached by a
\* backward, so that its gradient starts from nothing.
TapeIsFresh == \A i \in DOMAIN tape : tensors[tape[i]].grad = NoGrad
=============================================================================
