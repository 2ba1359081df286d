--------------------------- MODULE HostHandles_proofs ---------------------------
(***************************************************************************)
(* Proofs about HostHandles, for every set of tasks and any number of      *)
(* objects, as one of the services of a process.                           *)
(***************************************************************************)
EXTENDS MCServices, FiniteSetTheorems, WellFoundedInduction, TLAPS

-----------------------------------------------------------------------------
(* The invariant.                                                          *)

Counter(o) == Handles!CounterOf(made[o].kind, made[o].by)
Table(o) == Handles!TableOf(made[o].kind, made[o].by)

\* The objects whose handles have their number from the counter b.
DrawnFrom(b) == {o \in Handles!Made : Counter(o) = b}

\* A counter has counted the handles that have their number from it.
CountersExact == \A b \in Handles!Tables : counter[b] = Cardinality(DrawnFrom(b))

\* No number above the counter is in use, and none is in use twice.
NumbersDrawn ==
  /\ \A o \in Handles!Made : made[o].id \in 1 .. counter[Counter(o)]
  /\ \A o, q \in Handles!Made : Counter(o) = Counter(q) /\ made[o].id = made[q].id => o = q

\* An entry of a table is an object whose handle names this table and entry.
TablesMean ==
  \A b \in Handles!Tables, n \in Objects :
    table[b][n] # None => /\ table[b][n] \in Handles!Made
                          /\ Table(table[b][n]) = b
                          /\ made[table[b][n]].id = n

\* A native works for a handle that exists; a connection just accepted has no
\* handle yet and belongs to one task.
OpsSound ==
  /\ \A t \in Tasks : op[t].pc = "io" => op[t].on \in Objects /\ op[t].of \in Handles!Made
  /\ \A t \in Tasks : op[t].pc = "alloc" => op[t].on \in Objects \ Handles!Made
  /\ \A t, u \in Tasks : op[t].pc = "alloc" /\ op[u].pc = "alloc" /\ op[t].on = op[u].on => t = u

HandlesInv ==
  /\ Handles!TypeOK
  /\ CountersExact
  /\ NumbersDrawn
  /\ TablesMean
  /\ OpsSound
  /\ Handles!TablesExact
  /\ Handles!OwnObject
-----------------------------------------------------------------------------
(* Numbers and tables.                                                     *)

\* The instance has the definitions of FiniteSets under its own name.
LEMMA SameSizes ==
  \A S : Handles!Cardinality(S) = Cardinality(S) /\ Handles!IsFiniteSet(S) = IsFiniteSet(S)
BY DEF Cardinality, IsFiniteSet, Handles!Cardinality, Handles!IsFiniteSet

LEMMA LeastNumber ==
  ASSUME NEW T, T \subseteq Nat, T # {}
  PROVE  \E x \in T : \A y \in T : x <= y
<1>1. PICK x \in T : \A y \in T : ~ (<<y, x>> \in OpToRel(<, Nat))
  BY WFMin, NatLessThanWellFounded
<1>2. \A y \in T : ~ (y < x)
  BY <1>1 DEF OpToRel
<1>. QED
  BY <1>2

LEMMA NextObject ==
  ASSUME Handles!HandlesAssumption, Handles!Fresh # {}
  PROVE  (CHOOSE x \in Handles!Fresh : \A y \in Handles!Fresh : x <= y) \in Handles!Fresh
<1>1. Cardinality(Objects) \in Nat
  BY FS_CardinalityType, SameSizes DEF Handles!HandlesAssumption
<1>2. Handles!Fresh \subseteq Nat
  BY <1>1, SameSizes DEF Handles!HandlesAssumption, Handles!Fresh
<1>. QED
  BY <1>2, LeastNumber

LEMMA TableTypes ==
  ASSUME Handles!HandlesAssumption, NEW k \in Kinds, NEW t \in Tasks
  PROVE  Handles!TableOf(k, t) \in Handles!Tables /\ Handles!CounterOf(k, t) \in Handles!Tables
BY DEF Handles!HandlesAssumption, Handles!Tables, Handles!CounterOf

\* A table and the counter of its numbers do not depend on who asks, for
\* files excepted; two kinds of handles never meet in one table.
LEMMA SameTable ==
  ASSUME NEW k, NEW l, NEW t, NEW u, Handles!TableOf(k, t) = Handles!TableOf(l, u)
  PROVE  /\ k = l
         /\ Handles!CounterOf(k, t) = Handles!CounterOf(l, u)
         /\ k = "file" => t = u
BY DEF Handles!TableOf, Handles!CounterOf

LEMMA FileTable ==
  ASSUME NEW k, NEW t, NEW u, k = "file" => t = u
  PROVE  Handles!TableOf(k, t) = Handles!TableOf(k, u)
BY DEF Handles!TableOf

\* What is known of an object that has a handle.
LEMMA MadeType ==
  ASSUME Handles!HandlesAssumption, Handles!TypeOK, NEW o \in Handles!Made
  PROVE  /\ o \in Objects
         /\ made[o].kind \in Kinds /\ made[o].id \in Nat /\ made[o].by \in Tasks
         /\ Table(o) \in Handles!Tables /\ Counter(o) \in Handles!Tables
<1>1. made[o] \in Handles!Handle
  BY DEF Handles!Made, Handles!TypeOK
<1>. QED
  BY <1>1, TableTypes DEF Handles!Made, Handles!Handle, Table, Counter

\* A new handle.
LEMMA RegisterMade ==
  ASSUME Handles!HandlesAssumption, Handles!TypeOK, CountersExact, NEW t \in Tasks, NEW k \in Kinds,
         NEW o \in Objects \ Handles!Made, Handles!Register(t, o, k)
  PROVE  LET n == Handles!NextNumber(k, t)
             b == Handles!CounterOf(k, t)
         IN /\ n \in Objects
            /\ n = counter[b] + 1
            /\ made' = [made EXCEPT ![o] = [kind |-> k, id |-> n, by |-> t]]
            /\ made' \in [Objects -> Handles!Handle \cup {Handles!NoHandle}]
            /\ Handles!Made' = Handles!Made \cup {o}
            /\ \A q \in Handles!Made : made'[q] = made[q] /\ Counter(q)' = Counter(q) /\ Table(q)' = Table(q)
            /\ Counter(o)' = b /\ Table(o)' = Handles!TableOf(k, t) /\ made'[o].id = n
            /\ counter' = [counter EXCEPT ![b] = n]
            /\ counter' \in [Handles!Tables -> 0 .. Cardinality(Objects)]
            /\ CountersExact'
<1>. DEFINE n == Handles!NextNumber(k, t)
            b == Handles!CounterOf(k, t)
<1>1. b \in Handles!Tables /\ Handles!TableOf(k, t) \in Handles!Tables
  BY TableTypes
<1>2. Cardinality(Objects) \in Nat /\ IsFiniteSet(Objects)
  BY FS_CardinalityType, SameSizes DEF Handles!HandlesAssumption
<1>3. n = counter[b] + 1 /\ counter[b] \in 0 .. Cardinality(Objects) /\ n \in Nat
  BY <1>1, <1>2, SameSizes DEF Handles!NextNumber, Handles!TypeOK
<1>4. /\ made' = [made EXCEPT ![o] = [kind |-> k, id |-> n, by |-> t]]
      /\ counter' = [counter EXCEPT ![b] = n]
  BY DEF Handles!Register
<1>5. made'[o] = [kind |-> k, id |-> n, by |-> t] /\ \A q \in Objects : q # o => made'[q] = made[q]
  BY <1>4 DEF Handles!TypeOK
<1>6. made'[o] \in Handles!Handle
  BY <1>3, <1>5 DEF Handles!Handle
<1>a. made'[o] # Handles!NoHandle
  <2>1. made'[o].kind # Handles!NoHandle.kind
    BY <1>5 DEF Handles!NoHandle, Handles!HandlesAssumption
  <2>. QED
    BY <2>1
<1>7. made' \in [Objects -> Handles!Handle \cup {Handles!NoHandle}]
  BY <1>4, <1>6, <1>5 DEF Handles!TypeOK
<1>8. Handles!Made' = Handles!Made \cup {o}
  BY <1>5, <1>a DEF Handles!Made
<1>9. \A q \in Handles!Made : made'[q] = made[q] /\ Counter(q)' = Counter(q) /\ Table(q)' = Table(q)
  BY <1>5 DEF Handles!Made, Counter, Table
<1>10. Counter(o)' = b /\ Table(o)' = Handles!TableOf(k, t) /\ made'[o].id = n
  BY <1>5 DEF Counter, Table
<1>11. DrawnFrom(b)' = DrawnFrom(b) \cup {o}
  BY <1>8, <1>9, <1>10 DEF DrawnFrom
<1>12. \A c \in Handles!Tables : c # b => DrawnFrom(c)' = DrawnFrom(c)
  BY <1>8, <1>9, <1>10 DEF DrawnFrom
<1>13. o \notin DrawnFrom(b) /\ DrawnFrom(b) \subseteq Objects /\ DrawnFrom(b) \cup {o} \subseteq Objects
  BY DEF DrawnFrom, Handles!Made
<1>14. IsFiniteSet(DrawnFrom(b))
  BY <1>2, <1>13, FS_Subset
<1>15. Cardinality(DrawnFrom(b) \cup {o}) = counter[b] + 1
  BY <1>1, <1>13, <1>14, FS_AddElement, ZenonT(30) DEF CountersExact
<1>16. n <= Cardinality(Objects)
  BY <1>2, <1>3, <1>13, <1>15, FS_Subset
<1>17. n \in Objects
  BY <1>2, <1>3, <1>16, SameSizes DEF Handles!HandlesAssumption
<1>18. counter' \in [Handles!Tables -> 0 .. Cardinality(Objects)]
  BY <1>1, <1>2, <1>3, <1>4, <1>16, SameSizes DEF Handles!TypeOK
<1>19. CountersExact'
  BY <1>1, <1>3, <1>4, <1>11, <1>12, <1>15 DEF CountersExact, Handles!TypeOK
<1>. QED
  BY <1>3, <1>4, <1>7, <1>8, <1>9, <1>10, <1>17, <1>18, <1>19
\* No number is used twice, the new one included.
LEMMA RegisterNumbers ==
  ASSUME Handles!HandlesAssumption, Handles!TypeOK, CountersExact, NumbersDrawn, NEW t \in Tasks,
         NEW k \in Kinds, NEW o \in Objects \ Handles!Made, Handles!Register(t, o, k)
  PROVE  NumbersDrawn'
<1>. DEFINE n == Handles!NextNumber(k, t)
            b == Handles!CounterOf(k, t)
<1>1. /\ n = counter[b] + 1
      /\ Handles!Made' = Handles!Made \cup {o}
      /\ \A q \in Handles!Made : made'[q] = made[q] /\ Counter(q)' = Counter(q)
      /\ Counter(o)' = b /\ made'[o].id = n
      /\ counter' = [counter EXCEPT ![b] = n]
  BY RegisterMade
<1>2. b \in Handles!Tables /\ counter[b] \in Nat
  BY TableTypes, FS_CardinalityType DEF Handles!TypeOK, Handles!HandlesAssumption
<1>3. \A q \in Handles!Made : Counter(q) \in Handles!Tables /\ made[q].id \in 1 .. counter[Counter(q)]
  BY MadeType DEF NumbersDrawn
<1>4. \A c \in Handles!Tables : counter'[c] = IF c = b THEN n ELSE counter[c]
  BY <1>1 DEF Handles!TypeOK
<1>5. \A c \in Handles!Tables : counter[c] \in Nat
  BY FS_CardinalityType, SameSizes DEF Handles!TypeOK, Handles!HandlesAssumption
<1>6. \A q \in Handles!Made : made'[q].id \in 1 .. counter'[Counter(q)']
  BY <1>1, <1>2, <1>3, <1>4, <1>5
<1>7. made'[o].id \in 1 .. counter'[Counter(o)']
  BY <1>1, <1>2, <1>4
<1>8. \A q \in Handles!Made : Counter(q)' = Counter(o)' => made'[q].id # made'[o].id
  BY <1>1, <1>2, <1>3
<1>9. \A p, q \in Handles!Made : Counter(p)' = Counter(q)' /\ made'[p].id = made'[q].id => p = q
  BY <1>1 DEF NumbersDrawn
<1>. QED
  BY <1>1, <1>6, <1>7, <1>8, <1>9 DEF NumbersDrawn

\* The objects in the tables, and the connections just accepted.
Listed == {table[b][n] : b \in Handles!Tables, n \in Objects} \ {None}
Accepting == {op[t].on : t \in {u \in Tasks : op[u].pc = "alloc"}}

\* The new handle's entry was empty.
LEMMA RegisterTable ==
  ASSUME Handles!HandlesAssumption, Handles!TypeOK, CountersExact, NumbersDrawn, TablesMean, NEW t \in Tasks,
         NEW k \in Kinds, NEW o \in Objects \ Handles!Made, Handles!Register(t, o, k)
  PROVE  /\ table' \in [Handles!Tables -> [Objects -> Objects \cup {None}]]
         /\ TablesMean'
         /\ Listed' = Listed \cup {o}
<1>. DEFINE n == Handles!NextNumber(k, t)
            b == Handles!TableOf(k, t)
<1>1. /\ n \in Objects /\ n = counter[Handles!CounterOf(k, t)] + 1
      /\ Handles!Made' = Handles!Made \cup {o}
      /\ \A q \in Handles!Made : made'[q] = made[q] /\ Table(q)' = Table(q)
      /\ Table(o)' = b /\ made'[o].id = n
  BY RegisterMade
<1>2. b \in Handles!Tables /\ counter[Handles!CounterOf(k, t)] \in Nat
  BY TableTypes, FS_CardinalityType DEF Handles!TypeOK, Handles!HandlesAssumption
<1>3. table' = [table EXCEPT ![b][n] = o]
  BY DEF Handles!Register
<1>4. \A c \in Handles!Tables, i \in Objects :
        table'[c][i] = IF c = b /\ i = n THEN o ELSE table[c][i]
  BY <1>1, <1>2, <1>3 DEF Handles!TypeOK
<1>5. table' \in [Handles!Tables -> [Objects -> Objects \cup {None}]]
  BY <1>1, <1>2, <1>3 DEF Handles!TypeOK
<1>6. ASSUME table[b][n] # None PROVE FALSE
  <2>1. table[b][n] \in Handles!Made /\ Table(table[b][n]) = b /\ made[table[b][n]].id = n
    BY <1>1, <1>2, <1>6 DEF TablesMean
  <2>2. Counter(table[b][n]) = Handles!CounterOf(k, t)
    BY <2>1, SameTable DEF Table, Counter
  <2>3. n \in 1 .. counter[Handles!CounterOf(k, t)]
    BY <2>1, <2>2 DEF NumbersDrawn
  <2>. QED
    BY <1>1, <1>2, <2>3
<1>7. TablesMean'
  <2>2. ASSUME NEW c \in Handles!Tables, NEW i \in Objects, NEW q, q = table'[c][i], q # None
        PROVE  q \in Handles!Made' /\ Table(q)' = c /\ made'[q].id = i
    <3>1. CASE c = b /\ i = n
      BY <1>1, <1>4, <2>2, <3>1
    <3>2. CASE ~(c = b /\ i = n)
      <4>1. q = table[c][i]
        BY <1>4, <2>2, <3>2
      <4>2. q \in Handles!Made /\ Table(q) = c /\ made[q].id = i
        BY <2>2, <4>1 DEF TablesMean
      <4>. QED
        BY <1>1, <4>2
    <3>. QED
      BY <3>1, <3>2
  <2>. QED
    BY <2>2 DEF TablesMean, Table
<1>8. o # None
  BY DEF Handles!HandlesAssumption
<1>9. Listed' = Listed \cup {o}
  BY <1>1, <1>2, <1>4, <1>6, <1>8 DEF Listed
<1>. QED
  BY <1>5, <1>7, <1>9

\* Freeing a number takes one object, which is listed nowhere else, out.
LEMMA FreeTable ==
  ASSUME Handles!HandlesAssumption, Handles!TypeOK, TablesMean, NEW k \in Kinds, NEW t \in Tasks,
         NEW n \in Objects, made' = made,
         table' = [table EXCEPT ![Handles!TableOf(k, t)][n] = None]
  PROVE  /\ table' \in [Handles!Tables -> [Objects -> Objects \cup {None}]]
         /\ TablesMean'
         /\ Listed' = Listed \ {Handles!Found(k, t, n)}
<1>. DEFINE b == Handles!TableOf(k, t)
<1>1. b \in Handles!Tables
  BY TableTypes
<1>2. \A c \in Handles!Tables, i \in Objects :
        table'[c][i] = IF c = b /\ i = n THEN None ELSE table[c][i]
  BY <1>1 DEF Handles!TypeOK
<1>3. table' \in [Handles!Tables -> [Objects -> Objects \cup {None}]]
  BY <1>1 DEF Handles!TypeOK
<1>4. TablesMean'
  BY <1>2 DEF TablesMean, Handles!Made, Table
<1>5. \A c \in Handles!Tables, i \in Objects :
        table[c][i] = table[b][n] /\ table[b][n] # None => c = b /\ i = n
  BY <1>1 DEF TablesMean
<1>6. Listed' = Listed \ {table[b][n]}
  BY <1>1, <1>2, <1>5 DEF Listed
<1>. QED
  BY <1>3, <1>4, <1>6 DEF Handles!Found

\* Releasing a VM takes the files of its table out.
LEMMA ReleaseTable ==
  ASSUME Handles!HandlesAssumption, Handles!TypeOK, TablesMean, NEW t \in Tasks, made' = made,
         table' = [table EXCEPT ![Handles!TableOf("file", t)] = [n \in Objects |-> None]]
  PROVE  /\ table' \in [Handles!Tables -> [Objects -> Objects \cup {None}]]
         /\ TablesMean'
         /\ Listed' = Listed \ {Handles!Found("file", t, n) : n \in Objects}
<1>. DEFINE b == Handles!TableOf("file", t)
<1>1. \A c \in Handles!Tables, i \in Objects :
        table'[c][i] = IF c = b THEN None ELSE table[c][i]
  BY DEF Handles!TypeOK
<1>2. table' \in [Handles!Tables -> [Objects -> Objects \cup {None}]]
  BY DEF Handles!TypeOK
<1>3. TablesMean'
  BY <1>1 DEF TablesMean, Handles!Made, Table
<1>4. Listed' = Listed \ {table[b][n] : n \in Objects}
  <2>1. b \in Handles!Tables
    BY TableTypes DEF Handles!HandlesAssumption
  <2>2. \A c \in Handles!Tables, i, n \in Objects :
          table[c][i] = table[b][n] /\ table[b][n] # None => c = b
    BY <2>1 DEF TablesMean
  <2>. QED
    BY <1>1, <2>1, <2>2 DEF Listed
<1>. QED
  BY <1>2, <1>3, <1>4 DEF Handles!Found
-----------------------------------------------------------------------------
(* Steps.                                                                  *)

\* A step that leaves handles, numbers and natives alone.
LEMMA HandlesKept ==
  ASSUME CountersExact, NumbersDrawn, made' = made, counter' = counter
  PROVE  CountersExact' /\ NumbersDrawn'
BY DEF CountersExact, NumbersDrawn, DrawnFrom, Handles!Made, Counter

LEMMA OpsKept ==
  ASSUME OpsSound, Handles!OwnObject, made' = made, op' = op
  PROVE  OpsSound' /\ Handles!OwnObject' /\ Accepting' = Accepting
BY DEF OpsSound, Handles!OwnObject, Handles!Made, Accepting

\* What is open is listed or just accepted.
LEMMA OpenExact == Handles!TablesExact <=> open = Listed \cup Accepting
BY DEF Handles!TablesExact, Listed, Accepting

LEMMA OpenExactNext == Handles!TablesExact' <=> open' = Listed' \cup Accepting'
BY DEF Handles!TablesExact, Listed, Accepting

\* A new object that nobody knows yet.
LEMMA FreshUnknown ==
  ASSUME Handles!HandlesAssumption, Handles!TablesExact, NEW o \in Handles!Fresh
  PROVE  o \in Objects \ Handles!Made /\ o \notin Accepting /\ o \notin open /\ o \notin Listed
BY DEF Handles!Fresh, Handles!Made, Handles!TablesExact, Listed, Accepting

LEMMA OpenKeeps ==
  ASSUME Handles!HandlesAssumption, HandlesInv, NEW t \in Tasks, NEW k \in Kinds, Handles!Open(t, k)
  PROVE  HandlesInv'
<1>. DEFINE o == CHOOSE x \in Handles!Fresh : \A y \in Handles!Fresh : x <= y
<1>1. o \in Handles!Fresh /\ Handles!Register(t, o, k) /\ open' = open \cup {o}
      /\ UNCHANGED <<closed, op, released>>
  BY NextObject DEF Handles!Open
<1>2. o \in Objects \ Handles!Made /\ o \notin Accepting
  BY <1>1, FreshUnknown DEF HandlesInv
<1>. HIDE DEF o
<1>3. /\ made' \in [Objects -> Handles!Handle \cup {Handles!NoHandle}]
      /\ counter' \in [Handles!Tables -> 0 .. Cardinality(Objects)]
      /\ Handles!Made' = Handles!Made \cup {o}
      /\ \A q \in Handles!Made : made'[q] = made[q]
      /\ CountersExact'
  BY <1>1, <1>2, RegisterMade DEF HandlesInv
<1>4. NumbersDrawn'
  BY <1>1, <1>2, RegisterNumbers DEF HandlesInv
<1>5. /\ table' \in [Handles!Tables -> [Objects -> Objects \cup {None}]]
      /\ TablesMean'
      /\ Listed' = Listed \cup {o}
  BY <1>1, <1>2, RegisterTable DEF HandlesInv
<1>6. Handles!TypeOK'
  BY <1>1, <1>2, <1>3, <1>5, SameSizes DEF HandlesInv, Handles!TypeOK
<1>7. OpsSound'
  BY <1>1, <1>2, <1>3 DEF HandlesInv, OpsSound, Accepting
<1>8. Handles!TablesExact'
  <2>1. Accepting' = Accepting
    BY <1>1 DEF Accepting
  <2>. QED
    BY <1>1, <1>5, <2>1, OpenExact, OpenExactNext DEF HandlesInv
<1>9. Handles!OwnObject'
  BY <1>1, <1>3 DEF HandlesInv, OpsSound, Handles!OwnObject
<1>. QED
  BY <1>3, <1>4, <1>5, <1>6, <1>7, <1>8, <1>9 DEF HandlesInv

LEMMA BeginKeeps ==
  ASSUME Handles!HandlesAssumption, HandlesInv, NEW t \in Tasks, NEW h \in Handles!Made, Handles!Begin(t, h)
  PROVE  HandlesInv'
<1>. DEFINE k == made[h].kind
            n == made[h].id
            f == Handles!Found(k, t, n)
<1>1. /\ h \in Objects /\ k \in Kinds /\ made[h].by \in Tasks
      /\ Counter(h) \in Handles!Tables /\ n \in 1 .. counter[Counter(h)]
  BY MadeType DEF HandlesInv, NumbersDrawn
<1>2. n \in Objects
  BY <1>1, FS_CardinalityType, SameSizes DEF HandlesInv, Handles!TypeOK, Handles!HandlesAssumption
<1>3. Handles!TableOf(k, t) \in Handles!Tables
  BY <1>1, TableTypes
<1>4. f # None /\ op' = [op EXCEPT ![t] = [pc |-> "io", on |-> f, of |-> h]]
      /\ UNCHANGED <<made, open, table, counter, closed, released>>
  BY DEF Handles!Begin
<1>5. f \in Handles!Made /\ f \in Objects /\ Table(f) = Handles!TableOf(k, t) /\ made[f].id = n
  BY <1>2, <1>3, <1>4 DEF Handles!Found, HandlesInv, TablesMean, Handles!Made
<1>6. ASSUME k = "file" => made[h].by = t PROVE f = h
  <2>1. Table(f) = Table(h)
    BY <1>5, <1>6, FileTable DEF Table
  <2>2. Counter(f) = Counter(h)
    BY <2>1, SameTable DEF Table, Counter
  <2>. QED
    BY <1>5, <2>2 DEF HandlesInv, NumbersDrawn
<1>7. \A u \in Tasks : op'[u] = IF u = t THEN [pc |-> "io", on |-> f, of |-> h] ELSE op[u]
  BY <1>4 DEF HandlesInv, Handles!TypeOK
<1>8. Handles!TypeOK'
  <2>1. [pc |-> "io", on |-> f, of |-> h] \in Handles!Op
    BY <1>1, <1>5 DEF Handles!Op
  <2>. QED
    BY <1>4, <2>1 DEF HandlesInv, Handles!TypeOK
<1>9. OpsSound'
  BY <1>4, <1>5, <1>7 DEF HandlesInv, OpsSound, Handles!Made
<1>10. Handles!OwnObject'
  BY <1>4, <1>6, <1>7 DEF HandlesInv, Handles!OwnObject
<1>11. Accepting \subseteq Accepting' /\ Accepting' \subseteq Accepting
  <2>1. op[t].pc = "idle"
    BY DEF Handles!Begin, Handles!Ready
  <2>. QED
    BY <1>7, <2>1 DEF Accepting
<1>12. Handles!TablesExact'
  BY <1>4, <1>11 DEF HandlesInv, Handles!TablesExact, Accepting
<1>13. CountersExact' /\ NumbersDrawn' /\ TablesMean'
  BY <1>4, HandlesKept DEF HandlesInv, TablesMean, Handles!Made, Table
<1>. QED
  BY <1>8, <1>9, <1>10, <1>12, <1>13 DEF HandlesInv

LEMMA FinishKeeps ==
  ASSUME Handles!HandlesAssumption, HandlesInv, NEW t \in Tasks, Handles!Finish(t)
  PROVE  HandlesInv'
<1>1. op[t].pc = "io" /\ op' = [op EXCEPT ![t] = Handles!Idle]
      /\ UNCHANGED <<made, open, table, counter, closed, released>>
  BY DEF Handles!Finish
<1>2. \A u \in Tasks : op'[u] = IF u = t THEN Handles!Idle ELSE op[u]
  BY <1>1 DEF HandlesInv, Handles!TypeOK
<1>3. Handles!TypeOK'
  BY <1>1 DEF HandlesInv, Handles!TypeOK, Handles!Op, Handles!Idle
<1>4. OpsSound' /\ Handles!OwnObject'
  BY <1>1, <1>2 DEF HandlesInv, OpsSound, Handles!OwnObject, Handles!Idle, Handles!Made
<1>5. Accepting' = Accepting
  BY <1>1, <1>2 DEF Accepting, Handles!Idle
<1>6. Handles!TablesExact'
  BY <1>1, <1>5 DEF HandlesInv, Handles!TablesExact, Accepting
<1>7. CountersExact' /\ NumbersDrawn' /\ TablesMean'
  BY <1>1, HandlesKept DEF HandlesInv, TablesMean, Handles!Made, Table
<1>. QED
  BY <1>3, <1>4, <1>6, <1>7 DEF HandlesInv

LEMMA AcceptedKeeps ==
  ASSUME Handles!HandlesAssumption, HandlesInv, NEW t \in Tasks, Handles!Accepted(t)
  PROVE  HandlesInv'
<1>1. PICK o \in Handles!Fresh : /\ open' = open \cup {o}
                         /\ op' = [op EXCEPT ![t].pc = "alloc", ![t].on = o]
  BY DEF Handles!Accepted
<1>2. op[t].pc = "io" /\ UNCHANGED <<made, table, counter, closed, released>>
  BY DEF Handles!Accepted
<1>3. o \in Objects \ Handles!Made /\ o \notin Accepting
  BY FreshUnknown DEF HandlesInv
<1>4. op[t] \in Handles!Op
  BY DEF HandlesInv, Handles!TypeOK
<1>5. op'[t].pc = "alloc" /\ op'[t].on = o /\ \A u \in Tasks : u # t => op'[u] = op[u]
  BY <1>1, <1>4 DEF HandlesInv, Handles!TypeOK, Handles!Op
<1>6. Handles!TypeOK'
  <2>1. op' \in [Tasks -> Handles!Op]
    BY <1>1, <1>3, <1>4 DEF HandlesInv, Handles!TypeOK, Handles!Op
  <2>. QED
    BY <1>1, <1>2, <1>3, <2>1 DEF HandlesInv, Handles!TypeOK
<1>7. OpsSound'
  BY <1>2, <1>3, <1>5 DEF HandlesInv, OpsSound, Handles!Made, Accepting
<1>8. Handles!OwnObject'
  BY <1>2, <1>5 DEF HandlesInv, Handles!OwnObject
<1>9. Accepting' = Accepting \cup {o}
  BY <1>2, <1>5 DEF Accepting
<1>10. Handles!TablesExact'
  <2>1. Listed' = Listed
    BY <1>2 DEF Listed
  <2>. QED
    BY <1>1, <1>9, <2>1, OpenExact, OpenExactNext DEF HandlesInv
<1>11. CountersExact' /\ NumbersDrawn' /\ TablesMean'
  BY <1>2, HandlesKept DEF HandlesInv, TablesMean, Handles!Made, Table
<1>. QED
  BY <1>6, <1>7, <1>8, <1>10, <1>11 DEF HandlesInv

LEMMA AllocKeeps ==
  ASSUME Handles!HandlesAssumption, HandlesInv, NEW t \in Tasks, Handles!AllocAccepted(t)
  PROVE  HandlesInv'
<1>. DEFINE o == op[t].on
<1>1. /\ op[t].pc = "alloc" /\ Handles!Register(t, o, "conn") /\ op' = [op EXCEPT ![t] = Handles!Idle]
      /\ UNCHANGED <<open, closed, released>>
  BY DEF Handles!AllocAccepted
<1>2. o \in Objects \ Handles!Made /\ "conn" \in Kinds
  BY <1>1 DEF HandlesInv, OpsSound, Handles!HandlesAssumption
<1>3. /\ made' \in [Objects -> Handles!Handle \cup {Handles!NoHandle}]
      /\ counter' \in [Handles!Tables -> 0 .. Cardinality(Objects)]
      /\ Handles!Made' = Handles!Made \cup {o}
      /\ \A q \in Handles!Made : made'[q] = made[q]
      /\ CountersExact'
  BY <1>1, <1>2, RegisterMade DEF HandlesInv
<1>4. NumbersDrawn'
  BY <1>1, <1>2, RegisterNumbers DEF HandlesInv
<1>5. /\ table' \in [Handles!Tables -> [Objects -> Objects \cup {None}]]
      /\ TablesMean'
      /\ Listed' = Listed \cup {o}
  BY <1>1, <1>2, RegisterTable DEF HandlesInv
<1>6. \A u \in Tasks : op'[u] = IF u = t THEN Handles!Idle ELSE op[u]
  BY <1>1 DEF HandlesInv, Handles!TypeOK
<1>7. Handles!TypeOK'
  BY <1>1, <1>3, <1>5, SameSizes DEF HandlesInv, Handles!TypeOK, Handles!Op, Handles!Idle
<1>8. OpsSound'
  BY <1>1, <1>3, <1>6 DEF HandlesInv, OpsSound, Handles!Idle
<1>9. Handles!OwnObject'
  BY <1>3, <1>6 DEF HandlesInv, OpsSound, Handles!OwnObject, Handles!Idle
<1>10. Accepting' = Accepting \ {o}
  BY <1>1, <1>6 DEF HandlesInv, OpsSound, Accepting, Handles!Idle
<1>11. o \in Accepting
  BY <1>1 DEF Accepting
<1>12. Handles!TablesExact'
  BY <1>1, <1>5, <1>10, <1>11, OpenExact, OpenExactNext DEF HandlesInv
<1>. QED
  BY <1>3, <1>4, <1>5, <1>7, <1>8, <1>9, <1>12 DEF HandlesInv

\* Taking objects that have a handle, and nothing else, out of the tables and
\* closing them.
LEMMA CloseKeeps ==
  ASSUME Handles!HandlesAssumption, HandlesInv, NEW S, S \cap Objects \subseteq Listed,
         open' = open \ S, Listed' = Listed \ S,
         table' \in [Handles!Tables -> [Objects -> Objects \cup {None}]], TablesMean',
         closed' \subseteq Objects, released' \subseteq Tasks,
         UNCHANGED <<made, counter, op>>
  PROVE  HandlesInv'
<1>1. Handles!TypeOK'
  BY DEF HandlesInv, Handles!TypeOK
<1>2. \A o \in Listed : o \in Handles!Made
  BY DEF HandlesInv, TablesMean, Listed
<1>3. Accepting \cap S = {}
  BY <1>2 DEF HandlesInv, OpsSound, Accepting
<1>4. Handles!TablesExact'
  BY <1>3 DEF HandlesInv, Handles!TablesExact, Listed, Accepting
<1>. QED
  BY <1>1, <1>4, HandlesKept, OpsKept DEF HandlesInv

LEMMA FreeKeeps ==
  ASSUME Handles!HandlesAssumption, HandlesInv, NEW t \in Tasks, NEW h \in Handles!Made, NEW k \in Kinds,
         Handles!Free(k, t, made[h].id), UNCHANGED <<made, counter, op, released>>,
         closed' \in {closed, closed \cup {h}}
  PROVE  HandlesInv'
<1>. DEFINE n == made[h].id
<1>1. h \in Objects /\ Counter(h) \in Handles!Tables /\ n \in 1 .. counter[Counter(h)]
  BY MadeType DEF HandlesInv, NumbersDrawn
<1>2. n \in Objects
  BY <1>1, FS_CardinalityType, SameSizes DEF HandlesInv, Handles!TypeOK, Handles!HandlesAssumption
<1>3. Handles!TableOf(k, t) \in Handles!Tables
  BY TableTypes
<1>4. {Handles!Found(k, t, n)} \cap Objects \subseteq Listed
  BY <1>2, <1>3 DEF Handles!Found, Listed, Handles!HandlesAssumption
<1>5. /\ table' \in [Handles!Tables -> [Objects -> Objects \cup {None}]]
      /\ TablesMean'
      /\ Listed' = Listed \ {Handles!Found(k, t, n)}
  BY <1>2, FreeTable DEF HandlesInv, Handles!Free
<1>. QED
  BY <1>1, <1>4, <1>5, CloseKeeps DEF Handles!Free, HandlesInv, Handles!TypeOK

LEMMA ReleaseKeeps ==
  ASSUME Handles!HandlesAssumption, HandlesInv, NEW t \in Tasks, Handles!Release(t)
  PROVE  HandlesInv'
<1>. DEFINE S == {Handles!Found("file", t, n) : n \in Objects}
<1>1. Handles!TableOf("file", t) \in Handles!Tables
  BY TableTypes DEF Handles!HandlesAssumption
<1>2. S \cap Objects \subseteq Listed
  BY <1>1 DEF Handles!Found, Listed, Handles!HandlesAssumption
<1>3. /\ table' \in [Handles!Tables -> [Objects -> Objects \cup {None}]]
      /\ TablesMean'
      /\ Listed' = Listed \ S
  BY ReleaseTable DEF HandlesInv, Handles!Release
<1>4. /\ open' = open \ S
      /\ UNCHANGED <<made, counter, closed, op>>
      /\ closed' \subseteq Objects /\ released' \subseteq Tasks
  BY DEF Handles!Release, HandlesInv, Handles!TypeOK
<1>. QED
  BY <1>2, <1>3, <1>4, CloseKeeps
-----------------------------------------------------------------------------
(* Theorems.                                                               *)

LEMMA HandlesInit == Handles!HandlesAssumption /\ Handles!Init => HandlesInv
<1>. SUFFICES ASSUME Handles!HandlesAssumption, Handles!Init PROVE HandlesInv
  OBVIOUS
<1>1. Handles!Made = {}
  BY DEF Handles!Init, Handles!Made
<1>2. Cardinality(Objects) \in Nat
  BY FS_CardinalityType, SameSizes DEF Handles!HandlesAssumption
<1>3. Handles!TypeOK
  BY <1>2, SameSizes DEF Handles!Init, Handles!TypeOK, Handles!Op, Handles!Idle
<1>4. CountersExact
  <2>1. \A b \in Handles!Tables : DrawnFrom(b) = {}
    BY <1>1 DEF DrawnFrom
  <2>. QED
    BY <2>1, FS_EmptySet DEF Handles!Init, CountersExact
<1>5. NumbersDrawn
  BY <1>1 DEF NumbersDrawn
<1>6. TablesMean
  BY DEF Handles!Init, TablesMean
<1>7. OpsSound /\ Handles!OwnObject
  BY DEF Handles!Init, OpsSound, Handles!OwnObject, Handles!Idle
<1>8. Handles!TablesExact
  <2>1. {table[b][n] : b \in Handles!Tables, n \in Objects} \ {None} = {}
    BY DEF Handles!Init
  <2>2. {op[t].on : t \in {u \in Tasks : op[u].pc = "alloc"}} = {}
    BY DEF Handles!Init, Handles!Idle
  <2>. QED
    BY <2>1, <2>2 DEF Handles!Init, Handles!TablesExact
<1>. QED
  BY <1>3, <1>4, <1>5, <1>6, <1>7, <1>8 DEF HandlesInv

LEMMA HandlesNext == Handles!HandlesAssumption /\ HandlesInv /\ [Handles!Next]_(Handles!vars) => HandlesInv'
<1>. SUFFICES ASSUME Handles!HandlesAssumption, HandlesInv, [Handles!Next]_(Handles!vars) PROVE HandlesInv'
  OBVIOUS
<1>1. ASSUME NEW t \in Tasks, Handles!Opens(t) PROVE HandlesInv'
  BY <1>1, OpenKeeps DEF Handles!Opens, Handles!Dial, Handles!Listen, Handles!WsConnect, Handles!OpenFile, Handles!Open
<1>2. ASSUME NEW t \in Tasks, NEW h \in Handles!Made, Handles!Uses(t, h) PROVE HandlesInv'
  BY <1>2, BeginKeeps DEF Handles!Uses, Handles!ConnIO, Handles!Accept, Handles!WsIO, Handles!FileIO
<1>3. ASSUME NEW t \in Tasks, NEW h \in Handles!Made, Handles!Closes(t, h) PROVE HandlesInv'
  <2>1. made[h].kind \in Kinds /\ "conn" \in Kinds
    BY MadeType DEF HandlesInv, Handles!HandlesAssumption
  <2>2. PICK k \in Kinds : /\ Handles!Free(k, t, made[h].id)
                           /\ UNCHANGED <<made, counter, op, released>>
                           /\ closed' \in {closed, closed \cup {h}}
    BY <1>3, <2>1 DEF Handles!Closes, Handles!ConnClose, Handles!ListenerClose, Handles!FileClose, Handles!NetClose, Handles!WsClose
  <2>. QED
    BY <2>2, FreeKeeps
<1>4. ASSUME NEW t \in Tasks, Handles!Finish(t) \/ Handles!Accepted(t) \/ Handles!AllocAccepted(t) \/ Handles!Release(t)
      PROVE  HandlesInv'
  BY <1>4, FinishKeeps, AcceptedKeeps, AllocKeeps, ReleaseKeeps
<1>5. CASE UNCHANGED Handles!vars
  <2>1. UNCHANGED <<made, open, table, counter, closed, op, released>>
    BY <1>5 DEF Handles!vars
  <2>2. Handles!TypeOK' /\ TablesMean' /\ Handles!TablesExact'
    BY <2>1 DEF HandlesInv, Handles!TypeOK, TablesMean, Handles!Made, Table, Handles!TablesExact
  <2>. QED
    BY <2>1, <2>2, HandlesKept, OpsKept DEF HandlesInv
<1>. QED
  BY <1>1, <1>2, <1>3, <1>4, <1>5 DEF Handles!Next

\* The invariant holds in every reachable state.
LEMMA HandlesAlways == Spec => []HandlesInv
<1>1. Init => HandlesInv
  BY HandlesInit, ServicesAssumption DEF Init
<1>2. HandlesInv /\ [Next]_vars => HandlesInv'
  <2>1. [Next]_vars => [Handles!Next]_(Handles!vars)
    BY DEF Next, ProxyMoves, HandlesMove, ValuesMove, vars, handleVars, Handles!vars
  <2>. QED
    BY <2>1, HandlesNext, ServicesAssumption
<1>. QED
  BY <1>1, <1>2, PTL DEF Spec

\* The variables of HostHandles keep their types: no counter passes the number
\* of objects.
THEOREM HandleTypes == Spec => []Handles!TypeOK
<1>1. HandlesInv => Handles!TypeOK
  BY DEF HandlesInv
<1>. QED
  BY <1>1, HandlesAlways, PTL

\* A native works on the object its handle was made for.
THEOREM NativesFindTheirObject == Spec => []OwnObject
<1>1. HandlesInv => OwnObject
  BY DEF HandlesInv, OwnObject
<1>. QED
  BY <1>1, HandlesAlways, PTL

\* What is open is what the tables lead to, and the connections just accepted.
THEOREM NothingLeaks == Spec => []TablesExact
<1>1. HandlesInv => TablesExact
  BY DEF HandlesInv, TablesExact
<1>. QED
  BY <1>1, HandlesAlways, PTL
=============================================================================
