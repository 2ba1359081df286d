---------------------------- MODULE HostHandles ----------------------------
(***************************************************************************)
(* The things of the operating system that scripts hold through numbered   *)
(* handles: connections and listeners (internal/native/net.go), websocket  *)
(* connections (ws.go) and files (io.go, with the table in each VM).       *)
(*                                                                         *)
(* A native looks the number up under the table's lock and works on what   *)
(* it found after giving the lock up, so another task may close it in      *)
(* between.  Any task may use any handle: maps are shared between tasks.   *)
(* A handle is named by the object it was made for; what is read or        *)
(* written is left out.                                                    *)
(***************************************************************************)
EXTENDS Naturals, FiniteSets

CONSTANTS
  Tasks,    \* each with a VM of its own
  Kinds,    \* among "conn", "listener", "ws", "file"
  Objects,  \* 1 .. n, in the order in which they are opened
  None

\* What the constants have to be.
HandlesAssumption ==
  /\ IsFiniteSet(Objects) /\ Objects = 1 .. Cardinality(Objects)
  /\ None \notin Objects
  /\ {"conn", "file"} \subseteq Kinds
  /\ Kinds \subseteq {"conn", "listener", "ws", "file"}

VARIABLES
  made,     \* the handle of each object: kind, number, the task that opened it
  open,     \* objects that the system holds open
  table,    \* number -> object, for each table
  counter,  \* the last number drawn, for each counter
  closed,   \* handles whose map says closed
  op,       \* the native that each task is in
  released  \* tasks whose VM has been released

vars == <<made, open, table, counter, closed, op, released>>

\* Connections and listeners draw from netID and have a table each; the
\* table of files and its counter belong to a VM.
TableOf(k, t) == <<k, IF k = "file" THEN t ELSE None>>
CounterOf(k, t) == IF k = "listener" THEN TableOf("conn", t) ELSE TableOf(k, t)
Tables == {TableOf(k, t) : k \in Kinds \cup {"conn"}, t \in Tasks}

Handle == [kind : Kinds, id : Nat, by : Tasks]
NoHandle == [kind |-> "none", id |-> 0, by |-> None]

\* on: what the lookup found; of: the handle it was looked up for.
Idle == [pc |-> "idle", on |-> None, of |-> None]
Op == [pc : {"idle", "io", "alloc"}, on : Objects \cup {None}, of : Objects \cup {None}]

Fresh == {o \in Objects : made[o] = NoHandle /\ o \notin open}
Made == {o \in Objects : made[o] # NoHandle}
Found(k, t, n) == table[TableOf(k, t)][n]

Init ==
  /\ made = [o \in Objects |-> NoHandle]
  /\ open = {} /\ closed = {} /\ released = {}
  /\ table = [b \in Tables |-> [n \in Objects |-> None]]
  /\ counter = [b \in Tables |-> 0]
  /\ op = [t \in Tasks |-> Idle]

\* Mistake: the lowest number that is free is drawn.
LowestFree(k, t) ==
  CHOOSE n \in Objects : /\ table[TableOf(k, t)][n] = None
                         /\ \A i \in Objects : i < n => table[TableOf(k, t)][i] # None

NextNumber(k, t) == counter[CounterOf(k, t)] + 1

\* allocConn, allocWS, AllocFile, the end of netListen.
Register(t, o, k) ==
  LET n == NextNumber(k, t)
  IN /\ counter' = [counter EXCEPT ![CounterOf(k, t)] = n]
     /\ table' = [table EXCEPT ![TableOf(k, t)][n] = o]
     /\ made' = [made EXCEPT ![o] = [kind |-> k, id |-> n, by |-> t]]

Ready(t) == op[t].pc = "idle" /\ t \notin released

\* A new object and its handle; a failure changes nothing.
Open(t, k) ==
  /\ Ready(t) /\ k \in Kinds /\ Fresh # {}
  /\ LET o == CHOOSE x \in Fresh : \A y \in Fresh : x <= y
     IN open' = open \cup {o} /\ Register(t, o, k)
  /\ UNCHANGED <<closed, op, released>>

Dial(t) == Open(t, "conn")
Listen(t) == Open(t, "listener")
WsConnect(t) == Open(t, "ws")
OpenFile(t) == Open(t, "file")

\* A number that is not in the table is an error.
Begin(t, h) ==
  /\ Ready(t) /\ Found(made[h].kind, t, made[h].id) # None
  /\ op' = [op EXCEPT ![t] = [pc |-> "io", on |-> Found(made[h].kind, t, made[h].id),
                              of |-> h]]
  /\ UNCHANGED <<made, open, table, counter, closed, released>>

\* A read, a write or a deadline; an accept; a send or a receive; a read or a
\* write of a file, which a handle marked closed refuses.
ConnIO(t, h) == made[h].kind = "conn" /\ Begin(t, h)
Accept(t, h) == made[h].kind = "listener" /\ Begin(t, h)
WsIO(t, h) == made[h].kind = "ws" /\ Begin(t, h)
FileIO(t, h) == made[h].kind = "file" /\ h \notin closed /\ Begin(t, h)

\* It ends with data, with the deadline or because the object was closed.
Finish(t) ==
  /\ op[t].pc = "io"
  /\ op' = [op EXCEPT ![t] = Idle]
  /\ UNCHANGED <<made, open, table, counter, closed, released>>

\* Accept has a connection, which is then put into the table.
Accepted(t) ==
  /\ op[t].pc = "io" /\ made[op[t].of].kind = "listener" /\ op[t].on \in open
  /\ \E o \in Fresh : /\ \A y \in Fresh : o <= y
                      /\ open' = open \cup {o}
                      /\ op' = [op EXCEPT ![t].pc = "alloc", ![t].on = o]
  /\ UNCHANGED <<made, table, counter, closed, released>>

AllocAccepted(t) ==
  /\ op[t].pc = "alloc"
  /\ Register(t, op[t].on, "conn")
  /\ op' = [op EXCEPT ![t] = Idle]
  /\ UNCHANGED <<open, closed, released>>

\* Mistake: the number is taken out of the table and the object stays open.
ForgetsToClose(k, t, n) ==
  /\ table' = [table EXCEPT ![TableOf(k, t)][n] = None]
  /\ UNCHANGED open

\* freeConn, freeWS, CloseFile, listener.close: under the lock.
Free(k, t, n) ==
  /\ table' = [table EXCEPT ![TableOf(k, t)][n] = None]
  /\ open' = open \ {Found(k, t, n)}

\* The close methods of the handles: a listener is not marked closed, and the
\* number of a file is looked up in the VM that calls.
ConnClose(t, h) ==
  /\ Ready(t) /\ made[h].kind = "conn"
  /\ Free("conn", t, made[h].id) /\ closed' = closed \cup {h}
  /\ UNCHANGED <<made, counter, op, released>>

ListenerClose(t, h) ==
  /\ Ready(t) /\ made[h].kind = "listener"
  /\ Free("listener", t, made[h].id)
  /\ UNCHANGED <<made, counter, closed, op, released>>

FileClose(t, h) ==
  /\ Ready(t) /\ made[h].kind = "file" /\ h \notin closed
  /\ Free("file", t, made[h].id) /\ closed' = closed \cup {h}
  /\ UNCHANGED <<made, counter, op, released>>

\* net.close(handle): the number is under _nid or else under id, so that of a
\* listener is looked up among the connections.
NetClose(t, h) ==
  /\ Ready(t) /\ made[h].kind \in {"conn", "listener"}
  /\ Free("conn", t, made[h].id)
  /\ UNCHANGED <<made, counter, closed, op, released>>

\* ws.close(handle), or the method, which marks the handle closed.
WsClose(t, h) ==
  /\ Ready(t) /\ made[h].kind = "ws"
  /\ Free("ws", t, made[h].id)
  /\ closed' \in {closed, closed \cup {h}}
  /\ UNCHANGED <<made, counter, op, released>>

\* The VM of a task is released when its closure has returned.
Release(t) ==
  /\ Ready(t)
  /\ released' = released \cup {t}
  /\ open' = open \ {Found("file", t, n) : n \in Objects}
  /\ table' = [table EXCEPT ![TableOf("file", t)] = [n \in Objects |-> None]]
  /\ UNCHANGED <<made, counter, closed, op>>

Opens(t) == Dial(t) \/ Listen(t) \/ WsConnect(t) \/ OpenFile(t)
Uses(t, h) == ConnIO(t, h) \/ Accept(t, h) \/ WsIO(t, h) \/ FileIO(t, h)
Closes(t, h) ==
  ConnClose(t, h) \/ ListenerClose(t, h) \/ FileClose(t, h) \/ NetClose(t, h) \/ WsClose(t, h)

Next ==
  \E t \in Tasks :
    \/ Opens(t)
    \/ \E h \in Made : Uses(t, h) \/ Closes(t, h)
    \/ Finish(t) \/ Accepted(t) \/ AllocAccepted(t) \/ Release(t)

Spec == Init /\ [][Next]_vars
-----------------------------------------------------------------------------
TypeOK ==
  /\ made \in [Objects -> Handle \cup {NoHandle}]
  /\ open \subseteq Objects
  /\ table \in [Tables -> [Objects -> Objects \cup {None}]]
  /\ counter \in [Tables -> 0 .. Cardinality(Objects)]
  /\ closed \subseteq Objects
  /\ op \in [Tasks -> Op]
  /\ released \subseteq Tasks

\* A native that works on a handle works on the object the handle was made
\* for, however late the handle is used and whatever has been closed and
\* opened meanwhile: numbers are not drawn again.  For files this holds in
\* the task that opened them.
OwnObject ==
  \A t \in Tasks :
    op[t].pc = "io" /\ (made[op[t].of].kind = "file" => made[op[t].of].by = t)
      => op[t].on = op[t].of

\* Nothing is open that no table leads to, and what a table leads to is open;
\* only a connection just accepted is not in its table yet.
TablesExact ==
  open = ({table[b][n] : b \in Tables, n \in Objects} \ {None})
           \cup {op[t].on : t \in {u \in Tasks : op[u].pc = "alloc"}}
=============================================================================
