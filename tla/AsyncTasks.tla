----------------------------- MODULE AsyncTasks -----------------------------
(***************************************************************************)
(* async.spawn and what waits for it: the goroutines that run closures on  *)
(* clones of a VM (internal/vm/async.go), the registry of futures that     *)
(* each VM keeps, and the process-wide table of handles through which      *)
(* scripts await, drop and collect them (internal/native/async.go).        *)
(*                                                                         *)
(* A task is one call of a closure on a VM of its own; Main is the program.*)
(* The future and the handle of a task are named by the task: ids are      *)
(* drawn from atomic counters and never used again.  A script may hand a   *)
(* handle to any other task, so any running task may use any handle that   *)
(* async.spawn has returned.                                               *)
(***************************************************************************)
EXTENDS Naturals, Sequences, SequencesExt

CONSTANTS
  Tasks,     \* Main and the tasks that may be spawned
  Main,      \* the task that the host runs; it has no future
  None,      \* Main's parent
  FileUsers, \* tasks whose closures open files
  MaxArgs    \* futures in one await_all, items of one parallel

ASSUME TasksAssumption ==
  /\ Main \in Tasks
  /\ None \notin Tasks
  /\ FileUsers \subseteq Tasks
  /\ MaxArgs \in Nat

VARIABLES
  status,    \* where the goroutine of each task is
  parent,    \* the VM that spawned a task
  op,        \* the async native that a running task is in
  registry,  \* vm.async.futures of each VM
  handles,   \* the global handle table: tasks whose handle is in it
  result,    \* what the closure returned: res and err of the goroutine
  open,      \* VMs with an open file
  crashed,   \* the Go runtime has killed the process
  \* history
  issued,    \* tasks whose handle async.spawn has returned to a script
  consumed   \* tasks whose handle an await, await_all or drop is done with

vars == <<status, parent, op, registry, handles, result, open, crashed,
          issued, consumed>>

Children == Tasks \ {Main}
Status == {"unborn", "starting", "cloning", "running", "returned",
           "released", "settled", "gone"}
OpKind == {"none", "put", "await", "drop", "all", "allwait", "parspawn", "parwait"}

\* kind: the step the native is at; arg: the futures it still works on;
\* left: tasks that parallel has yet to spawn.
Op == [kind : OpKind, arg : Seq(Tasks), left : 0 .. MaxArgs]
NoOp == [kind |-> "none", arg |-> <<>>, left |-> 0]

Do(kind, arg) == [kind |-> kind, arg |-> arg, left |-> 0]
Spawning(arg, left) ==
  [kind |-> IF left = 0 THEN "parwait" ELSE "parspawn",
   arg |-> arg, left |-> left]
Step(o, kind, arg) == [o EXCEPT !.kind = kind, !.arg = arg]

\* The future's done channel is closed.
Ready(c) == status[c] \in {"settled", "gone"}

Idle(t) == status[t] = "running" /\ op[t].kind = "none"
In(t, kind) == status[t] = "running" /\ op[t].kind = kind

-----------------------------------------------------------------------------
(* The life of a task.                                                     *)

\* SpawnClosure: the future is registered, then the goroutine is started.
SpawnClosure(t, c) ==
  /\ status[c] = "unborn"
  /\ status' = [status EXCEPT ![c] = "starting"]
  /\ parent' = [parent EXCEPT ![c] = t]
  /\ registry' = [registry EXCEPT ![t] = @ \cup {c}]

\* CloneForAsync runs in the new goroutine: it copies the parent's globals
\* without a lock, so the copy has a beginning and an end.
CloneBegin(c) ==
  /\ status[c] = "starting"
  /\ status' = [status EXCEPT ![c] = "cloning"]
  /\ UNCHANGED <<parent, op, registry, handles, result, open, crashed,
                 issued, consumed>>

CloneEnd(c) ==
  /\ status[c] = "cloning"
  /\ status' = [status EXCEPT ![c] = "running"]
  /\ UNCHANGED <<parent, op, registry, handles, result, open, crashed,
                 issued, consumed>>

\* A running script assigns a global.  If a clone is reading the map the Go
\* runtime may notice ("concurrent map iteration and map write") and kill the
\* process, or the write goes through.
StoreGlobal(t) ==
  /\ Idle(t)
  /\ \E c \in Children : parent[c] = t /\ status[c] = "cloning"
  /\ crashed' \in BOOLEAN
  /\ UNCHANGED <<status, parent, op, registry, handles, result, open,
                 issued, consumed>>

\* io.open on the VM of the task; closing it again.
OpenFile(t) ==
  /\ Idle(t) /\ t \in FileUsers
  /\ open' = open \cup {t}
  /\ UNCHANGED <<status, parent, op, registry, handles, result, crashed,
                 issued, consumed>>

CloseFile(t) ==
  /\ Idle(t)
  /\ open' = open \ {t}
  /\ UNCHANGED <<status, parent, op, registry, handles, result, crashed,
                 issued, consumed>>

\* The closure returns, or fails.
Return(t) ==
  /\ Idle(t)
  /\ status' = [status EXCEPT ![t] = "returned"]
  /\ \E r \in {"value", "error"} : result' = [result EXCEPT ![t] = r]
  /\ UNCHANGED <<parent, op, registry, handles, open, crashed,
                 issued, consumed>>

\* Mistake: the futures of the VM are left registered.
ReleaseKeepsFutures(t) ==
  /\ status[t] = "returned"
  /\ status' = [status EXCEPT ![t] = "released"]
  /\ open' = open \ {t}
  /\ UNCHANGED <<parent, op, registry, handles, result, crashed,
                 issued, consumed>>

\* VM.Release closes the files of the VM and forgets its futures.
Release(t) ==
  /\ status[t] = "returned"
  /\ status' = [status EXCEPT ![t] = "released"]
  /\ open' = open \ {t}
  /\ registry' = [registry EXCEPT ![t] = {}]
  /\ UNCHANGED <<parent, op, handles, result, crashed,
                 issued, consumed>>

\* Mistake: the future settles before the child is released.
SettleFirst(c) ==
  /\ c # Main
  /\ status[c] = "returned"
  /\ status' = [status EXCEPT ![c] = "settled"]
  /\ UNCHANGED <<parent, op, registry, handles, result, open, crashed,
                 issued, consumed>>

\* settle: the result is published, waiters are woken.
Settle(c) ==
  /\ c # Main
  /\ status[c] = "released"
  /\ status' = [status EXCEPT ![c] = "settled"]
  /\ UNCHANGED <<parent, op, registry, handles, result, open, crashed,
                 issued, consumed>>

\* Mistake: a task that failed is not forgotten.
ForgetSucceeded(c) ==
  /\ status[c] = "settled"
  /\ status' = [status EXCEPT ![c] = "gone"]
  /\ registry' = [registry EXCEPT ![parent[c]] =
                    IF result[c] = "error" THEN @ ELSE @ \ {c}]
  /\ UNCHANGED <<parent, op, handles, result, open, crashed,
                 issued, consumed>>

\* forget: the last thing the goroutine does.
Forget(c) ==
  /\ status[c] = "settled"
  /\ status' = [status EXCEPT ![c] = "gone"]
  /\ registry' = [registry EXCEPT ![parent[c]] = @ \ {c}]
  /\ UNCHANGED <<parent, op, handles, result, open, crashed,
                 issued, consumed>>

-----------------------------------------------------------------------------
(* The natives, one action per access to the handle table or wait.         *)

\* async.spawn: SpawnClosure, then putHandle.
Spawn(t) ==
  /\ Idle(t)
  /\ \E c \in Children :
       /\ SpawnClosure(t, c)
       /\ op' = [op EXCEPT ![t] = Do("put", <<c>>)]
  /\ UNCHANGED <<handles, result, open, crashed, issued, consumed>>

PutHandle(t) ==
  /\ In(t, "put")
  /\ handles' = handles \cup {Head(op[t].arg)}
  /\ issued' = issued \cup {Head(op[t].arg)}
  /\ op' = [op EXCEPT ![t] = NoOp]
  /\ UNCHANGED <<status, parent, registry, result, open, crashed,
                 consumed>>

\* async.await: getHandle.  A handle that is no longer there is an error
\* ("not a future") and changes nothing.
Await(t) ==
  /\ Idle(t)
  /\ \E c \in issued \cap handles : op' = [op EXCEPT ![t] = Do("await", <<c>>)]
  /\ UNCHANGED <<status, parent, registry, handles, result, open, crashed,
                 issued, consumed>>

\* Mistake: the wait goes through the handle table.
AwaitDoneByHandle(t) ==
  /\ In(t, "await")
  /\ LET c == Head(op[t].arg)
     IN /\ Ready(c) /\ c \in handles
        /\ handles' = handles \ {c}
        /\ consumed' = consumed \cup {c}
  /\ op' = [op EXCEPT ![t] = NoOp]
  /\ UNCHANGED <<status, parent, registry, result, open, crashed,
                 issued>>

\* Wait has returned; delHandle; the result, or the error, goes to the script.
AwaitDone(t) ==
  /\ In(t, "await")
  /\ LET c == Head(op[t].arg)
     IN /\ Ready(c)
        /\ handles' = handles \ {c}
        /\ consumed' = consumed \cup {c}
  /\ op' = [op EXCEPT ![t] = NoOp]
  /\ UNCHANGED <<status, parent, registry, result, open, crashed,
                 issued>>

\* async.drop of a future: getHandle, then delHandle.  Whoever waits for the
\* future already holds it.
Drop(t) ==
  /\ Idle(t)
  /\ \E c \in issued \cap handles : op' = [op EXCEPT ![t] = Do("drop", <<c>>)]
  /\ UNCHANGED <<status, parent, registry, handles, result, open, crashed,
                 issued, consumed>>

DropDone(t) ==
  /\ In(t, "drop")
  /\ handles' = handles \ {Head(op[t].arg)}
  /\ consumed' = consumed \cup {Head(op[t].arg)}
  /\ op' = [op EXCEPT ![t] = NoOp]
  /\ UNCHANGED <<status, parent, registry, result, open, crashed,
                 issued>>

\* async.await_all of an array of handles, the same one twice included.
AwaitAll(t) ==
  /\ Idle(t)
  /\ \E n \in 0 .. MaxArgs : \E cs \in [1 .. n -> issued] :
       op' = [op EXCEPT ![t] = Do("all", cs)]
  /\ UNCHANGED <<status, parent, registry, handles, result, open, crashed,
                 issued, consumed>>

\* The loop looks up its next future and waits for it.
AwaitAllNext(t) ==
  /\ In(t, "all")
  /\ op[t].arg # <<>>
  /\ Head(op[t].arg) \in handles
  /\ op' = [op EXCEPT ![t] = Step(@, "allwait", @.arg)]
  /\ UNCHANGED <<status, parent, registry, handles, result, open, crashed,
                 issued, consumed>>

\* The loop is over, or ends with an error at a future without a handle.
AwaitAllEnd(t) ==
  /\ In(t, "all")
  /\ op[t].arg # <<>> => Head(op[t].arg) \notin handles
  /\ op' = [op EXCEPT ![t] = NoOp]
  /\ UNCHANGED <<status, parent, registry, handles, result, open, crashed,
                 issued, consumed>>

\* Mistake: the handle of a task that failed is kept.
AwaitAllGotKeepsFailed(t) ==
  /\ In(t, "allwait")
  /\ LET c == Head(op[t].arg)
     IN /\ Ready(c)
        /\ handles' = IF result[c] = "error" THEN handles ELSE handles \ {c}
        /\ consumed' = consumed \cup {c}
        /\ \/ /\ result[c] = "value"
              /\ op' = [op EXCEPT ![t] = Step(@, "all", Tail(@.arg))]
           \/ /\ result[c] = "error"
              /\ op' = [op EXCEPT ![t] = NoOp]
  /\ UNCHANGED <<status, parent, registry, result, open, crashed, issued>>

\* Wait has returned: delHandle, and an error of the task ends the loop.
AwaitAllGot(t) ==
  /\ In(t, "allwait")
  /\ LET c == Head(op[t].arg)
     IN /\ Ready(c)
        /\ handles' = handles \ {c}
        /\ consumed' = consumed \cup {c}
        /\ \/ /\ result[c] = "value"
              /\ op' = [op EXCEPT ![t] = Step(@, "all", Tail(@.arg))]
           \/ /\ result[c] = "error"
              /\ op' = [op EXCEPT ![t] = NoOp]
  /\ UNCHANGED <<status, parent, registry, result, open, crashed, issued>>

\* async.parallel spawns a task per item, without handles.
Parallel(t) ==
  /\ Idle(t)
  /\ \E n \in 1 .. MaxArgs :
       op' = [op EXCEPT ![t] = Spawning(<<>>, n)]
  /\ UNCHANGED <<status, parent, registry, handles, result, open, crashed,
                 issued, consumed>>

\* Mistake: one task too many.
ParallelSpawnOneMore(t) ==
  /\ In(t, "parspawn")
  /\ \E c \in Children :
       /\ SpawnClosure(t, c)
       /\ op' = [op EXCEPT ![t] =
                   [kind |-> IF @.left = 0 THEN "parwait" ELSE "parspawn",
                    arg |-> Append(@.arg, c), left |-> @.left - 1]]
  /\ UNCHANGED <<handles, result, open, crashed, issued, consumed>>

ParallelSpawn(t) ==
  /\ In(t, "parspawn")
  /\ \E c \in Children :
       /\ SpawnClosure(t, c)
       /\ op' = [op EXCEPT ![t] = Spawning(Append(@.arg, c), @.left - 1)]
  /\ UNCHANGED <<handles, result, open, crashed, issued, consumed>>

\* It waits for them in order and returns at the first error.
ParallelWait(t) ==
  /\ In(t, "parwait")
  /\ Ready(Head(op[t].arg))
  /\ op' = IF result[Head(op[t].arg)] = "error" \/ Len(op[t].arg) = 1
           THEN [op EXCEPT ![t] = NoOp]
           ELSE [op EXCEPT ![t] = Step(@, "parwait", Tail(@.arg))]
  /\ UNCHANGED <<status, parent, registry, handles, result, open, crashed,
                 issued, consumed>>

-----------------------------------------------------------------------------
Init ==
  /\ status = [t \in Tasks |-> IF t = Main THEN "running" ELSE "unborn"]
  /\ parent = [t \in Tasks |-> None]
  /\ op = [t \in Tasks |-> NoOp]
  /\ registry = [t \in Tasks |-> {}]
  /\ handles = {}
  /\ result = [t \in Tasks |-> "none"]
  /\ open = {}
  /\ crashed = FALSE
  /\ issued = {} /\ consumed = {}

\* What the Go code does by itself once a script has called it.
Proceed(t) ==
  \/ CloneBegin(t) \/ CloneEnd(t) \/ Release(t) \/ Settle(t) \/ Forget(t)
  \/ PutHandle(t) \/ AwaitDone(t) \/ DropDone(t)
  \/ AwaitAllNext(t) \/ AwaitAllEnd(t) \/ AwaitAllGot(t) \/ ParallelSpawn(t) \/ ParallelWait(t)

\* What a script may choose to do next.
Script(t) ==
  \/ Spawn(t) \/ Await(t) \/ Drop(t) \/ AwaitAll(t) \/ Parallel(t)
  \/ OpenFile(t) \/ CloseFile(t) \/ StoreGlobal(t) \/ Return(t)

Next == ~crashed /\ \E t \in Tasks : Proceed(t) \/ Script(t)

Spec == Init /\ [][Next]_vars

\* The Go scheduler runs every goroutine that can run.
FairSpec == Spec /\ \A t \in Tasks : WF_vars(~crashed /\ Proceed(t))
-----------------------------------------------------------------------------
(* Properties.                                                             *)

\* The variables have their types.
TypeOK ==
  /\ status \in [Tasks -> Status]
  /\ parent \in [Tasks -> Tasks \cup {None}]
  /\ op \in [Tasks -> Op]
  /\ registry \in [Tasks -> SUBSET Tasks]
  /\ handles \subseteq Tasks
  /\ result \in [Tasks -> {"none", "value", "error"}]
  /\ open \subseteq Tasks
  /\ crashed \in BOOLEAN
  /\ issued \subseteq Tasks /\ consumed \subseteq Tasks

Over == {"released", "settled", "gone"}

\* VM.LiveFutures is exact: a VM registers the futures whose goroutines have
\* not come to their end, and none once it is released, in whatever order
\* parents and children finish.
RegistryExact ==
  \A t \in Tasks :
    registry[t] = IF status[t] \in Over THEN {}
                  ELSE {c \in Children : parent[c] = t /\ status[c] \notin {"unborn", "gone"}}

\* Who is told that a task is done finds its files closed: the child is
\* released before its future settles.
FilesClosedWhenReady == \A c \in Children : Ready(c) => c \notin open

\* docs/gc.md, "await drops the handle": once an await, an await_all or a
\* drop is done with a future, its handle is not in the table, whatever the
\* task returned and whoever else was waiting.
ConsumedHandlesGone == consumed \cap handles = {}

\* CloneForAsync's comment: the clone "can run closures in parallel safely".
CloneIsSafe == ~crashed

\* Waiting for a task whose closure has returned comes to an end, also when
\* the handle is dropped meanwhile, others wait too, or its parent is gone.
WaitingFor(t, c) ==
  op[t].kind \in {"await", "allwait", "parwait"} /\ Head(op[t].arg) = c
WaitEnds ==
  \A t \in Tasks, c \in Children :
    WaitingFor(t, c) /\ status[c] = "returned"
      ~> ~WaitingFor(t, c) \/ crashed

\* Every task that returns is forgotten by the VM that spawned it.
ReturnedIsForgotten ==
  \A t \in Tasks, c \in Children :
    parent[c] = t /\ status[c] = "returned" ~> c \notin registry[t] \/ crashed
=============================================================================
