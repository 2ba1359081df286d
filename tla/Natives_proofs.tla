---------------------------- MODULE Natives_proofs ----------------------------
(***************************************************************************)
(* Proofs about the natives that keep state of their own: AsyncTasks, for  *)
(* every set of tasks and every MaxArgs; and the tape of TensorTape, for   *)
(* all leaves, shapes, slices and lookups of a script and any number of    *)
(* tensors, operations and runs.  That backward leaves the derivative      *)
(* rests on what is proved here of finite sums, of the strides of a shape, *)
(* and of each operation: the gradients that it sends back and the change  *)
(* that it passes on are adjoint.                                          *)
(***************************************************************************)
EXTENDS MCNatives, SequenceTheorems, WellFoundedInduction, NaturalsInduction, TLAPS

-----------------------------------------------------------------------------
(* Types.                                                                  *)

\* A native that takes its next future has one, and a parallel that still
\* spawns has an item left.
OpShape ==
  \A t \in Tasks :
    /\ op[t].kind \in {"put", "await", "drop", "allwait", "parwait"} => op[t].arg # <<>>
    /\ op[t].kind = "parspawn" => op[t].left # 0

TInv == TypeOK /\ OpShape

\* What TInv says of one native.
Sound(o) ==
  /\ o \in Op
  /\ o.kind \in {"put", "await", "drop", "allwait", "parwait"} => o.arg # <<>>
  /\ o.kind = "parspawn" => o.left # 0

LEMMA SoundOps ==
  ASSUME TInv, NEW t \in Tasks
  PROVE  Sound(op[t])
BY DEF TInv, TypeOK, OpShape, Sound

LEMMA NoOpSound == Sound(NoOp)
BY TasksAssumption DEF Sound, NoOp, Op, OpKind

LEMMA DoSound ==
  ASSUME NEW k \in OpKind \ {"parspawn"}, NEW s \in Seq(Tasks),
         k = "all" \/ s # <<>>
  PROVE  Sound(Do(k, s))
BY TasksAssumption DEF Sound, Do, Op, OpKind

LEMMA StepSound ==
  ASSUME NEW o \in Op, NEW k \in OpKind \ {"parspawn"}, NEW s \in Seq(Tasks),
         k = "all" \/ s # <<>>
  PROVE  Sound(Step(o, k, s))
BY DEF Sound, Step, Op, OpKind

LEMMA SpawningSound ==
  ASSUME NEW s \in Seq(Tasks), NEW n \in 0 .. MaxArgs, n = 0 => s # <<>>
  PROVE  Sound(Spawning(s, n))
BY EmptySeq DEF Sound, Spawning, Op, OpKind

\* One native that is sound after the step keeps them all sound.
LEMMA OpsSound ==
  ASSUME TInv, NEW t \in Tasks, NEW o, Sound(o), op' = [op EXCEPT ![t] = o]
  PROVE  op' \in [Tasks -> Op] /\ OpShape'
BY SoundOps DEF TInv, TypeOK, OpShape, Sound

LEMMA TypeInit == Init => TInv
<1>. SUFFICES ASSUME Init PROVE TInv
  OBVIOUS
<1>1. op \in [Tasks -> Op] /\ OpShape
  BY NoOpSound DEF Init, OpShape, Sound
<1>. QED
  BY <1>1, TasksAssumption DEF Init, TInv, TypeOK, Status

\* The first future of a native that has one.
LEMMA HeadTask ==
  ASSUME TInv, NEW t \in Tasks, op[t].arg # <<>>
  PROVE  /\ op[t].arg \in Seq(Tasks)
         /\ Head(op[t].arg) \in Tasks
         /\ Tail(op[t].arg) \in Seq(Tasks)
         /\ Len(op[t].arg) # 1 => Tail(op[t].arg) # <<>>
<1>1. op[t].arg \in Seq(Tasks)
  BY DEF TInv, TypeOK, Op
<1>2. /\ Head(op[t].arg) \in Tasks
      /\ Tail(op[t].arg) \in Seq(Tasks)
      /\ Len(Tail(op[t].arg)) = Len(op[t].arg) - 1
  BY <1>1, HeadTailProperties
<1>3. Len(op[t].arg) \in Nat
  BY <1>1, LenProperties
<1>4. Len(op[t].arg) # 1 => Tail(op[t].arg) # <<>>
  <2>1. ASSUME Tail(op[t].arg) = <<>> PROVE Len(op[t].arg) = 1
    <3>1. Len(Tail(op[t].arg)) = 0
      BY <2>1, EmptySeq
    <3>. QED
      BY <3>1, <1>2, <1>3
  <2>. QED
    BY <2>1
<1>. QED
  BY <1>1, <1>2, <1>4

LEMMA TypeNext == TInv /\ [Next]_vars => TInv'
<1>. SUFFICES ASSUME TInv, [Next]_vars PROVE TInv'
  OBVIOUS
<1>. DEFINE Others == /\ status' \in [Tasks -> Status]
                      /\ parent' \in [Tasks -> Tasks \cup {None}]
                      /\ registry' \in [Tasks -> SUBSET Tasks]
                      /\ handles' \subseteq Tasks
                      /\ result' \in [Tasks -> {"none", "value", "error"}]
                      /\ open' \subseteq Tasks
                      /\ crashed' \in BOOLEAN
                      /\ issued' \subseteq Tasks /\ consumed' \subseteq Tasks
            Ops == op' \in [Tasks -> Op] /\ OpShape'
<1>a. Others /\ Ops => TInv'
  BY DEF TInv, TypeOK
<1>b. op' = op => Ops
  BY DEF TInv, TypeOK, OpShape
<1>c. ASSUME NEW t \in Tasks, op' = [op EXCEPT ![t] = NoOp]
      PROVE  Ops
  BY <1>c, NoOpSound, OpsSound
<1>d. ASSUME NEW t \in Tasks, NEW k \in OpKind \ {"parspawn"}, NEW s \in Seq(Tasks),
             k = "all" \/ s # <<>>, op' = [op EXCEPT ![t] = Do(k, s)]
      PROVE  Ops
  BY <1>d, DoSound, OpsSound
<1>e. ASSUME NEW t \in Tasks, NEW k \in OpKind \ {"parspawn"}, NEW s \in Seq(Tasks),
             k = "all" \/ s # <<>>, op' = [op EXCEPT ![t] = Step(op[t], k, s)]
      PROVE  Ops
  <2>1. op[t] \in Op
    BY DEF TInv, TypeOK
  <2>. QED
    BY <1>e, <2>1, StepSound, OpsSound
<1>1. ASSUME NEW t \in Tasks, CloneBegin(t) \/ CloneEnd(t) \/ Return(t) \/ Settle(t)
             \/ OpenFile(t) \/ CloseFile(t) \/ StoreGlobal(t)
      PROVE  TInv'
  BY <1>1, <1>a, <1>b
  DEF TInv, TypeOK, Status, CloneBegin, CloneEnd, Return, Settle, OpenFile, CloseFile,
      StoreGlobal
<1>2. ASSUME NEW t \in Tasks, Release(t) PROVE TInv'
  BY <1>2, <1>a, <1>b DEF TInv, TypeOK, Status, Release
<1>3. ASSUME NEW t \in Tasks, Forget(t) PROVE TInv'
  BY <1>3, <1>a, <1>b DEF TInv, TypeOK, Status, Forget
<1>4. ASSUME NEW t \in Tasks, Spawn(t) PROVE TInv'
  <2>1. PICK c \in Children : SpawnClosure(t, c) /\ op' = [op EXCEPT ![t] = Do("put", <<c>>)]
    BY <1>4 DEF Spawn
  <2>a. <<c>> \in Seq(Tasks) /\ <<c>> # <<>>
    BY DEF Children
  <2>2. Ops
    BY <2>1, <2>a, <1>d DEF OpKind
  <2>3. Others
    BY <1>4, <2>1 DEF TInv, TypeOK, Status, Children, SpawnClosure, Spawn
  <2>. QED
    BY <2>2, <2>3, <1>a
<1>5. ASSUME NEW t \in Tasks, PutHandle(t) PROVE TInv'
  <2>1. Head(op[t].arg) \in Tasks
    BY <1>5, HeadTask DEF PutHandle, In, TInv, OpShape
  <2>. QED
    BY <1>5, <2>1, <1>a, <1>c DEF PutHandle, TInv, TypeOK
<1>6. ASSUME NEW t \in Tasks, Await(t) \/ Drop(t) PROVE TInv'
  <2>1. PICK c \in Tasks :
          op' = [op EXCEPT ![t] = Do("await", <<c>>)] \/ op' = [op EXCEPT ![t] = Do("drop", <<c>>)]
    BY <1>6 DEF Await, Drop, TInv, TypeOK
  <2>a. <<c>> \in Seq(Tasks) /\ <<c>> # <<>>
    OBVIOUS
  <2>2. Ops
    BY <2>1, <2>a, <1>d DEF OpKind
  <2>. QED
    BY <1>6, <2>2, <1>a DEF Await, Drop, TInv, TypeOK
<1>7. ASSUME NEW t \in Tasks, AwaitDone(t) \/ DropDone(t) PROVE TInv'
  <2>1. Head(op[t].arg) \in Tasks
    BY <1>7, HeadTask DEF AwaitDone, DropDone, In, TInv, OpShape
  <2>. QED
    BY <1>7, <2>1, <1>a, <1>c DEF AwaitDone, DropDone, TInv, TypeOK
<1>8. ASSUME NEW t \in Tasks, AwaitAll(t) PROVE TInv'
  <2>1. PICK n \in 0 .. MaxArgs : \E cs \in [1 .. n -> issued] : op' = [op EXCEPT ![t] = Do("all", cs)]
    BY <1>8 DEF AwaitAll
  <2>a. PICK cs \in [1 .. n -> issued] : op' = [op EXCEPT ![t] = Do("all", cs)]
    BY <2>1
  <2>2. cs \in Seq(Tasks)
    BY TasksAssumption, SeqDef DEF TInv, TypeOK
  <2>3. Ops
    BY <2>a, <2>2, <1>d DEF OpKind
  <2>. QED
    BY <1>8, <2>3, <1>a DEF AwaitAll, TInv, TypeOK
<1>9. ASSUME NEW t \in Tasks, AwaitAllNext(t) PROVE TInv'
  <2>1. op[t].arg \in Seq(Tasks) /\ op[t].arg # <<>>
    BY <1>9, HeadTask DEF AwaitAllNext
  <2>2. Ops
    BY <1>9, <2>1, <1>e DEF AwaitAllNext, OpKind, TInv, TypeOK
  <2>. QED
    BY <1>9, <2>2, <1>a DEF AwaitAllNext, TInv, TypeOK
<1>10. ASSUME NEW t \in Tasks, AwaitAllEnd(t) PROVE TInv'
  BY <1>10, <1>a, <1>c DEF AwaitAllEnd, TInv, TypeOK
<1>11. ASSUME NEW t \in Tasks, AwaitAllGot(t) PROVE TInv'
  <2>1. Head(op[t].arg) \in Tasks /\ Tail(op[t].arg) \in Seq(Tasks)
    BY <1>11, HeadTask DEF AwaitAllGot, In, TInv, OpShape
  <2>2. Ops
    BY <1>11, <2>1, <1>c, <1>e DEF AwaitAllGot, OpKind, TInv, TypeOK
  <2>. QED
    BY <1>11, <2>1, <2>2, <1>a DEF AwaitAllGot, TInv, TypeOK
<1>12. ASSUME NEW t \in Tasks, Parallel(t) PROVE TInv'
  <2>1. PICK n \in 1 .. MaxArgs : op' = [op EXCEPT ![t] = Spawning(<<>>, n)]
    BY <1>12 DEF Parallel
  <2>2. <<>> \in Seq(Tasks) /\ n \in 0 .. MaxArgs /\ n # 0
    BY TasksAssumption
  <2>3. Ops
    BY <2>1, <2>2, SpawningSound, OpsSound
  <2>. QED
    BY <1>12, <2>3, <1>a DEF Parallel, TInv, TypeOK
<1>13. ASSUME NEW t \in Tasks, ParallelSpawn(t) PROVE TInv'
  <2>1. PICK c \in Children :
          /\ SpawnClosure(t, c)
          /\ op' = [op EXCEPT ![t] = Spawning(Append(op[t].arg, c), op[t].left - 1)]
    BY <1>13 DEF ParallelSpawn, TInv, TypeOK
  <2>2. op[t] \in Op /\ op[t].left # 0
    BY <1>13 DEF ParallelSpawn, In, TInv, TypeOK, OpShape
  <2>3. op[t].arg \in Seq(Tasks) /\ op[t].left \in 0 .. MaxArgs /\ c \in Tasks
    BY <2>2 DEF Op, Children
  <2>4. Append(op[t].arg, c) \in Seq(Tasks) /\ Append(op[t].arg, c) # <<>>
    BY <2>3, AppendProperties
  <2>5. op[t].left - 1 \in 0 .. MaxArgs
    BY <2>2, <2>3, TasksAssumption
  <2>6. Ops
    BY <2>1, <2>4, <2>5, SpawningSound, OpsSound
  <2>7. Others
    BY <1>13, <2>1 DEF TInv, TypeOK, Status, Children, SpawnClosure, ParallelSpawn
  <2>. QED
    BY <2>6, <2>7, <1>a
<1>14. ASSUME NEW t \in Tasks, ParallelWait(t) PROVE TInv'
  <2>1. op[t].arg # <<>>
    BY <1>14 DEF ParallelWait, In, TInv, OpShape
  <2>2. Tail(op[t].arg) \in Seq(Tasks) /\ (Len(op[t].arg) # 1 => Tail(op[t].arg) # <<>>)
    BY <2>1, HeadTask
  <2>3. Ops
    BY <1>14, <2>2, <1>c, <1>e DEF ParallelWait, OpKind, TInv, TypeOK
  <2>. QED
    BY <1>14, <2>3, <1>a DEF ParallelWait, TInv, TypeOK
<1>15. CASE UNCHANGED vars
  BY <1>15, <1>a, <1>b DEF vars, TInv, TypeOK
<1>. QED
  BY <1>1, <1>2, <1>3, <1>4, <1>5, <1>6, <1>7, <1>8, <1>9, <1>10, <1>11, <1>12,
     <1>13, <1>14, <1>15
  DEF Next, Proceed, Script

\* The variables of AsyncTasks have their types in every reachable state.
THEOREM TypeCorrect == Spec => []TypeOK
<1>1. TInv => TypeOK
  BY DEF TInv
<1>. QED
  BY <1>1, TypeInit, TypeNext, PTL DEF Spec
-----------------------------------------------------------------------------
(* The registries of futures.                                              *)

\* The future of a new task is registered with the VM that runs the native.
LEMMA SpawnRegisters ==
  ASSUME TypeOK, RegistryExact, NEW t \in Tasks, status[t] = "running",
         NEW c \in Children, SpawnClosure(t, c)
  PROVE  RegistryExact'
<1>. SUFFICES ASSUME NEW u \in Tasks
              PROVE  registry'[u] =
                       IF status'[u] \in Over THEN {}
                       ELSE {d \in Children : parent'[d] = u /\ status'[d] \notin {"unborn", "gone"}}
  BY DEF RegistryExact
<1>1. registry[u] = IF status[u] \in Over THEN {}
                    ELSE {d \in Children : parent[d] = u /\ status[d] \notin {"unborn", "gone"}}
  BY DEF RegistryExact
<1>2. /\ status' = [status EXCEPT ![c] = "starting"]
      /\ parent' = [parent EXCEPT ![c] = t]
      /\ registry' = [registry EXCEPT ![t] = @ \cup {c}]
      /\ status[c] = "unborn"
      /\ c \in Tasks
  BY DEF SpawnClosure, Children
<1>3. CASE u = t
  BY <1>1, <1>2, <1>3 DEF TypeOK, Over, Children
<1>4. CASE u # t
  BY <1>1, <1>2, <1>4 DEF TypeOK, Over, Children
<1>. QED
  BY <1>3, <1>4

\* A step that leaves parents and registries alone, takes no task into or out
\* of Over and neither starts nor ends one keeps the registries exact.
LEMMA RegistryKept ==
  ASSUME RegistryExact, registry' = registry, parent' = parent,
         \A t \in Tasks : /\ status'[t] \in Over <=> status[t] \in Over
                          /\ status'[t] \in {"unborn", "gone"}
                               <=> status[t] \in {"unborn", "gone"}
  PROVE  RegistryExact'
BY DEF RegistryExact, Children

LEMMA RegistryInit == Init => RegistryExact
BY DEF Init, RegistryExact, Over, Children

LEMMA RegistryNext == TypeOK /\ RegistryExact /\ [Next]_vars => RegistryExact'
<1>. SUFFICES ASSUME TypeOK, RegistryExact, [Next]_vars PROVE RegistryExact'
  OBVIOUS
<1>1. ASSUME NEW t \in Tasks, CloneBegin(t) \/ CloneEnd(t) \/ Return(t) \/ Settle(t)
      PROVE  RegistryExact'
  <2>1. registry' = registry /\ parent' = parent
    BY <1>1 DEF CloneBegin, CloneEnd, Return, Settle
  <2>2. ASSUME NEW u \in Tasks
        PROVE  /\ status'[u] \in Over <=> status[u] \in Over
               /\ status'[u] \in {"unborn", "gone"} <=> status[u] \in {"unborn", "gone"}
    BY <1>1 DEF TypeOK, Over, CloneBegin, CloneEnd, Return, Idle, Settle
  <2>. QED
    BY <2>1, <2>2, RegistryKept
<1>2. ASSUME NEW t \in Tasks, Release(t) PROVE RegistryExact'
  <2>. SUFFICES ASSUME NEW u \in Tasks
                PROVE  registry'[u] =
                         IF status'[u] \in Over THEN {}
                         ELSE {d \in Children : parent'[d] = u /\ status'[d] \notin {"unborn", "gone"}}
    BY DEF RegistryExact
  <2>1. registry[u] = IF status[u] \in Over THEN {}
                      ELSE {d \in Children : parent[d] = u /\ status[d] \notin {"unborn", "gone"}}
    BY DEF RegistryExact
  <2>2. CASE u = t
    BY <1>2, <2>2 DEF TypeOK, Over, Release
  <2>3. CASE u # t
    BY <1>2, <2>1, <2>3 DEF TypeOK, Over, Children, Release
  <2>. QED
    BY <2>2, <2>3
<1>3. ASSUME NEW t \in Tasks, Forget(t) PROVE RegistryExact'
  <2>. SUFFICES ASSUME NEW u \in Tasks
                PROVE  registry'[u] =
                         IF status'[u] \in Over THEN {}
                         ELSE {d \in Children : parent'[d] = u /\ status'[d] \notin {"unborn", "gone"}}
    BY DEF RegistryExact
  <2>1. registry[u] = IF status[u] \in Over THEN {}
                      ELSE {d \in Children : parent[d] = u /\ status[d] \notin {"unborn", "gone"}}
    BY DEF RegistryExact
  <2>2. status'[u] \in Over <=> status[u] \in Over
    BY <1>3 DEF TypeOK, Over, Forget
  <2>3. CASE u = parent[t]
    BY <1>3, <2>1, <2>2, <2>3 DEF TypeOK, Children, Forget
  <2>4. CASE u # parent[t]
    BY <1>3, <2>1, <2>2, <2>4 DEF TypeOK, Children, Forget
  <2>. QED
    BY <2>3, <2>4
<1>4. ASSUME NEW t \in Tasks, Spawn(t) \/ ParallelSpawn(t) PROVE RegistryExact'
  <2>1. PICK c \in Children : SpawnClosure(t, c)
    BY <1>4 DEF Spawn, ParallelSpawn
  <2>. QED
    BY <1>4, <2>1, SpawnRegisters DEF Spawn, ParallelSpawn, Idle, In
<1>5. ASSUME NEW t \in Tasks,
             \/ PutHandle(t) \/ Await(t) \/ AwaitDone(t) \/ Drop(t) \/ DropDone(t)
             \/ AwaitAll(t) \/ AwaitAllNext(t) \/ AwaitAllEnd(t) \/ AwaitAllGot(t)
             \/ Parallel(t) \/ ParallelWait(t)
             \/ OpenFile(t) \/ CloseFile(t) \/ StoreGlobal(t)
      PROVE  RegistryExact'
  <2>1. UNCHANGED <<status, parent, registry>>
    BY <1>5
    DEF PutHandle, Await, AwaitDone, Drop, DropDone, AwaitAll, AwaitAllNext, AwaitAllEnd,
        AwaitAllGot, Parallel, ParallelWait, OpenFile, CloseFile, StoreGlobal
  <2>. QED
    BY <2>1, RegistryKept
<1>6. CASE UNCHANGED vars
  BY <1>6, RegistryKept DEF vars
<1>. QED
  BY <1>1, <1>2, <1>3, <1>4, <1>5, <1>6 DEF Next, Proceed, Script

\* Every VM registers exactly the futures whose goroutines have not come to
\* their end, and none once it is released.
THEOREM RegistriesExact == Spec => []RegistryExact
<1>1. Init => TInv /\ RegistryExact
  BY TypeInit, RegistryInit
<1>2. TInv /\ RegistryExact /\ [Next]_vars => (TInv /\ RegistryExact)'
  BY TypeNext, RegistryNext DEF TInv
<1>. QED
  BY <1>1, <1>2, PTL DEF Spec

-----------------------------------------------------------------------------
(* Files.                                                                  *)

\* A VM that has been released has no open file, and nothing opens one on it.
FilesClosedWhenOver == \A t \in Tasks : status[t] \in Over => t \notin open

LEMMA FilesNext ==
  TypeOK /\ FilesClosedWhenOver /\ [Next]_vars => FilesClosedWhenOver'
<1>. SUFFICES ASSUME TypeOK, FilesClosedWhenOver, [Next]_vars
              PROVE  FilesClosedWhenOver'
  OBVIOUS
<1>1. ASSUME NEW t \in Tasks,
             CloneBegin(t) \/ CloneEnd(t) \/ Return(t) \/ Settle(t) \/ Forget(t)
      PROVE  FilesClosedWhenOver'
  BY <1>1 DEF TypeOK, FilesClosedWhenOver, Over, CloneBegin, CloneEnd, Return, Settle, Forget
<1>2. ASSUME NEW t \in Tasks, Release(t) PROVE FilesClosedWhenOver'
  BY <1>2 DEF TypeOK, FilesClosedWhenOver, Over, Release
<1>3. ASSUME NEW t \in Tasks, OpenFile(t) \/ CloseFile(t) PROVE FilesClosedWhenOver'
  BY <1>3 DEF TypeOK, FilesClosedWhenOver, Over, OpenFile, CloseFile, Idle
<1>4. ASSUME NEW t \in Tasks, Spawn(t) \/ ParallelSpawn(t) PROVE FilesClosedWhenOver'
  <2>1. PICK c \in Children : SpawnClosure(t, c)
    BY <1>4 DEF Spawn, ParallelSpawn
  <2>. QED
    BY <1>4, <2>1 DEF TypeOK, FilesClosedWhenOver, Over, Spawn, ParallelSpawn, SpawnClosure
<1>5. ASSUME NEW t \in Tasks,
             \/ PutHandle(t) \/ Await(t) \/ AwaitDone(t) \/ Drop(t) \/ DropDone(t)
             \/ AwaitAll(t) \/ AwaitAllNext(t) \/ AwaitAllEnd(t) \/ AwaitAllGot(t)
             \/ Parallel(t) \/ ParallelWait(t) \/ StoreGlobal(t)
      PROVE  FilesClosedWhenOver'
  <2>1. UNCHANGED <<status, open>>
    BY <1>5
    DEF PutHandle, Await, AwaitDone, Drop, DropDone, AwaitAll, AwaitAllNext, AwaitAllEnd,
        AwaitAllGot, Parallel, ParallelWait, StoreGlobal
  <2>. QED
    BY <2>1 DEF FilesClosedWhenOver
<1>6. CASE UNCHANGED vars
  BY <1>6 DEF vars, FilesClosedWhenOver
<1>. QED
  BY <1>1, <1>2, <1>3, <1>4, <1>5, <1>6 DEF Next, Proceed, Script

\* Who is told that a task is done finds the files of its VM closed.
THEOREM FilesClosed == Spec => []FilesClosedWhenReady
<1>1. Init => TInv /\ FilesClosedWhenOver
  BY TypeInit DEF Init, FilesClosedWhenOver
<1>2. TInv /\ FilesClosedWhenOver /\ [Next]_vars => (TInv /\ FilesClosedWhenOver)'
  BY TypeNext, FilesNext DEF TInv
<1>3. FilesClosedWhenOver => FilesClosedWhenReady
  BY DEF FilesClosedWhenOver, FilesClosedWhenReady, Ready, Over, Children
<1>. QED
  BY <1>1, <1>2, <1>3, PTL DEF Spec

-----------------------------------------------------------------------------
(* Handles.                                                                *)

\* A handle is issued once: while async.spawn has yet to put it into the
\* table, no script and no other native can know it.
PutsAreFresh ==
  /\ \A c \in issued : status[c] # "unborn"
  /\ \A t \in Tasks : op[t].kind = "put" =>
       /\ Head(op[t].arg) \notin issued
       /\ status[Head(op[t].arg)] # "unborn"
  /\ \A t, u \in Tasks :
       op[t].kind = "put" /\ op[u].kind = "put" /\ t # u =>
         Head(op[t].arg) # Head(op[u].arg)

\* Only issued handles are awaited, dropped and consumed.
UsesAreIssued ==
  /\ consumed \subseteq issued
  /\ \A t \in Tasks : op[t].kind \in {"await", "drop", "all", "allwait"} =>
       op[t].arg \in Seq(issued)

HInv == PutsAreFresh /\ UsesAreIssued /\ ConsumedHandlesGone

LEMMA HandlesInit == Init => HInv
BY DEF Init, HInv, PutsAreFresh, UsesAreIssued, ConsumedHandlesGone, NoOp

\* A step of one native that puts nothing.
LEMMA PutsKept ==
  ASSUME TypeOK, PutsAreFresh, NEW t \in Tasks, NEW o, op' = [op EXCEPT ![t] = o],
         o.kind # "put", issued' = issued, UNCHANGED status
  PROVE  PutsAreFresh'
BY DEF TypeOK, PutsAreFresh

\* A step of one native that works on issued handles, or on none.
LEMMA UsesKept ==
  ASSUME TypeOK, UsesAreIssued, NEW t \in Tasks, NEW o, op' = [op EXCEPT ![t] = o],
         o.kind \in {"await", "drop", "all", "allwait"} => o.arg \in Seq(issued),
         issued' = issued, consumed' \subseteq issued
  PROVE  UsesAreIssued'
BY DEF TypeOK, UsesAreIssued

\* What the record of each native that starts or waits for tasks holds.
LEMMA HandleKinds ==
  /\ NoOp.kind = "none"
  /\ \A k, s : Do(k, s).kind = k /\ Do(k, s).arg = s
  /\ \A s, n : Spawning(s, n).kind \in {"parspawn", "parwait"}
BY DEF NoOp, Do, Spawning

LEMMA StepKind ==
  ASSUME NEW o \in Op, NEW k, NEW s
  PROVE  Step(o, k, s).kind = k /\ Step(o, k, s).arg = s
BY DEF Step, Op

LEMMA HandlesNext == TInv /\ HInv /\ [Next]_vars => HInv'
<1>. SUFFICES ASSUME TInv, HInv, [Next]_vars PROVE HInv'
  OBVIOUS
<1>0. TypeOK /\ PutsAreFresh /\ UsesAreIssued /\ ConsumedHandlesGone
  BY DEF TInv, HInv
<1>a. ASSUME NEW t \in Tasks, NEW o, op' = [op EXCEPT ![t] = o],
             o.kind # "put",
             o.kind \in {"await", "drop", "all", "allwait"} => o.arg \in Seq(issued),
             UNCHANGED <<status, issued, consumed, handles>>
      PROVE  HInv'
  <2>1. PutsAreFresh' /\ UsesAreIssued'
    BY <1>0, <1>a, PutsKept, UsesKept DEF UsesAreIssued
  <2>. QED
    BY <1>0, <1>a, <2>1 DEF HInv, ConsumedHandlesGone
<1>b. ASSUME NEW t \in Tasks, NEW o, NEW c \in issued, op' = [op EXCEPT ![t] = o],
             o.kind # "put",
             o.kind \in {"await", "drop", "all", "allwait"} => o.arg \in Seq(issued),
             handles' = handles \ {c}, consumed' = consumed \cup {c},
             UNCHANGED <<status, issued>>
      PROVE  HInv'
  <2>1. PutsAreFresh' /\ UsesAreIssued'
    BY <1>0, <1>b, PutsKept, UsesKept DEF UsesAreIssued
  <2>. QED
    BY <1>0, <1>b, <2>1 DEF HInv, ConsumedHandlesGone
<1>c. ASSUME NEW t \in Tasks, NEW k \in {"await", "drop", "all"}, NEW s \in Seq(issued),
             op' = [op EXCEPT ![t] = Do(k, s)],
             UNCHANGED <<status, issued, consumed, handles>>
      PROVE  HInv'
  <2>1. Do(k, s).kind = k /\ Do(k, s).arg = s
    BY HandleKinds
  <2>. QED
    BY <1>c, <2>1, <1>a
<1>1. ASSUME NEW t \in Tasks,
             CloneBegin(t) \/ CloneEnd(t) \/ Return(t) \/ Release(t) \/ Settle(t) \/ Forget(t)
      PROVE  HInv'
  <2>1. UNCHANGED <<op, issued, consumed, handles>>
    BY <1>1 DEF CloneBegin, CloneEnd, Return, Release, Settle, Forget
  <2>2. \A c \in Tasks : status[c] # "unborn" => status'[c] # "unborn"
    BY <1>0, <1>1 DEF TypeOK, CloneBegin, CloneEnd, Return, Release, Settle, Forget
  <2>3. \A u \in Tasks : op[u].kind = "put" => Head(op[u].arg) \in Tasks
    BY HeadTask DEF TInv, OpShape
  <2>4. PutsAreFresh'
    BY <1>0, <2>1, <2>2, <2>3 DEF PutsAreFresh, TypeOK
  <2>. QED
    BY <1>0, <2>1, <2>4 DEF HInv, UsesAreIssued, ConsumedHandlesGone
<1>2. ASSUME NEW t \in Tasks, Spawn(t) PROVE HInv'
  <2>1. PICK c \in Children : SpawnClosure(t, c) /\ op' = [op EXCEPT ![t] = Do("put", <<c>>)]
    BY <1>2 DEF Spawn
  <2>2. UNCHANGED <<issued, consumed, handles>>
    BY <1>2 DEF Spawn
  <2>3. status[c] = "unborn" /\ status' = [status EXCEPT ![c] = "starting"] /\ c \in Tasks
    BY <2>1 DEF SpawnClosure, Children
  <2>4. op'[t].kind = "put" /\ Head(op'[t].arg) = c
    BY <1>0, <2>1, HandleKinds DEF TypeOK
  <2>5. \A u \in Tasks \ {t} : op'[u] = op[u]
    BY <1>0, <2>1 DEF TypeOK
  <2>6. \A u \in Tasks : op[u].kind = "put" => Head(op[u].arg) \in Tasks
    BY HeadTask DEF TInv, OpShape
  <2>7. \A d \in Tasks : status[d] # "unborn" => d # c /\ status'[d] # "unborn"
    BY <1>0, <2>3 DEF TypeOK
  <2>8. status'[c] # "unborn" /\ c \notin issued
    BY <1>0, <2>3 DEF TypeOK, PutsAreFresh
  <2>9. PutsAreFresh'
    BY <1>0, <2>2, <2>4, <2>5, <2>6, <2>7, <2>8 DEF PutsAreFresh, TypeOK
  <2>10. UsesAreIssued'
    BY <1>0, <2>2, <2>4, <2>5 DEF UsesAreIssued
  <2>. QED
    BY <1>0, <2>2, <2>9, <2>10 DEF HInv, ConsumedHandlesGone
<1>3. ASSUME NEW t \in Tasks, PutHandle(t) PROVE HInv'
  <2>. DEFINE c == Head(op[t].arg)
  <2>1. /\ op' = [op EXCEPT ![t] = NoOp]
        /\ issued' = issued \cup {c}
        /\ handles' = handles \cup {c}
        /\ UNCHANGED <<status, consumed>>
        /\ op[t].kind = "put"
    BY <1>3 DEF PutHandle, In
  <2>2. c \notin issued /\ status[c] # "unborn"
    BY <1>0, <2>1 DEF PutsAreFresh
  <2>3. op'[t].kind = "none" /\ \A u \in Tasks \ {t} : op'[u] = op[u]
    BY <1>0, <2>1, HandleKinds DEF TypeOK
  <2>4. PutsAreFresh'
    BY <1>0, <2>1, <2>2, <2>3 DEF PutsAreFresh
  <2>5. ASSUME NEW s \in Seq(issued) PROVE s \in Seq(issued')
    BY <2>1, <2>5, SeqDef
  <2>6. UsesAreIssued'
    BY <1>0, <2>1, <2>3, <2>5 DEF UsesAreIssued
  <2>. QED
    BY <1>0, <2>1, <2>2, <2>4, <2>6 DEF HInv, ConsumedHandlesGone, UsesAreIssued
<1>4. ASSUME NEW t \in Tasks, Await(t) \/ Drop(t) PROVE HInv'
  <2>1. PICK c \in issued :
          op' = [op EXCEPT ![t] = Do("await", <<c>>)] \/ op' = [op EXCEPT ![t] = Do("drop", <<c>>)]
    BY <1>4 DEF Await, Drop
  <2>2. UNCHANGED <<status, issued, consumed, handles>>
    BY <1>4 DEF Await, Drop
  <2>3. <<c>> \in Seq(issued)
    OBVIOUS
  <2>4. CASE op' = [op EXCEPT ![t] = Do("await", <<c>>)]
    BY <2>2, <2>3, <2>4, <1>c DEF OpKind
  <2>5. CASE op' = [op EXCEPT ![t] = Do("drop", <<c>>)]
    BY <2>2, <2>3, <2>5, <1>c DEF OpKind
  <2>. QED
    BY <2>1, <2>4, <2>5
<1>5. ASSUME NEW t \in Tasks, AwaitDone(t) \/ DropDone(t) PROVE HInv'
  <2>1. op[t].kind \in {"await", "drop"}
    BY <1>5 DEF AwaitDone, DropDone, In
  <2>2. op[t].arg \in Seq(issued) /\ op[t].arg # <<>>
    BY <1>0, <2>1 DEF UsesAreIssued, TInv, OpShape
  <2>3. Head(op[t].arg) \in issued
    BY <2>2, HeadTailProperties
  <2>. QED
    BY <1>5, <2>3, <1>b, HandleKinds DEF AwaitDone, DropDone
<1>6. ASSUME NEW t \in Tasks, AwaitAll(t) PROVE HInv'
  <2>1. PICK n \in 0 .. MaxArgs : \E cs \in [1 .. n -> issued] : op' = [op EXCEPT ![t] = Do("all", cs)]
    BY <1>6 DEF AwaitAll
  <2>2. PICK cs \in [1 .. n -> issued] : op' = [op EXCEPT ![t] = Do("all", cs)]
    BY <2>1
  <2>3. cs \in Seq(issued)
    BY TasksAssumption, SeqDef
  <2>4. UNCHANGED <<status, issued, consumed, handles>>
    BY <1>6 DEF AwaitAll
  <2>. QED
    BY <2>2, <2>3, <2>4, <1>c
<1>7. ASSUME NEW t \in Tasks, AwaitAllNext(t) PROVE HInv'
  <2>1. op' = [op EXCEPT ![t] = Step(op[t], "allwait", op[t].arg)]
    BY <1>0, <1>7 DEF AwaitAllNext, TypeOK
  <2>2. op[t].arg \in Seq(issued) /\ op[t] \in Op
    BY <1>0, <1>7 DEF AwaitAllNext, In, UsesAreIssued, TypeOK
  <2>3. UNCHANGED <<status, issued, consumed, handles>>
    BY <1>7 DEF AwaitAllNext
  <2>4. /\ Step(op[t], "allwait", op[t].arg).kind = "allwait"
        /\ Step(op[t], "allwait", op[t].arg).arg = op[t].arg
    BY <2>2, StepKind
  <2>. QED
    BY <2>1, <2>2, <2>3, <2>4, <1>a
<1>8. ASSUME NEW t \in Tasks, AwaitAllEnd(t) PROVE HInv'
  BY <1>8, <1>a, HandleKinds DEF AwaitAllEnd
<1>9. ASSUME NEW t \in Tasks, AwaitAllGot(t) PROVE HInv'
  <2>. DEFINE c == Head(op[t].arg)
  <2>1. op[t].arg \in Seq(issued) /\ op[t].arg # <<>> /\ op[t] \in Op
    BY <1>0, <1>9 DEF AwaitAllGot, In, UsesAreIssued, TInv, OpShape, TypeOK
  <2>2. c \in issued /\ Tail(op[t].arg) \in Seq(issued)
    BY <2>1, HeadTailProperties
  <2>3. /\ handles' = handles \ {c} /\ consumed' = consumed \cup {c}
        /\ UNCHANGED <<status, issued>>
    BY <1>9 DEF AwaitAllGot
  <2>4. CASE op' = [op EXCEPT ![t] = NoOp]
    <3>1. NoOp.kind \notin {"put", "await", "drop", "all", "allwait"}
      BY HandleKinds
    <3>. QED
      BY <2>2, <2>3, <2>4, <3>1, <1>b
  <2>5. CASE op' = [op EXCEPT ![t] = Step(op[t], "all", Tail(op[t].arg))]
    <3>1. /\ Step(op[t], "all", Tail(op[t].arg)).kind = "all"
          /\ Step(op[t], "all", Tail(op[t].arg)).arg = Tail(op[t].arg)
      BY <2>1, StepKind
    <3>. QED
      BY <2>2, <2>3, <2>5, <3>1, <1>b
  <2>. QED
    BY <1>0, <1>9, <2>4, <2>5 DEF AwaitAllGot, TypeOK
<1>10. ASSUME NEW t \in Tasks, Parallel(t) PROVE HInv'
  <2>1. PICK n \in 1 .. MaxArgs : op' = [op EXCEPT ![t] = Spawning(<<>>, n)]
    BY <1>10 DEF Parallel
  <2>2. UNCHANGED <<status, issued, consumed, handles>>
    BY <1>10 DEF Parallel
  <2>. QED
    BY <2>1, <2>2, <1>a, HandleKinds
<1>11. ASSUME NEW t \in Tasks, ParallelSpawn(t) PROVE HInv'
  <2>1. PICK c \in Children :
          /\ SpawnClosure(t, c)
          /\ op' = [op EXCEPT ![t] = Spawning(Append(op[t].arg, c), op[t].left - 1)]
    BY <1>0, <1>11 DEF ParallelSpawn, TypeOK
  <2>2. UNCHANGED <<issued, consumed, handles>>
    BY <1>11 DEF ParallelSpawn
  <2>3. status' = [status EXCEPT ![c] = "starting"]
    BY <2>1 DEF SpawnClosure
  <2>4. op'[t].kind \in {"parspawn", "parwait"}
    BY <1>0, <2>1, HandleKinds DEF TypeOK
  <2>5. \A u \in Tasks \ {t} : op'[u] = op[u]
    BY <1>0, <2>1 DEF TypeOK
  <2>6. \A u \in Tasks : op[u].kind = "put" => Head(op[u].arg) \in Tasks
    BY HeadTask DEF TInv, OpShape
  <2>7. \A d \in Tasks : status[d] # "unborn" => status'[d] # "unborn"
    BY <1>0, <2>3 DEF TypeOK
  <2>8. PutsAreFresh'
    BY <1>0, <2>2, <2>4, <2>5, <2>6, <2>7 DEF PutsAreFresh, TypeOK
  <2>9. UsesAreIssued'
    BY <1>0, <2>2, <2>4, <2>5 DEF UsesAreIssued
  <2>. QED
    BY <1>0, <2>2, <2>8, <2>9 DEF HInv, ConsumedHandlesGone
<1>12. ASSUME NEW t \in Tasks, ParallelWait(t) PROVE HInv'
  <2>1. CASE op' = [op EXCEPT ![t] = NoOp]
    <3>1. UNCHANGED <<status, issued, consumed, handles>>
      BY <1>12 DEF ParallelWait
    <3>2. NoOp.kind \notin {"put", "await", "drop", "all", "allwait"}
      BY HandleKinds
    <3>. QED
      BY <2>1, <3>1, <3>2, <1>a
  <2>2. CASE op' = [op EXCEPT ![t] = Step(op[t], "parwait", Tail(op[t].arg))]
    <3>1. op[t] \in Op
      BY <1>0 DEF TypeOK
    <3>2. UNCHANGED <<status, issued, consumed, handles>>
      BY <1>12 DEF ParallelWait
    <3>3. Step(op[t], "parwait", Tail(op[t].arg)).kind = "parwait"
      BY <3>1, StepKind
    <3>. QED
      BY <2>2, <3>2, <3>3, <1>a
  <2>. QED
    BY <1>0, <1>12, <2>1, <2>2 DEF ParallelWait, TypeOK
<1>13. ASSUME NEW t \in Tasks, OpenFile(t) \/ CloseFile(t) \/ StoreGlobal(t) PROVE HInv'
  BY <1>0, <1>13
  DEF HInv, PutsAreFresh, UsesAreIssued, ConsumedHandlesGone, OpenFile, CloseFile, StoreGlobal
<1>14. CASE UNCHANGED vars
  BY <1>0, <1>14 DEF vars, HInv, PutsAreFresh, UsesAreIssued, ConsumedHandlesGone
<1>. QED
  BY <1>1, <1>2, <1>3, <1>4, <1>5, <1>6, <1>7, <1>8, <1>9, <1>10, <1>11, <1>12,
     <1>13, <1>14
  DEF Next, Proceed, Script

\* Once an await, an await_all or a drop is done with a future, its handle is
\* gone from the table for good.
THEOREM ConsumedGone == Spec => []ConsumedHandlesGone
<1>1. Init => TInv /\ HInv
  BY TypeInit, HandlesInit
<1>2. TInv /\ HInv /\ [Next]_vars => (TInv /\ HInv)'
  BY TypeNext, HandlesNext
<1>3. HInv => ConsumedHandlesGone
  BY DEF HInv
<1>. QED
  BY <1>1, <1>2, <1>3, PTL DEF Spec
-----------------------------------------------------------------------------
(* The tape of the tensors.                                                *)

Fields == {"shape", "data", "grad"}

\* The tensors form a sequence, and each has its three fields.
Shaped ==
  /\ tensors = [i \in 1 .. Len(tensors) |-> tensors[i]] /\ Len(tensors) \in Nat
  /\ \A i \in 1 .. Len(tensors) : DOMAIN tensors[i] = Fields

\* The tape holds tensors that exist.
TapeWithin == tape \in Seq(1 .. Len(tensors))

Taped == Shaped /\ TapeWithin /\ Tensor!TapeIsFresh

LEMMA LeafIs == \A t : DOMAIN Tensor!Leaf(t) = Fields /\ Tensor!Leaf(t).grad = Tensor!NoGrad
  BY DEF Tensor!Leaf, Fields

\* A sequence that is the function f has its length and elements.
LEMMA SequenceOf ==
  ASSUME NEW n \in Nat, NEW f, f = [i \in 1 .. n |-> f[i]]
  PROVE  Len(f) = n /\ \A x : /\ Len(Append(f, x)) = n + 1
                              /\ Append(f, x) = [i \in 1 .. n + 1 |-> Append(f, x)[i]]
                              /\ \A i \in 1 .. n : Append(f, x)[i] = f[i]
                              /\ Append(f, x)[n + 1] = x
<1>1. SUFFICES ASSUME NEW x
               PROVE  /\ Len(f) = n /\ Len(Append(f, x)) = n + 1
                      /\ Append(f, x) = [i \in 1 .. n + 1 |-> Append(f, x)[i]]
                      /\ \A i \in 1 .. n : Append(f, x)[i] = f[i]
                      /\ Append(f, x)[n + 1] = x
  OBVIOUS
<1> DEFINE S == {f[i] : i \in 1 .. n} \cup {x}
<1>2. f \in [1 .. n -> S]
  OBVIOUS
<1>3. f \in Seq(S) /\ Len(f) = n
  <2>1. f \in Seq(S)
    BY <1>2, SeqDef
  <2>. QED
    BY <1>2, <2>1, LenProperties
<1>4. x \in S
  OBVIOUS
<1> HIDE DEF S
<1>5. Append(f, x) \in Seq(S) /\ Len(Append(f, x)) = n + 1
      /\ (\A i \in 1 .. n : Append(f, x)[i] = f[i]) /\ Append(f, x)[n + 1] = x
  BY <1>3, <1>4, AppendProperties
<1>6. Append(f, x) = [i \in 1 .. n + 1 |-> Append(f, x)[i]]
  BY <1>5, LenProperties
<1>. QED
  BY <1>3, <1>5, <1>6

\* Tensors made anew from those there are, with gradients as before or none.
LEMMA SameTensors ==
  ASSUME Taped, NEW f, tensors' = [i \in 1 .. Len(tensors) |-> f[i]],
         \A i \in 1 .. Len(tensors) : DOMAIN f[i] = Fields
  PROVE  Shaped' /\ Len(tensors') = Len(tensors)
<1>1. Len(tensors) \in Nat
  BY DEF Taped, Shaped
<1>2. Len(tensors') = Len(tensors)
  <2>1. tensors' = [i \in 1 .. Len(tensors) |-> tensors'[i]]
    OBVIOUS
  <2>. QED
    BY <1>1, <2>1, SequenceOf
<1>. QED
  BY <1>1, <1>2 DEF Shaped

LEMMA OperateTapes ==
  ASSUME Taped, NEW kind, NEW in, NEW arg, Tensor!Operate(kind, in, arg)
  PROVE  Taped'
<1> DEFINE n == Len(tensors)
<1>1. n \in Nat /\ tensors = [i \in 1 .. n |-> tensors[i]]
      /\ \A i \in 1 .. n : DOMAIN tensors[i] = Fields
  BY DEF Taped, Shaped
<1>2. PICK t : tensors' = Append(tensors, Tensor!Leaf(t))
  BY DEF Tensor!Operate
<1> HIDE DEF n
<1>3. /\ Len(tensors') = n + 1 /\ tensors' = [i \in 1 .. n + 1 |-> tensors'[i]]
      /\ \A i \in 1 .. n : tensors'[i] = tensors[i]
      /\ tensors'[n + 1] = Tensor!Leaf(t)
  BY <1>1, <1>2, SequenceOf
<1>4. Shaped'
  BY <1>1, <1>3, LeafIs DEF Shaped
<1>5. tape \in Seq(1 .. n)
  BY DEF Taped, TapeWithin, n
<1>6. tape \in Seq(1 .. n + 1)
  BY <1>1, <1>5, SeqMonotonic
<1>7. tape' = tape \/ tape' = Append(tape, n + 1)
  BY DEF Tensor!Operate, n
<1>8. \A i \in DOMAIN tape : tape[i] \in 1 .. n /\ tensors[tape[i]].grad = Tensor!NoGrad
  BY <1>5, ElementOfSeq, LenProperties DEF Taped, Tensor!TapeIsFresh
<1>9. CASE tape' = tape
  BY <1>3, <1>4, <1>6, <1>8, <1>9 DEF Taped, TapeWithin, Tensor!TapeIsFresh
<1>10. CASE tape' = Append(tape, n + 1)
  <2>1. n + 1 \in 1 .. n + 1
    BY <1>1
  <2>2. /\ tape' \in Seq(1 .. n + 1) /\ DOMAIN tape' = 1 .. Len(tape) + 1
        /\ \A i \in 1 .. Len(tape) : tape'[i] = tape[i]
        /\ tape'[Len(tape) + 1] = n + 1
    BY <1>6, <1>10, <2>1, AppendProperties, LenProperties
  <2>3. Len(tape) \in Nat /\ DOMAIN tape = 1 .. Len(tape)
    BY <1>5, LenProperties
  <2>4. ASSUME NEW i \in DOMAIN tape'
        PROVE  tensors'[tape'[i]].grad = Tensor!NoGrad
    <3>1. CASE i \in 1 .. Len(tape)
      BY <1>3, <1>8, <2>2, <2>3, <3>1
    <3>2. CASE i = Len(tape) + 1
      BY <1>3, <2>2, <3>2, LeafIs
    <3>. QED
      BY <2>2, <2>3, <3>1, <3>2
  <2>. QED
    BY <1>3, <1>4, <2>2, <2>4 DEF Taped, TapeWithin, Tensor!TapeIsFresh
<1>. QED
  BY <1>7, <1>9, <1>10

\* What is on an empty tape is fresh.
LEMMA EmptyTape ==
  ASSUME Shaped', tape' = <<>>
  PROVE  Taped'
<1>1. tape' \in Seq(1 .. Len(tensors'))
  BY EmptySeq
<1>2. DOMAIN tape' = {}
  OBVIOUS
<1>. QED
  BY <1>1, <1>2 DEF Taped, TapeWithin, Tensor!TapeIsFresh

LEMMA BackwardTapes ==
  ASSUME Taped, NEW loss, Tensor!Backward(loss)
  PROVE  Taped'
<1>1. PICK g : tensors' = [i \in 1 .. Len(tensors) |-> [tensors[i] EXCEPT !.grad = g[i]]]
  BY DEF Tensor!Backward, Tensor!Ids
<1>2. \A i \in 1 .. Len(tensors) : DOMAIN [tensors[i] EXCEPT !.grad = g[i]] = Fields
  BY DEF Taped, Shaped
<1> DEFINE f == [i \in 1 .. Len(tensors) |-> [tensors[i] EXCEPT !.grad = g[i]]]
<1>3. tensors' = [i \in 1 .. Len(tensors) |-> f[i]]
  BY <1>1
<1>4. \A i \in 1 .. Len(tensors) : DOMAIN f[i] = Fields
  BY <1>2
<1> HIDE DEF f
<1>5. Shaped'
  BY <1>3, <1>4, SameTensors
<1>. QED
  BY <1>5, EmptyTape DEF Tensor!Backward

\* Gradients of the tensors on the tape stay away.
LEMMA KeepsGradients ==
  ASSUME Taped, tape' = tape, NEW f, tensors' = [i \in 1 .. Len(tensors) |-> f[i]],
         \A i \in 1 .. Len(tensors) :
           DOMAIN f[i] = Fields /\ f[i].grad \in {tensors[i].grad, Tensor!NoGrad}
  PROVE  Taped'
<1>1. Shaped' /\ Len(tensors') = Len(tensors)
  BY SameTensors
<1>2. tape \in Seq(1 .. Len(tensors))
  BY DEF Taped, TapeWithin
<1>3. ASSUME NEW i \in DOMAIN tape
      PROVE  tensors'[tape[i]].grad = Tensor!NoGrad
  <2>1. tape[i] \in 1 .. Len(tensors) /\ tensors[tape[i]].grad = Tensor!NoGrad
    BY <1>2, ElementOfSeq, LenProperties DEF Taped, Tensor!TapeIsFresh
  <2>. QED
    BY <2>1
<1>. QED
  BY <1>1, <1>2, <1>3 DEF Taped, TapeWithin, Tensor!TapeIsFresh

LEMMA ZeroGradTapes ==
  ASSUME Taped, NEW S, Tensor!ZeroGrad(S)
  PROVE  Taped'
<1> DEFINE f == [i \in 1 .. Len(tensors) |->
                   IF i \in S THEN [tensors[i] EXCEPT !.grad = Tensor!NoGrad] ELSE tensors[i]]
<1>1. tensors' = [i \in 1 .. Len(tensors) |-> f[i]] /\ tape' = tape
  BY DEF Tensor!ZeroGrad, Tensor!Ids
<1>2. \A i \in 1 .. Len(tensors) :
        DOMAIN f[i] = Fields /\ f[i].grad \in {tensors[i].grad, Tensor!NoGrad}
  BY DEF Taped, Shaped, Fields
<1> HIDE DEF f
<1>. QED
  BY <1>1, <1>2, KeepsGradients

LEMMA StepAdamTapes ==
  ASSUME Taped, NEW S, Tensor!StepAdam(S)
  PROVE  Taped'
<1> DEFINE d(i) == [k \in DOMAIN tensors[i].data |-> tensors[i].data[k] - tensors[i].grad[k]]
           f == [i \in 1 .. Len(tensors) |->
                   IF i \in S /\ tensors[i].grad # Tensor!NoGrad
                   THEN [tensors[i] EXCEPT !.data = d(i)] ELSE tensors[i]]
<1>1. tensors' = [i \in 1 .. Len(tensors) |-> f[i]] /\ tape' = tape
  BY DEF Tensor!StepAdam, Tensor!Ids
<1> HIDE DEF d
<1>2. \A i \in 1 .. Len(tensors) :
        DOMAIN f[i] = Fields /\ f[i].grad \in {tensors[i].grad, Tensor!NoGrad}
  BY DEF Taped, Shaped, Fields
<1> HIDE DEF f
<1>. QED
  BY <1>1, <1>2, KeepsGradients

LEMMA TapedInit == Tensor!Init => Taped
<1>1. SUFFICES ASSUME Tensor!Init PROVE Taped
  OBVIOUS
<1>2. Len(Leaves) \in Nat
  BY TapeAssumption, LenProperties DEF Tensor!Script
<1>3. tensors = [i \in 1 .. Len(Leaves) |-> Tensor!Leaf(Leaves[i])] /\ tape = <<>>
  BY <1>1 DEF Tensor!Init
<1>4. Len(tensors) = Len(Leaves) /\ tensors = [i \in 1 .. Len(tensors) |-> tensors[i]]
  <2>1. tensors = [i \in 1 .. Len(Leaves) |-> tensors[i]]
    BY <1>3
  <2>. QED
    BY <1>2, <2>1, SequenceOf
<1>5. Shaped
  <2>1. \A i \in 1 .. Len(tensors) : tensors[i] = Tensor!Leaf(Leaves[i])
    BY <1>3, <1>4
  <2>. QED
    BY <1>2, <1>4, <2>1, LeafIs DEF Shaped
<1>6. tape \in Seq(1 .. Len(tensors)) /\ DOMAIN tape = {}
  BY <1>3, EmptySeq
<1>. QED
  BY <1>5, <1>6 DEF Taped, TapeWithin, Tensor!TapeIsFresh

LEMMA TapedNext == Taped /\ [Tensor!Next]_(Tensor!vars) => Taped'
<1> SUFFICES ASSUME Taped, [Tensor!Next]_(Tensor!vars) PROVE Taped'
  OBVIOUS
<1>1. CASE \E kind, in, arg : Tensor!Operate(kind, in, arg)
  BY <1>1, OperateTapes
<1>2. CASE \E on \in BOOLEAN : Tensor!SetGrad(on)
  BY <1>2, EmptyTape DEF Tensor!SetGrad, Taped, Shaped
<1>3. CASE Tensor!ZeroGrad(Tensor!Parameters)
  BY <1>3, ZeroGradTapes
<1>4. CASE \E loss : Tensor!Backward(loss)
  BY <1>4, BackwardTapes
<1>5. CASE Tensor!StepAdam(Tensor!Parameters)
  BY <1>5, StepAdamTapes
<1>6. CASE UNCHANGED Tensor!vars
  BY <1>6 DEF Tensor!vars, Taped, Shaped, TapeWithin, Tensor!TapeIsFresh
<1>. QED
  BY <1>1, <1>2, <1>3, <1>4, <1>5, <1>6 DEF Tensor!Next

\* An operation is run back once: while it is on the tape, no backward has
\* reached the tensor that it made.
THEOREM OperationsRunOnce == AllSpec => []TapeIsFresh
<1>1. AllInit => Taped
  BY TapedInit DEF AllInit
<1>2. Taped /\ [AllNext]_allVars => Taped'
  <2>1. [AllNext]_allVars => [Tensor!Next]_(Tensor!vars)
    BY DEF AllNext, TasksMove, TensorsMove, allVars, tapeVars, Tensor!vars
  <2>. QED
    BY <2>1, TapedNext
<1>3. Taped => TapeIsFresh
  BY DEF Taped, TapeIsFresh
<1>. QED
  BY <1>1, <1>2, <1>3, PTL DEF AllSpec

-----------------------------------------------------------------------------
(* Division.                                                               *)

LEMMA DivModOf ==
  ASSUME NEW n \in Nat \ {0}, NEW i \in Nat
  PROVE  /\ i \div n \in Nat /\ i % n \in 0 .. n - 1
         /\ i = (i \div n) * n + (i % n)
  OBVIOUS

LEMMA DivModIs ==
  ASSUME NEW n \in Nat \ {0}, NEW r \in Nat, NEW c \in 0 .. n - 1
  PROVE  (r * n + c) \div n = r /\ (r * n + c) % n = c
<1> DEFINE i == r * n + c
           q == i \div n
           d == i % n
<1>1. i \in Nat /\ n * r \in Nat
  OBVIOUS
<1>2. q \in Nat /\ d \in 0 .. n - 1 /\ i = q * n + d
  BY <1>1
<1>3. r * n + c = q * n + d
  BY <1>2
<1> HIDE DEF q, d
<1>4. q = r
  <2>1. CASE q < r
    <3>1. q * n + n <= r * n
      <4>1. (q + 1) * n <= r * n
        BY <1>2, <2>1
      <4>. QED
        BY <1>2, <4>1
    <3>. QED
      BY <1>2, <1>3, <3>1
  <2>2. CASE q > r
    <3>1. r * n + n <= q * n
      <4>1. (r + 1) * n <= q * n
        BY <1>2, <2>2
      <4>. QED
        BY <1>2, <4>1
    <3>. QED
      BY <1>2, <1>3, <3>1
  <2>. QED
    BY <1>2, <2>1, <2>2
<1>5. d = c
  BY <1>2, <1>3, <1>4
<1>. QED
  BY <1>4, <1>5 DEF q, d

LEMMA InBlock ==
  ASSUME NEW m \in Nat, NEW n \in Nat, NEW r \in 0 .. m - 1, NEW c \in 0 .. n - 1
  PROVE  r * n + c \in 0 .. m * n - 1
<1>1. (r + 1) * n <= m * n
  OBVIOUS
<1>2. r * n + n <= m * n
  BY <1>1
<1>. QED
  BY <1>2

LEMMA BlockOf ==
  ASSUME NEW m \in Nat, NEW n \in Nat \ {0}, NEW i \in 0 .. m * n - 1
  PROVE  i \div n \in 0 .. m - 1 /\ i % n \in 0 .. n - 1
<1>1. i \in Nat /\ i \div n \in Nat /\ i % n \in 0 .. n - 1 /\ i = (i \div n) * n + (i % n)
  OBVIOUS
<1> DEFINE q == i \div n
<1> HIDE DEF q
<1>2. CASE q >= m
  <2>1. q * n >= m * n
    BY <1>1, <1>2 DEF q
  <2>. QED
    BY <1>1, <2>1 DEF q
<1>. QED
  BY <1>1, <1>2 DEF q

-----------------------------------------------------------------------------
(* Induction and recursive functions.                                      *)

\* A set of naturals with 0 and the successor of each member is all of them.
LEMMA InductiveSet ==
  ASSUME NEW S, S \subseteq Nat, 0 \in S, \A k \in S : k + 1 \in S
  PROVE  S = Nat
<1> DEFINE T == Nat \ S
<1>1. SUFFICES ASSUME T # {} PROVE FALSE
  OBVIOUS
<1>2. PICK k \in T : \A y \in T : ~ (<<y, k>> \in OpToRel(<, Nat))
  <2>1. T \subseteq Nat
    OBVIOUS
  <2> HIDE DEF T
  <2>. QED
    BY <1>1, <2>1, NatLessThanWellFounded, WFMin
<1>3. k \in Nat /\ k # 0
  OBVIOUS
<1>4. k - 1 \in Nat /\ k - 1 < k /\ (k - 1) + 1 = k
  BY <1>3
<1>5. k - 1 \in T
  BY <1>3, <1>4
<1>. QED
  BY <1>2, <1>3, <1>4, <1>5 DEF OpToRel

\* A recursive function on 0 .. n over the values V.
Folds(f, n, init, step) ==
  f = [j \in 0 .. n |-> IF j = 0 THEN init ELSE step[j][f[j - 1]]]

LEMMA FoldsAt ==
  ASSUME NEW n, NEW init, NEW step, NEW f, Folds(f, n, init, step), NEW j \in 0 .. n
  PROVE  f[j] = IF j = 0 THEN init ELSE step[j][f[j - 1]]
  BY DEF Folds

LEMMA FoldsGrow ==
  ASSUME NEW n \in Nat, NEW V, NEW init \in V, NEW step,
         \A j \in 1 .. n + 1 : \A v \in V : step[j][v] \in V,
         NEW f \in [0 .. n -> V], Folds(f, n, init, step)
  PROVE  \E g \in [0 .. n + 1 -> V] : Folds(g, n + 1, init, step)
<1> DEFINE m == n + 1
           x == step[m][f[n]]
           g == [j \in 0 .. m |-> IF j <= n THEN f[j] ELSE x]
           e(j) == IF j = 0 THEN init ELSE step[j][g[j - 1]]
<1>1. f[n] \in V /\ x \in V
  OBVIOUS
<1> HIDE DEF x
<1>2. g \in [0 .. m -> V] /\ g = [j \in 0 .. m |-> g[j]] /\ g[m] = x
  BY <1>1
<1>3. \A j \in 0 .. n : g[j] = f[j]
  OBVIOUS
<1> HIDE DEF g
<1>4. ASSUME NEW j \in 0 .. m PROVE g[j] = e(j)
  <2>1. CASE j = 0
    <3>1. j \in 0 .. n
      BY <2>1
    <3>2. f[j] = init
      BY <2>1, <3>1, FoldsAt
    <3>. QED
      BY <1>3, <2>1, <3>1, <3>2
  <2>2. CASE j # 0 /\ j <= n
    <3>1. j \in 0 .. n /\ j - 1 \in 0 .. n
      BY <2>2
    <3>2. f[j] = step[j][f[j - 1]]
      BY <2>2, <3>1, FoldsAt
    <3>. QED
      BY <1>3, <2>2, <3>1, <3>2
  <2>3. CASE j = m
    <3>1. g[j - 1] = f[n] /\ j # 0
      BY <1>3, <2>3
    <3>. QED
      BY <1>2, <2>3, <3>1 DEF x
  <2>. QED
    BY <2>1, <2>2, <2>3
<1> HIDE DEF e
<1>5. g = [j \in 0 .. m |-> e(j)]
  BY <1>2, <1>4
<1>. QED
  BY <1>2, <1>5 DEF e, Folds

LEMMA FoldsExist ==
  ASSUME NEW n \in Nat, NEW V, NEW init \in V, NEW step,
         \A j \in 1 .. n : \A v \in V : step[j][v] \in V
  PROVE  \E f \in [0 .. n -> V] : Folds(f, n, init, step)
<1> DEFINE S == {k \in Nat : k <= n => \E f \in [0 .. k -> V] : Folds(f, k, init, step)}
<1>1. 0 \in S
  <2> DEFINE f == [j \in 0 .. 0 |-> init]
  <2>1. f \in [0 .. 0 -> V] /\ Folds(f, 0, init, step)
    BY DEF Folds
  <2>. QED
    BY <2>1
<1>2. ASSUME NEW k \in S PROVE k + 1 \in S
  <2>1. k \in Nat /\ k + 1 \in Nat
    OBVIOUS
  <2>2. ASSUME k + 1 <= n PROVE \E f \in [0 .. k + 1 -> V] : Folds(f, k + 1, init, step)
    <3>1. PICK f \in [0 .. k -> V] : Folds(f, k, init, step)
      BY <2>1, <2>2
    <3>2. \A j \in 1 .. k + 1 : \A v \in V : step[j][v] \in V
      BY <2>1, <2>2
    <3>. QED
      BY <2>1, <3>1, <3>2, FoldsGrow
  <2>. QED
    BY <2>1, <2>2
<1>3. S = Nat
  <2>1. S \subseteq Nat
    OBVIOUS
  <2> HIDE DEF S
  <2>. QED
    BY <1>1, <1>2, <2>1, InductiveSet
<1>4. n \in S
  BY <1>3
<1>. QED
  BY <1>4

\* Two that agree on what they start from and do agree as far as both go.
LEMMA FoldsAgree ==
  ASSUME NEW n \in Nat, NEW m \in 0 .. n, NEW init, NEW step, NEW f, NEW g,
         Folds(f, n, init, step), Folds(g, m, init, step)
  PROVE  \A j \in 0 .. m : f[j] = g[j]
<1> DEFINE S == {k \in Nat : k <= m => f[k] = g[k]}
<1>1. 0 \in S
  <2>1. f[0] = init /\ g[0] = init
    <3>1. 0 \in 0 .. n /\ 0 \in 0 .. m
      OBVIOUS
    <3>. QED
      BY <3>1, FoldsAt
  <2>. QED
    BY <2>1
<1>2. ASSUME NEW k \in S PROVE k + 1 \in S
  <2>1. k \in Nat /\ k + 1 \in Nat /\ (k + 1) - 1 = k /\ k + 1 # 0
    OBVIOUS
  <2>2. ASSUME k + 1 <= m PROVE f[k + 1] = g[k + 1]
    <3>1. k + 1 \in 0 .. n /\ k + 1 \in 0 .. m
      BY <2>1, <2>2
    <3>2. f[k + 1] = step[k + 1][f[k]]
      BY <2>1, <3>1, FoldsAt
    <3>3. g[k + 1] = step[k + 1][g[k]]
      BY <2>1, <3>1, FoldsAt
    <3>4. f[k] = g[k]
      BY <2>1, <2>2
    <3>. QED
      BY <3>2, <3>3, <3>4
  <2>. QED
    BY <2>1, <2>2
<1>3. S = Nat
  <2>1. S \subseteq Nat
    OBVIOUS
  <2> HIDE DEF S
  <2>. QED
    BY <1>1, <1>2, <2>1, InductiveSet
<1>. QED
  BY <1>3

-----------------------------------------------------------------------------
(* Sums.                                                                   *)

Ints(s, n) == \A i \in 1 .. n : s[i] \in Int

Totals(t, s, n) == t = [i \in 0 .. n |-> IF i = 0 THEN 0 ELSE t[i - 1] + s[i]]

LEMMA TotalDef ==
  ASSUME NEW s, NEW n
  PROVE  Tensor!Total(s, n) = (CHOOSE t : Totals(t, s, n))[n]
  BY DEF Tensor!Total, Totals

LEMMA TotalsFold ==
  ASSUME NEW s, NEW n \in Nat, Ints(s, n)
  PROVE  \E step : /\ \A j \in 1 .. n : \A v \in Int : step[j][v] = v + s[j]
                   /\ \A m \in 0 .. n : \A t \in [0 .. m -> Int] :
                        Folds(t, m, 0, step) <=> Totals(t, s, m)
<1> DEFINE step == [j \in 1 .. n |-> [v \in Int |-> v + s[j]]]
<1>1. \A j \in 1 .. n : \A v \in Int : step[j][v] = v + s[j]
  OBVIOUS
<1> HIDE DEF step
<1>2. ASSUME NEW m \in 0 .. n, NEW t \in [0 .. m -> Int]
      PROVE  Folds(t, m, 0, step) <=> Totals(t, s, m)
  <2> DEFINE e(j) == IF j = 0 THEN 0 ELSE step[j][t[j - 1]]
             d(j) == IF j = 0 THEN 0 ELSE t[j - 1] + s[j]
  <2>1. ASSUME NEW j \in 0 .. m PROVE e(j) = d(j)
    <3>1. CASE j # 0
      <4>1. j \in 1 .. n /\ t[j - 1] \in Int
        BY <3>1
      <4>. QED
        BY <1>1, <4>1
    <3>. QED
      BY <3>1
  <2> HIDE DEF e, d
  <2>2. [j \in 0 .. m |-> e(j)] = [j \in 0 .. m |-> d(j)]
    BY <2>1
  <2>. QED
    BY <2>2 DEF e, d, Folds, Totals
<1>. QED
  BY <1>1, <1>2

LEMMA TotalsExist ==
  ASSUME NEW s, NEW n \in Nat, Ints(s, n)
  PROVE  \E t \in [0 .. n -> Int] : Totals(t, s, n)
<1>1. PICK step : /\ \A j \in 1 .. n : \A v \in Int : step[j][v] = v + s[j]
                  /\ \A m \in 0 .. n : \A t \in [0 .. m -> Int] :
                       Folds(t, m, 0, step) <=> Totals(t, s, m)
  BY TotalsFold
<1>2. \A j \in 1 .. n : \A v \in Int : step[j][v] \in Int
  BY <1>1 DEF Ints
<1>3. PICK t \in [0 .. n -> Int] : Folds(t, n, 0, step)
  <2>1. 0 \in Int
    OBVIOUS
  <2>2. \E t \in [0 .. n -> Int] : Folds(t, n, 0, step)
    BY <1>2, <2>1, FoldsExist
  <2>. QED
    BY <2>2
<1>. QED
  BY <1>1, <1>3

\* All the prefix sums are determined.
LEMMA TotalsInt ==
  ASSUME NEW s, NEW n \in Nat, Ints(s, n), NEW t, Totals(t, s, n)
  PROVE  t \in [0 .. n -> Int]
<1> DEFINE S == {k \in Nat : k <= n => t[k] \in Int}
<1>0. \A i \in 0 .. n : t[i] = IF i = 0 THEN 0 ELSE t[i - 1] + s[i]
  BY DEF Totals
<1>1. 0 \in S
  BY <1>0
<1>2. ASSUME NEW k \in S PROVE k + 1 \in S
  <2>1. ASSUME k + 1 <= n PROVE t[k + 1] \in Int
    <3>1. k + 1 \in 1 .. n /\ k + 1 # 0 /\ (k + 1) - 1 = k /\ k + 1 \in 0 .. n
      BY <2>1
    <3>2. t[k + 1] = t[k] + s[k + 1]
      BY <1>0, <3>1
    <3>3. t[k] \in Int /\ s[k + 1] \in Int
      BY <2>1, <3>1 DEF Ints
    <3>. QED
      BY <3>2, <3>3
  <2>. QED
    BY <2>1
<1>3. S = Nat
  <2>1. S \subseteq Nat
    OBVIOUS
  <2> HIDE DEF S
  <2>. QED
    BY <1>1, <1>2, <2>1, InductiveSet
<1>4. \A k \in 0 .. n : t[k] \in Int
  BY <1>3
<1>5. t = [i \in 0 .. n |-> t[i]]
  BY DEF Totals
<1>. QED
  BY <1>4, <1>5

LEMMA TotalIs ==
  ASSUME NEW s, NEW n \in Nat, Ints(s, n), NEW t, Totals(t, s, n)
  PROVE  \A m \in 0 .. n : Tensor!Total(s, m) = t[m]
<1> SUFFICES ASSUME NEW m \in 0 .. n PROVE Tensor!Total(s, m) = t[m]
  OBVIOUS
<1> DEFINE u == CHOOSE u : Totals(u, s, m)
<1>1. PICK step : \A k \in 0 .. n : \A r \in [0 .. k -> Int] :
                    Folds(r, k, 0, step) <=> Totals(r, s, k)
  BY TotalsFold
<1>2. Ints(s, m)
  BY DEF Ints
<1>3. Totals(u, s, m)
  BY <1>2, TotalsExist
<1>4. Tensor!Total(s, m) = u[m]
  BY TotalDef
<1> HIDE DEF u
<1>5. u \in [0 .. m -> Int] /\ t \in [0 .. n -> Int]
  BY <1>2, <1>3, TotalsInt
<1>6. Folds(u, m, 0, step) /\ Folds(t, n, 0, step)
  BY <1>1, <1>3, <1>5
<1>7. t[m] = u[m]
  BY <1>6, FoldsAgree
<1>. QED
  BY <1>4, <1>7

LEMMA TotalStep ==
  ASSUME NEW s, NEW n \in Nat, Ints(s, n)
  PROVE  /\ Tensor!Total(s, n) \in Int
         /\ Tensor!Total(s, 0) = 0
         /\ \A m \in 1 .. n : /\ Tensor!Total(s, m - 1) \in Int
                              /\ Tensor!Total(s, m) = Tensor!Total(s, m - 1) + s[m]
<1>1. PICK t : Totals(t, s, n)
  BY TotalsExist
<1>2. t \in [0 .. n -> Int]
  BY <1>1, TotalsInt
<1>3. \A m \in 0 .. n : Tensor!Total(s, m) = t[m]
  BY <1>1, TotalIs
<1>4. \A i \in 0 .. n : t[i] = IF i = 0 THEN 0 ELSE t[i - 1] + s[i]
  BY <1>1 DEF Totals
<1>5. ASSUME NEW m \in 1 .. n
      PROVE /\ Tensor!Total(s, m - 1) \in Int
            /\ Tensor!Total(s, m) = Tensor!Total(s, m - 1) + s[m]
  <2>1. m \in 0 .. n /\ m - 1 \in 0 .. n /\ m # 0
    OBVIOUS
  <2>. QED
    BY <1>2, <1>3, <1>4, <2>1
<1>6. n \in 0 .. n /\ 0 \in 0 .. n
  OBVIOUS
<1>. QED
  BY <1>2, <1>3, <1>4, <1>5, <1>6

LEMMA TotalInt ==
  ASSUME NEW s, NEW n \in Nat, Ints(s, n)
  PROVE  Tensor!Total(s, n) \in Int
BY TotalStep

LEMMA TotalSame ==
  ASSUME NEW s, NEW u, NEW n \in Nat, Ints(s, n), \A i \in 1 .. n : u[i] = s[i]
  PROVE  Tensor!Total(u, n) = Tensor!Total(s, n)
<1> DEFINE S == {k \in Nat : k <= n => Tensor!Total(u, k) = Tensor!Total(s, k)}
<1>1. Ints(u, n)
  BY DEF Ints
<1>2. 0 \in S
  BY <1>1, TotalStep
<1>3. ASSUME NEW k \in S PROVE k + 1 \in S
  <2>1. k \in Nat /\ (k + 1) - 1 = k
    OBVIOUS
  <2>2. ASSUME k + 1 <= n PROVE Tensor!Total(u, k + 1) = Tensor!Total(s, k + 1)
    <3>1. k + 1 \in 1 .. n
      BY <2>1, <2>2
    <3>2. Tensor!Total(u, k + 1) = Tensor!Total(u, k) + u[k + 1]
      BY <1>1, <2>1, <3>1, TotalStep
    <3>3. Tensor!Total(s, k + 1) = Tensor!Total(s, k) + s[k + 1]
      BY <2>1, <3>1, TotalStep
    <3>. QED
      BY <2>1, <2>2, <3>1, <3>2, <3>3
  <2>. QED
    BY <2>1, <2>2
<1>4. S = Nat
  <2>1. S \subseteq Nat
    OBVIOUS
  <2> HIDE DEF S
  <2>. QED
    BY <1>2, <1>3, <2>1, InductiveSet
<1>. QED
  BY <1>4

LEMMA TotalPlus ==
  ASSUME NEW s, NEW u, NEW w, NEW n \in Nat, Ints(s, n), Ints(u, n),
         \A i \in 1 .. n : w[i] = s[i] + u[i]
  PROVE  Tensor!Total(w, n) = Tensor!Total(s, n) + Tensor!Total(u, n)
<1> DEFINE S == {k \in Nat : k <= n => Tensor!Total(w, k) = Tensor!Total(s, k) + Tensor!Total(u, k)}
<1>1. Ints(w, n)
  BY DEF Ints
<1>2. 0 \in S
  <2>1. Tensor!Total(w, 0) = 0
    BY <1>1, TotalStep
  <2>2. Tensor!Total(s, 0) = 0 /\ Tensor!Total(u, 0) = 0
    BY TotalStep
  <2>. QED
    BY <2>1, <2>2
<1>3. ASSUME NEW k \in S PROVE k + 1 \in S
  <2>1. k \in Nat /\ (k + 1) - 1 = k
    OBVIOUS
  <2>2. ASSUME k + 1 <= n
        PROVE Tensor!Total(w, k + 1) = Tensor!Total(s, k + 1) + Tensor!Total(u, k + 1)
    <3>1. k + 1 \in 1 .. n
      BY <2>1, <2>2
    <3>2. Tensor!Total(u, k + 1) = Tensor!Total(u, k) + u[k + 1] /\ Tensor!Total(u, k) \in Int
      BY <2>1, <3>1, TotalStep
    <3>3. Tensor!Total(s, k + 1) = Tensor!Total(s, k) + s[k + 1] /\ Tensor!Total(s, k) \in Int
      BY <2>1, <3>1, TotalStep
    <3>4. Tensor!Total(w, k + 1) = Tensor!Total(w, k) + w[k + 1]
      BY <1>1, <2>1, <3>1, TotalStep
    <3>5. Tensor!Total(w, k) = Tensor!Total(s, k) + Tensor!Total(u, k)
      BY <2>1, <2>2
    <3>6. s[k + 1] \in Int /\ u[k + 1] \in Int /\ w[k + 1] = s[k + 1] + u[k + 1]
      BY <3>1 DEF Ints
    <3> HIDE DEF S
    <3>. QED
      BY <3>2, <3>3, <3>4, <3>5, <3>6
  <2>. QED
    BY <2>1, <2>2
<1>4. S = Nat
  <2>1. S \subseteq Nat
    OBVIOUS
  <2> HIDE DEF S
  <2>. QED
    BY <1>2, <1>3, <2>1, InductiveSet
<1>. QED
  BY <1>4

LEMMA TotalScaled ==
  ASSUME NEW s, NEW w, NEW c \in Int, NEW n \in Nat, Ints(s, n),
         \A i \in 1 .. n : w[i] = c * s[i]
  PROVE  Tensor!Total(w, n) = c * Tensor!Total(s, n)
<1> DEFINE S == {k \in Nat : k <= n => Tensor!Total(w, k) = c * Tensor!Total(s, k)}
<1>1. Ints(w, n)
  BY DEF Ints
<1>2. 0 \in S
  <2>1. Tensor!Total(w, 0) = 0
    BY <1>1, TotalStep
  <2>2. Tensor!Total(s, 0) = 0
    BY TotalStep
  <2>. QED
    BY <2>1, <2>2
<1>3. ASSUME NEW k \in S PROVE k + 1 \in S
  <2>1. k \in Nat /\ (k + 1) - 1 = k
    OBVIOUS
  <2>2. ASSUME k + 1 <= n
        PROVE Tensor!Total(w, k + 1) = c * Tensor!Total(s, k + 1)
    <3>1. k + 1 \in 1 .. n
      BY <2>1, <2>2
    <3>3. Tensor!Total(s, k + 1) = Tensor!Total(s, k) + s[k + 1] /\ Tensor!Total(s, k) \in Int
      BY <2>1, <3>1, TotalStep
    <3>4. Tensor!Total(w, k + 1) = Tensor!Total(w, k) + w[k + 1]
      BY <1>1, <2>1, <3>1, TotalStep
    <3>5. Tensor!Total(w, k) = c * Tensor!Total(s, k)
      BY <2>1, <2>2
    <3>6. s[k + 1] \in Int /\ w[k + 1] = c * s[k + 1]
      BY <3>1 DEF Ints
    <3> HIDE DEF S
    <3>. QED
      BY <3>3, <3>4, <3>5, <3>6
  <2>. QED
    BY <2>1, <2>2
<1>4. S = Nat
  <2>1. S \subseteq Nat
    OBVIOUS
  <2> HIDE DEF S
  <2>. QED
    BY <1>2, <1>3, <2>1, InductiveSet
<1>. QED
  BY <1>4

LEMMA TotalZero ==
  ASSUME NEW s, NEW n \in Nat, \A i \in 1 .. n : s[i] = 0
  PROVE  Tensor!Total(s, n) = 0
<1>1. Ints(s, n) /\ \A i \in 1 .. n : s[i] = 0 * s[i]
  BY DEF Ints
<1>2. 0 \in Int
  OBVIOUS
<1>3. Tensor!Total(s, n) = 0 * Tensor!Total(s, n)
  BY <1>1, <1>2, TotalScaled
<1>4. Tensor!Total(s, n) \in Int
  BY <1>1, TotalInt
<1>. QED
  BY <1>3, <1>4

LEMMA TotalSingle ==
  ASSUME NEW s, NEW n \in Nat, NEW x \in 1 .. n, Ints(s, n), \A i \in 1 .. n : i # x => s[i] = 0
  PROVE  Tensor!Total(s, n) = s[x]
<1> DEFINE S == {k \in Nat : k <= n => Tensor!Total(s, k) = IF x <= k THEN s[x] ELSE 0}
<1>2. 0 \in S
  <2>2. Tensor!Total(s, 0) = 0
    BY TotalStep
  <2>. QED
    BY <2>2
<1>3. ASSUME NEW k \in S PROVE k + 1 \in S
  <2>1. k \in Nat /\ (k + 1) - 1 = k
    OBVIOUS
  <2>2. ASSUME k + 1 <= n
        PROVE Tensor!Total(s, k + 1) = IF x <= k + 1 THEN s[x] ELSE 0
    <3>1. k + 1 \in 1 .. n
      BY <2>1, <2>2
    <3>3. Tensor!Total(s, k + 1) = Tensor!Total(s, k) + s[k + 1]
      BY <2>1, <3>1, TotalStep
    <3>5. Tensor!Total(s, k) = IF x <= k THEN s[x] ELSE 0
      BY <2>1, <2>2
    <3>6. s[k + 1] \in Int /\ (k + 1 # x => s[k + 1] = 0) /\ s[x] \in Int
      BY <3>1 DEF Ints
    <3> HIDE DEF S
    <3>. QED
      BY <2>1, <3>3, <3>5, <3>6
  <2>. QED
    BY <2>1, <2>2
<1>4. S = Nat
  <2>1. S \subseteq Nat
    OBVIOUS
  <2> HIDE DEF S
  <2>. QED
    BY <1>2, <1>3, <2>1, InductiveSet
<1>. QED
  BY <1>4

\* One term changes.
LEMMA TotalExcept ==
  ASSUME NEW s, NEW w, NEW n \in Nat, NEW x \in 1 .. n, Ints(s, n), w[x] \in Int,
         \A i \in 1 .. n : i # x => w[i] = s[i]
  PROVE  Tensor!Total(w, n) = Tensor!Total(s, n) + (w[x] - s[x])
<1> DEFINE u == [i \in 1 .. n |-> IF i = x THEN w[x] - s[x] ELSE 0]
<1>1. Ints(u, n) /\ u[x] = w[x] - s[x] /\ (\A i \in 1 .. n : i # x => u[i] = 0)
  BY DEF Ints
<1>2. \A i \in 1 .. n : w[i] = s[i] + u[i]
  BY DEF Ints
<1> HIDE DEF u
<1>3. Tensor!Total(u, n) = u[x]
  BY <1>1, TotalSingle
<1>4. Tensor!Total(w, n) = Tensor!Total(s, n) + Tensor!Total(u, n)
  BY <1>1, <1>2, TotalPlus
<1>. QED
  BY <1>1, <1>3, <1>4

\* r sums the n rows of f, and c its m columns, which are the rows of g.
RowsAndColumns(f, g, r, c, n, m) ==
  /\ \A i \in 1 .. n : Ints(f[i], m) /\ r[i] = Tensor!Total(f[i], m)
  /\ \A j \in 1 .. m : /\ \A i \in 1 .. n : g[j][i] = f[i][j]
                       /\ c[j] = Tensor!Total(g[j], n)

\* The sum of the rows is the sum of the columns.
LEMMA TotalSwap ==
  ASSUME NEW n \in Nat, NEW m \in Nat, NEW f, NEW g, NEW r, NEW c,
         RowsAndColumns(f, g, r, c, n, m)
  PROVE  Tensor!Total(r, n) = Tensor!Total(c, m)
<1>0. /\ \A i \in 1 .. n : Ints(f[i], m) /\ r[i] = Tensor!Total(f[i], m)
      /\ \A j \in 1 .. m : /\ \A i \in 1 .. n : g[j][i] = f[i][j]
                           /\ c[j] = Tensor!Total(g[j], n)
  BY DEF RowsAndColumns
<1> DEFINE C == [k \in 0 .. n |-> [j \in 1 .. m |-> Tensor!Total(g[j], k)]]
           S == {k \in Nat : k <= n => Tensor!Total(r, k) = Tensor!Total(C[k], m)}
<1>1. \A j \in 1 .. m : Ints(g[j], n)
  BY <1>0 DEF Ints
<1>2. Ints(r, n)
  BY <1>0, TotalInt DEF Ints
<1>3. \A k \in 0 .. n : \A j \in 1 .. m : C[k][j] = Tensor!Total(g[j], k)
  OBVIOUS
<1> HIDE DEF C
<1>4. \A k \in 0 .. n : Ints(C[k], m)
  <2>1. ASSUME NEW k \in 0 .. n, NEW j \in 1 .. m PROVE C[k][j] \in Int
    <3>1. Ints(g[j], k)
      BY <1>1 DEF Ints
    <3>. QED
      BY <1>3, <3>1, TotalInt
  <2>. QED
    BY <2>1 DEF Ints
<1>5. 0 \in S
  <2>1. \A j \in 1 .. m : C[0][j] = 0
    <3>1. 0 \in 0 .. n
      OBVIOUS
    <3>2. \A j \in 1 .. m : Tensor!Total(g[j], 0) = 0
      BY <1>1, TotalStep
    <3>. QED
      BY <1>3, <3>1, <3>2
  <2>2. Tensor!Total(C[0], m) = 0
    BY <2>1, TotalZero
  <2>3. Tensor!Total(r, 0) = 0
    BY <1>2, TotalStep
  <2>. QED
    BY <2>2, <2>3
<1>6. ASSUME NEW k \in S PROVE k + 1 \in S
  <2>1. k \in Nat /\ (k + 1) - 1 = k
    OBVIOUS
  <2>2. ASSUME k + 1 <= n PROVE Tensor!Total(r, k + 1) = Tensor!Total(C[k + 1], m)
    <3>1. k + 1 \in 1 .. n /\ k \in 0 .. n /\ k + 1 \in 0 .. n
      BY <2>1, <2>2
    <3> DEFINE h == k + 1
    <3>2. Tensor!Total(r, h) = Tensor!Total(r, k) + r[h]
      BY <1>2, <2>1, <3>1, TotalStep
    <3>3. Tensor!Total(r, k) = Tensor!Total(C[k], m)
      BY <2>1, <2>2
    <3>4. r[h] = Tensor!Total(f[h], m) /\ Ints(f[h], m)
      BY <1>0, <3>1
    <3>5. ASSUME NEW j \in 1 .. m PROVE C[h][j] = C[k][j] + f[h][j]
      <4>1. Tensor!Total(g[j], h) = Tensor!Total(g[j], k) + g[j][h]
        BY <1>1, <2>1, <3>1, TotalStep
      <4>. QED
        BY <1>0, <1>3, <3>1, <4>1
    <3>6. Ints(C[k], m)
      BY <1>4, <3>1
    <3> HIDE DEF h
    <3>7. Tensor!Total(C[h], m) = Tensor!Total(C[k], m) + Tensor!Total(f[h], m)
      BY <3>4, <3>5, <3>6, TotalPlus
    <3>. QED
      BY <3>2, <3>3, <3>4, <3>7 DEF h
  <2>. QED
    BY <2>1, <2>2
<1>7. S = Nat
  <2>1. S \subseteq Nat
    OBVIOUS
  <2> HIDE DEF S
  <2>. QED
    BY <1>5, <1>6, <2>1, InductiveSet
<1>8. Tensor!Total(r, n) = Tensor!Total(C[n], m)
  BY <1>7
<1>9. Tensor!Total(c, m) = Tensor!Total(C[n], m)
  <2>1. n \in 0 .. n
    OBVIOUS
  <2>2. \A j \in 1 .. m : c[j] = C[n][j]
    BY <1>0, <1>3, <2>1
  <2>3. Ints(C[n], m)
    BY <1>4, <2>1
  <2>. QED
    BY <2>2, <2>3, TotalSame
<1>. QED
  BY <1>8, <1>9

\* r sums the m blocks of n elements of f.
Blocks(f, b, r, m, n) ==
  /\ Ints(f, m * n)
  /\ \A i \in 1 .. m : /\ \A j \in 1 .. n : b[i][j] = f[(i - 1) * n + j]
                       /\ r[i] = Tensor!Total(b[i], n)

LEMMA TotalBlocks ==
  ASSUME NEW m \in Nat, NEW n \in Nat, NEW f, NEW b, NEW r, Blocks(f, b, r, m, n)
  PROVE  Tensor!Total(f, m * n) = Tensor!Total(r, m)
<1> DEFINE S == {k \in Nat : k <= m => Tensor!Total(f, k * n) = Tensor!Total(r, k)}
           mn == m * n
<1>0. mn \in Nat
  OBVIOUS
<1>b. /\ Ints(f, m * n)
      /\ \A i \in 1 .. m : /\ \A j \in 1 .. n : b[i][j] = f[(i - 1) * n + j]
                           /\ r[i] = Tensor!Total(b[i], n)
  BY DEF Blocks
<1>1. ASSUME NEW i \in 1 .. m, NEW j \in 1 .. n
      PROVE  (i - 1) * n + j \in 1 .. mn
  <2>1. i - 1 \in 0 .. m - 1 /\ j - 1 \in 0 .. n - 1
    OBVIOUS
  <2>2. (i - 1) * n + (j - 1) \in 0 .. mn - 1
    BY <2>1, InBlock
  <2>3. (i - 1) * n \in Nat
    BY <2>1
  <2> HIDE DEF mn
  <2>. QED
    BY <1>0, <2>2, <2>3
<1>2. Ints(f, mn)
  BY <1>b
<1>a. Tensor!Total(f, m * n) = Tensor!Total(f, mn)
  OBVIOUS
<1> HIDE DEF mn
<1>3. \A i \in 1 .. m : Ints(b[i], n)
  BY <1>1, <1>2, <1>b DEF Ints
<1>4. Ints(r, m)
  BY <1>3, <1>b, TotalInt DEF Ints
<1>5. 0 \in S
  <2>1. 0 * n = 0
    OBVIOUS
  <2>2. Tensor!Total(f, 0) = 0
    BY <1>0, <1>2, TotalStep
  <2>3. Tensor!Total(r, 0) = 0
    BY <1>4, TotalStep
  <2>. QED
    BY <2>1, <2>2, <2>3
<1>6. ASSUME NEW k \in S PROVE k + 1 \in S
  <2>1. k \in Nat /\ (k + 1) - 1 = k
    OBVIOUS
  <2>2. ASSUME k + 1 <= m PROVE Tensor!Total(f, (k + 1) * n) = Tensor!Total(r, k + 1)
    <3> DEFINE h == k + 1
               at == k * n
               P == {j \in Nat : j <= n => Tensor!Total(f, at + j) = Tensor!Total(f, at) + Tensor!Total(b[h], j)}
    <3>1. h \in 1 .. m /\ h - 1 = k /\ at \in Nat /\ h * n = at + n
      BY <2>1, <2>2
    <3>2. Tensor!Total(f, at) = Tensor!Total(r, k)
      BY <2>1, <2>2
    <3>3. Tensor!Total(r, h) = Tensor!Total(r, k) + r[h]
      BY <1>4, <2>1, <3>1, TotalStep
    <3>4. r[h] = Tensor!Total(b[h], n) /\ Ints(b[h], n)
      BY <1>3, <1>b, <3>1
    <3>5. \A j \in 1 .. n : b[h][j] = f[at + j] /\ at + j \in 1 .. mn
      BY <1>1, <1>b, <3>1
    <3>t. at \in 0 .. mn
      <4>1. k * n <= m * n
        BY <2>1, <2>2
      <4>. QED
        BY <3>1, <4>1 DEF mn
    <3> HIDE DEF at, h, S
    <3>6. Tensor!Total(f, at) \in Int
      <4>1. Ints(f, at)
        BY <1>0, <1>2, <3>t DEF Ints
      <4>. QED
        BY <3>1, <4>1, TotalInt
    <3>7. 0 \in P
      <4>1. Tensor!Total(b[h], 0) = 0
        BY <3>4, TotalStep
      <4>2. at + 0 = at
        BY <3>1
      <4>. QED
        BY <3>6, <4>1, <4>2
    <3>8. ASSUME NEW j \in P PROVE j + 1 \in P
      <4>1. j \in Nat /\ (j + 1) - 1 = j
        OBVIOUS
      <4>2. ASSUME j + 1 <= n
            PROVE Tensor!Total(f, at + (j + 1)) = Tensor!Total(f, at) + Tensor!Total(b[h], j + 1)
        <5> DEFINE q == at + (j + 1)
        <5>1. j + 1 \in 1 .. n /\ q - 1 = at + j
          BY <3>1, <4>1, <4>2
        <5>2. q \in 1 .. mn /\ b[h][j + 1] = f[q]
          BY <3>5, <5>1
        <5>3. Tensor!Total(f, at + j) = Tensor!Total(f, at) + Tensor!Total(b[h], j)
          BY <4>1, <4>2
        <5>4. Tensor!Total(b[h], j + 1) = Tensor!Total(b[h], j) + b[h][j + 1] /\ Tensor!Total(b[h], j) \in Int
          BY <3>4, <4>1, <5>1, TotalStep
        <5> HIDE DEF q, P
        <5>5. Tensor!Total(f, q) = Tensor!Total(f, q - 1) + f[q]
          BY <1>0, <1>2, <5>2, TotalStep
        <5>6. f[q] \in Int
          BY <1>2, <5>2 DEF Ints
        <5>7. Tensor!Total(f, q) = Tensor!Total(f, at) + Tensor!Total(b[h], j + 1)
          BY <3>6, <5>1, <5>2, <5>3, <5>4, <5>5, <5>6
        <5>. QED
          BY <5>7 DEF q
      <4>. QED
        BY <4>1, <4>2
    <3>9. P = Nat
      <4>1. P \subseteq Nat
        OBVIOUS
      <4> HIDE DEF P
      <4>. QED
        BY <3>7, <3>8, <4>1, InductiveSet
    <3>10. Tensor!Total(f, at + n) = Tensor!Total(f, at) + Tensor!Total(b[h], n)
      BY <3>9
    <3>11. Tensor!Total(f, h * n) = Tensor!Total(r, h)
      BY <3>1, <3>2, <3>3, <3>4, <3>10
    <3>. QED
      BY <3>11 DEF h
  <2>. QED
    BY <2>1, <2>2
<1>7. S = Nat
  <2>1. S \subseteq Nat
    OBVIOUS
  <2> HIDE DEF S
  <2>. QED
    BY <1>5, <1>6, <2>1, InductiveSet
<1>. QED
  BY <1>7

\* v gathers the n parts by where they go; w and u weigh them by T, after and
\* before they are gathered.
Weighed(to, part, T, v, w, u, n, m) ==
  /\ Ints(part, n) /\ part = [i \in 1 .. n |-> part[i]] /\ Ints(T, m)
  /\ \A i \in 1 .. n : to[i] \in 1 .. m /\ u[i] = part[i] * T[to[i]]
  /\ v = Tensor!Gathered(m, to, part) /\ \A k \in 1 .. m : w[k] = v[k] * T[k]

\* What is sent to an element counts with the weight of that element.
LEMMA TotalGathered ==
  ASSUME NEW n \in Nat, NEW m \in Nat, NEW to, NEW part, NEW T, NEW v, NEW w, NEW u,
         Weighed(to, part, T, v, w, u, n, m)
  PROVE  Tensor!Total(w, m) = Tensor!Total(u, n)
<1>0. /\ Ints(part, n) /\ part = [i \in 1 .. n |-> part[i]] /\ Ints(T, m)
      /\ \A i \in 1 .. n : to[i] \in 1 .. m /\ u[i] = part[i] * T[to[i]]
      /\ v = Tensor!Gathered(m, to, part) /\ \A k \in 1 .. m : w[k] = v[k] * T[k]
  BY DEF Weighed
<1> DEFINE p == [k \in 1 .. m |-> [i \in 1 .. n |-> IF to[i] = k THEN part[i] ELSE 0]]
           f == [k \in 1 .. m |-> [i \in 1 .. n |-> T[k] * p[k][i]]]
           g == [i \in 1 .. n |-> [k \in 1 .. m |-> T[k] * p[k][i]]]
<1>1. \A k \in 1 .. m : \A i \in 1 .. n : f[k][i] = T[k] * p[k][i] /\ g[i][k] = T[k] * p[k][i]
  OBVIOUS
<1>a. \A k \in 1 .. m : \A i \in 1 .. n : p[k][i] = IF to[i] = k THEN part[i] ELSE 0
  OBVIOUS
<1>c. DOMAIN part = 1 .. n /\ Len(part) = n
  BY <1>0, SequenceOf
<1>b. \A k \in 1 .. m : v[k] = Tensor!Total(p[k], n)
  BY <1>0, <1>c DEF Tensor!Gathered
<1> HIDE DEF f, g, p
<1>2. \A k \in 1 .. m : \A i \in 1 .. n : p[k][i] \in Int /\ f[k][i] \in Int /\ g[i][k] \in Int /\ T[k] \in Int
  BY <1>0, <1>1, <1>a DEF Ints
<1>3. \A k \in 1 .. m : Ints(f[k], n) /\ Ints(p[k], n)
  BY <1>2 DEF Ints
<1>4. ASSUME NEW k \in 1 .. m PROVE w[k] = Tensor!Total(f[k], n)
  <2>1. T[k] \in Int /\ Ints(p[k], n) /\ \A i \in 1 .. n : f[k][i] = T[k] * p[k][i]
    BY <1>0, <1>1, <1>2, <1>3 DEF Ints
  <2>2. Tensor!Total(f[k], n) = T[k] * Tensor!Total(p[k], n)
    BY <2>1, TotalScaled
  <2>3. Tensor!Total(p[k], n) \in Int
    BY <2>1, TotalInt
  <2>. QED
    <3>1. w[k] = Tensor!Total(p[k], n) * T[k]
      BY <1>0, <1>b
    <3> DEFINE x == Tensor!Total(p[k], n)
               y == T[k]
    <3>2. x \in Int /\ y \in Int /\ w[k] = x * y /\ Tensor!Total(f[k], n) = y * x
      BY <2>1, <2>2, <2>3, <3>1
    <3> HIDE DEF x, y
    <3>. QED
      BY <3>2
<1>5. ASSUME NEW i \in 1 .. n PROVE u[i] = Tensor!Total(g[i], m)
  <2>1. to[i] \in 1 .. m /\ Ints(g[i], m)
    BY <1>0, <1>2 DEF Ints
  <2>2. \A k \in 1 .. m : k # to[i] => g[i][k] = 0
    BY <1>1, <1>2, <1>a
  <2>3. Tensor!Total(g[i], m) = g[i][to[i]]
    BY <2>1, <2>2, TotalSingle
  <2>4. g[i][to[i]] = T[to[i]] * part[i]
    BY <1>1, <1>a, <2>1
  <2>. QED
    BY <1>0, <1>2, <2>1, <2>3, <2>4 DEF Ints
<1>6. \A i \in 1 .. n : \A k \in 1 .. m : g[i][k] = f[k][i]
  BY <1>1
<1>7. \A k \in 1 .. m : Ints(f[k], n) /\ w[k] = Tensor!Total(f[k], n)
  BY <1>3, <1>4
<1>8. \A i \in 1 .. n : /\ \A k \in 1 .. m : g[i][k] = f[k][i]
                       /\ u[i] = Tensor!Total(g[i], m)
  BY <1>5, <1>6
<1>. QED
  <2>1. RowsAndColumns(f, g, w, u, m, n)
    BY <1>7, <1>8 DEF RowsAndColumns
  <2>. QED
    BY <2>1, TotalSwap

-----------------------------------------------------------------------------
(* Shapes.                                                                 *)

Positive == Nat \ {0}
Shape == Seq(Positive)

Strides(p, s) == p = [i \in 0 .. Len(s) |-> IF i = 0 THEN 1 ELSE p[i - 1] * s[Len(s) + 1 - i]]

LEMMA StrideDef ==
  ASSUME NEW s, NEW d
  PROVE  Tensor!Stride(s, d) = (CHOOSE p : Strides(p, s))[Len(s) - d]
  BY DEF Tensor!Stride, Strides

LEMMA StridesExist ==
  ASSUME NEW s \in Shape
  PROVE  \E p \in [0 .. Len(s) -> Positive] : Strides(p, s)
<1> DEFINE n == Len(s)
           step == [j \in 1 .. n |-> [v \in Positive |-> v * s[n + 1 - j]]]
<1>0. n \in Nat /\ \A j \in 1 .. n : s[j] \in Positive
  BY LenProperties, ElementOfSeq DEF Shape
<1> HIDE DEF n
<1>1. \A j \in 1 .. n : \A v \in Positive : step[j][v] = v * s[n + 1 - j]
  OBVIOUS
<1>2. ASSUME NEW j \in 1 .. n, NEW v \in Positive PROVE step[j][v] \in Positive
  <2>1. n + 1 - j \in 1 .. n
    BY <1>0
  <2>2. s[n + 1 - j] \in Positive
    BY <1>0, <2>1
  <2>3. \A a \in Positive : \A b \in Positive : a * b \in Positive
    BY DEF Positive
  <2>4. step[j][v] = v * s[n + 1 - j]
    BY <1>1
  <2>. QED
    BY <2>2, <2>3, <2>4
<1> HIDE DEF step
<1>3. PICK p \in [0 .. n -> Positive] : Folds(p, n, 1, step)
  <2>1. 1 \in Positive
    BY DEF Positive
  <2>2. \E p \in [0 .. n -> Positive] : Folds(p, n, 1, step)
    BY <1>0, <1>2, <2>1, FoldsExist
  <2>. QED
    BY <2>2
<1>4. Strides(p, s)
  <2> DEFINE e(j) == IF j = 0 THEN 1 ELSE step[j][p[j - 1]]
             d(j) == IF j = 0 THEN 1 ELSE p[j - 1] * s[n + 1 - j]
  <2>1. ASSUME NEW j \in 0 .. n PROVE e(j) = d(j)
    <3>1. CASE j # 0
      <4>1. j \in 1 .. n /\ p[j - 1] \in Positive
        BY <1>0, <3>1
      <4>. QED
        BY <1>1, <4>1
    <3>. QED
      BY <3>1
  <2> HIDE DEF e, d
  <2>2. [j \in 0 .. n |-> e(j)] = [j \in 0 .. n |-> d(j)]
    BY <2>1
  <2>. QED
    BY <1>3, <2>2 DEF e, d, Folds, Strides, n
<1>. QED
  BY <1>3, <1>4 DEF n

LEMMA StridesPositive ==
  ASSUME NEW s \in Shape, NEW p, Strides(p, s)
  PROVE  \A i \in 0 .. Len(s) : p[i] \in Positive
<1> DEFINE n == Len(s)
           S == {k \in Nat : k <= n => p[k] \in Positive}
<1>0. n \in Nat /\ \A j \in 1 .. n : s[j] \in Positive
  BY LenProperties, ElementOfSeq DEF Shape
<1>1. \A i \in 0 .. n : p[i] = IF i = 0 THEN 1 ELSE p[i - 1] * s[n + 1 - i]
  BY DEF Strides
<1> HIDE DEF n
<1>2. 0 \in S
  BY <1>0, <1>1 DEF Positive
<1>3. ASSUME NEW k \in S PROVE k + 1 \in S
  <2>1. ASSUME k + 1 <= n PROVE p[k + 1] \in Positive
    <3>1. k + 1 \in 0 .. n /\ k + 1 # 0 /\ (k + 1) - 1 = k /\ n + 1 - (k + 1) \in 1 .. n /\ k <= n
      BY <1>0, <2>1
    <3>2. p[k + 1] = p[k] * s[n + 1 - (k + 1)]
      BY <1>1, <3>1
    <3>3. p[k] \in Positive /\ s[n + 1 - (k + 1)] \in Positive
      BY <1>0, <3>1
    <3>4. \A a \in Positive : \A b \in Positive : a * b \in Positive
      BY DEF Positive
    <3>. QED
      BY <3>2, <3>3, <3>4
  <2>. QED
    BY <2>1
<1>4. S = Nat
  <2>1. S \subseteq Nat
    OBVIOUS
  <2> HIDE DEF S
  <2>. QED
    BY <1>2, <1>3, <2>1, InductiveSet
<1>5. \A k \in 0 .. n : p[k] \in Positive
  BY <1>0, <1>4
<1>. QED
  BY <1>5 DEF n

LEMMA StrideStep ==
  ASSUME NEW s \in Shape
  PROVE  /\ Len(s) \in Nat
         /\ Tensor!Stride(s, Len(s)) = 1
         /\ \A d \in 0 .. Len(s) : Tensor!Stride(s, d) \in Positive
         /\ \A d \in 1 .. Len(s) : /\ s[d] \in Positive
                                   /\ Tensor!Stride(s, d - 1) = Tensor!Stride(s, d) * s[d]
<1> DEFINE n == Len(s)
           p == CHOOSE p : Strides(p, s)
<1>0. n \in Nat /\ \A j \in 1 .. n : s[j] \in Positive
  BY LenProperties, ElementOfSeq DEF Shape
<1>1. Strides(p, s)
  BY StridesExist
<1>2. \A d : Tensor!Stride(s, d) = p[n - d]
  BY StrideDef
<1> HIDE DEF p
<1>3. \A i \in 0 .. n : p[i] \in Positive
  BY <1>1, StridesPositive
<1>4. \A i \in 0 .. n : p[i] = IF i = 0 THEN 1 ELSE p[i - 1] * s[n + 1 - i]
  BY <1>1 DEF Strides
<1> HIDE DEF n
<1>5. Tensor!Stride(s, n) = 1
  <2>1. n - n = 0 /\ 0 \in 0 .. n
    BY <1>0
  <2>. QED
    BY <1>2, <1>4, <2>1
<1>6. ASSUME NEW d \in 0 .. n PROVE Tensor!Stride(s, d) \in Positive
  <2>1. n - d \in 0 .. n
    BY <1>0
  <2>. QED
    BY <1>2, <1>3, <2>1
<1>7. ASSUME NEW d \in 1 .. n PROVE Tensor!Stride(s, d - 1) = Tensor!Stride(s, d) * s[d]
  <2> DEFINE i == n - (d - 1)
  <2>1. i \in 0 .. n /\ i # 0 /\ i - 1 = n - d /\ n + 1 - i = d
    BY <1>0
  <2>2. p[i] = p[i - 1] * s[n + 1 - i]
    BY <1>4, <2>1
  <2>3. Tensor!Stride(s, d - 1) = p[i]
    BY <1>2
  <2> HIDE DEF i
  <2>4. Tensor!Stride(s, d) = p[i - 1]
    BY <1>2, <2>1
  <2>. QED
    BY <2>1, <2>2, <2>3, <2>4
<1>8. \A d \in 1 .. n : s[d] \in Positive
  BY <1>0
<1>. QED
  BY <1>0, <1>5, <1>6, <1>7, <1>8 DEF n

LEMMA NumelPositive ==
  ASSUME NEW s \in Shape
  PROVE  Tensor!Numel(s) \in Positive
<1>1. 0 \in 0 .. Len(s)
  BY StrideStep
<1>. QED
  BY <1>1, StrideStep DEF Tensor!Numel

LEMMA NumelScalar == Tensor!Numel(<<>>) = 1
<1>1. <<>> \in Shape /\ Len(<<>>) = 0
  BY EmptySeq DEF Shape
<1>. QED
  BY <1>1, StrideStep DEF Tensor!Numel

LEMMA NumelMatrix ==
  ASSUME NEW s \in Shape, Len(s) = 2
  PROVE  s[1] \in Positive /\ s[2] \in Positive /\ Tensor!Numel(s) = s[1] * s[2]
<1>1. 1 \in 1 .. 2 /\ 2 \in 1 .. 2 /\ 1 - 1 = 0 /\ 2 - 1 = 1
  OBVIOUS
<1>2. Tensor!Stride(s, 2) = 1 /\ s[1] \in Positive /\ s[2] \in Positive
  BY <1>1, StrideStep
<1>3. Tensor!Stride(s, 1) = Tensor!Stride(s, 2) * s[2]
  BY <1>1, StrideStep
<1>4. Tensor!Stride(s, 0) = Tensor!Stride(s, 1) * s[1]
  BY <1>1, StrideStep
<1>. QED
  BY <1>2, <1>3, <1>4 DEF Tensor!Numel, Positive

\* A step into what is left of the whole.
LEMMA StepWithin ==
  ASSUME NEW t \in Nat, NEW step \in Nat, NEW q \in Nat, NEW width \in Int, NEW all \in Nat,
         t + width <= all, step + q <= width
  PROVE  t + step \in Nat /\ (t + step) + q <= all
OBVIOUS

\* A smaller number of steps and one step more stay within the larger number.
LEMMA TimesGrows ==
  ASSUME NEW c \in Nat, NEW b \in Nat, NEW q \in Nat, c + 1 <= b
  PROVE  c * q \in Nat /\ c * q + q <= q * b
<1>1. (c + 1) * q <= b * q
  OBVIOUS
<1>2. (c + 1) * q = c * q + q
  OBVIOUS
<1>3. b * q = q * b /\ c * q \in Nat
  OBVIOUS
<1>. QED
  BY <1>1, <1>2, <1>3

\* An element of the spread tensor is one of those there are.
LEMMA SpreadWithin ==
  ASSUME NEW s \in Shape, NEW t \in Shape, Len(s) <= Len(t), NEW i \in Nat
  PROVE  Tensor!Spread(s, t, i) \in 0 .. Tensor!Numel(s) - 1
<1> DEFINE n == Len(s)
           at(d) == d + Len(t) - Len(s)
           f == [d \in 1 .. n |-> LET e == at(d)
                   IN IF s[d] = t[e] THEN ((i \div Tensor!Stride(t, e)) % t[e]) * Tensor!Stride(s, d) ELSE 0]
           S == {k \in Nat : k <= n => /\ Tensor!Total(f, k) \in Nat
                                       /\ Tensor!Total(f, k) + Tensor!Stride(s, k) <= Tensor!Stride(s, 0)}
<1>0. Tensor!Spread(s, t, i) = Tensor!Total(f, n)
  BY DEF Tensor!Spread
<1>1. n \in Nat /\ Len(t) \in Nat
  BY StrideStep
<1>2. ASSUME NEW d \in 1 .. n
      PROVE  \E c \in 0 .. s[d] - 1 : f[d] = c * Tensor!Stride(s, d)
  <2> DEFINE e == at(d)
             x == i \div Tensor!Stride(t, e)
             c == IF s[d] = t[e] THEN x % t[e] ELSE 0
  <2>1. e \in 1 .. Len(t)
    BY <1>1
  <2>2. e \in 0 .. Len(t)
    BY <2>1, <1>1
  <2> HIDE DEF e
  <2>3. Tensor!Stride(t, e) \in Positive /\ t[e] \in Positive
    BY <2>1, <2>2, StrideStep
  <2>4. s[d] \in Positive /\ d \in 0 .. n
    BY <1>1, StrideStep
  <2>5. Tensor!Stride(s, d) \in Positive
    BY <2>4, StrideStep
  <2>6. x \in Nat
    BY <2>3, DivModOf DEF Positive
  <2>7. f[d] = IF s[d] = t[e] THEN (x % t[e]) * Tensor!Stride(s, d) ELSE 0
    BY DEF e
  <2> HIDE DEF x, f
  <2>8. x % t[e] \in 0 .. t[e] - 1
    BY <2>3, <2>6, DivModOf DEF Positive
  <2>9. c \in 0 .. s[d] - 1
    BY <2>4, <2>8 DEF Positive
  <2>10. f[d] = c * Tensor!Stride(s, d)
    BY <2>5, <2>7 DEF Positive
  <2>. QED
    BY <2>9, <2>10
<1> HIDE DEF f
<1>3. \A d \in 1 .. n : s[d] \in Positive /\ Tensor!Stride(s, d) \in Positive
  <2>1. \A d \in 1 .. n : d \in 0 .. n
    BY <1>1
  <2>. QED
    BY <2>1, StrideStep
<1>4. Ints(f, n)
  BY <1>2, <1>3 DEF Ints, Positive
<1>5. 0 \in S
  <2>1. Tensor!Total(f, 0) = 0
    BY <1>1, <1>4, TotalStep
  <2>2. Tensor!Stride(s, 0) \in Positive
    BY NumelPositive DEF Tensor!Numel
  <2>. QED
    BY <2>1, <2>2 DEF Positive
<1>6. ASSUME NEW k \in S PROVE k + 1 \in S
  <2>1. k \in Nat /\ (k + 1) - 1 = k
    OBVIOUS
  <2>2. ASSUME k + 1 <= n
        PROVE /\ Tensor!Total(f, k + 1) \in Nat
              /\ Tensor!Total(f, k + 1) + Tensor!Stride(s, k + 1) <= Tensor!Stride(s, 0)
    <3> DEFINE h == k + 1
    <3>1. h \in 1 .. n /\ h - 1 = k
      BY <2>1, <2>2
    <3>2. /\ Tensor!Total(f, k) \in Nat
          /\ Tensor!Total(f, k) + Tensor!Stride(s, k) <= Tensor!Stride(s, 0)
      BY <2>1, <2>2
    <3>3. PICK c \in 0 .. s[h] - 1 : f[h] = c * Tensor!Stride(s, h)
      BY <1>2, <3>1
    <3>4. Tensor!Total(f, h) = Tensor!Total(f, k) + f[h]
      BY <1>1, <1>4, <3>1, TotalStep
    <3>5. Tensor!Stride(s, k) = Tensor!Stride(s, h) * s[h]
      BY <3>1, StrideStep
    <3>6. s[h] \in Positive /\ Tensor!Stride(s, h) \in Positive
      BY <1>3, <3>1
    <3> HIDE DEF h, S
    <3> DEFINE q == Tensor!Stride(s, h)
    <3>7. q \in Nat /\ s[h] \in Nat /\ c \in Nat /\ c + 1 <= s[h]
      BY <3>6 DEF Positive
    <3>8. c * q \in Nat /\ c * q + q <= q * s[h]
      BY <3>7, TimesGrows
    <3>9. f[h] = c * q /\ Tensor!Stride(s, k) = q * s[h]
      BY <3>3, <3>5
    <3>10. Tensor!Stride(s, 0) \in Nat
      BY NumelPositive DEF Tensor!Numel, Positive
    <3> HIDE DEF q
    <3>11. Tensor!Total(f, h) \in Nat /\ Tensor!Total(f, h) + q <= Tensor!Stride(s, 0)
      <4>1. /\ Tensor!Total(f, k) \in Nat /\ Tensor!Stride(s, k) \in Int
            /\ Tensor!Stride(s, 0) \in Nat /\ c * q + q <= Tensor!Stride(s, k)
        BY <3>2, <3>6, <3>7, <3>8, <3>9, <3>10 DEF Positive
      <4>2. /\ Tensor!Total(f, k) + c * q \in Nat
            /\ (Tensor!Total(f, k) + c * q) + q <= Tensor!Stride(s, 0)
        BY <3>2, <3>7, <3>8, <4>1, StepWithin
      <4>. QED
        BY <3>4, <3>9, <4>2
    <3>. QED
      BY <3>11 DEF h, q
  <2>. QED
    BY <2>1, <2>2
<1>7. S = Nat
  <2>1. S \subseteq Nat
    OBVIOUS
  <2> HIDE DEF S
  <2>. QED
    BY <1>5, <1>6, <2>1, InductiveSet
<1>8. /\ Tensor!Total(f, n) \in Nat
      /\ Tensor!Total(f, n) + Tensor!Stride(s, n) <= Tensor!Stride(s, 0)
  BY <1>1, <1>7
<1>9. Tensor!Stride(s, n) = 1 /\ Tensor!Numel(s) = Tensor!Stride(s, 0) /\ Tensor!Numel(s) \in Positive
  BY NumelPositive, StrideStep DEF Tensor!Numel
<1>. QED
  BY <1>0, <1>8, <1>9 DEF Positive

-----------------------------------------------------------------------------
(* What an entry of the tape remembers, and what it adds.                  *)

Vec(n) == [1 .. n -> Int]
Dot(u, v, n) == Tensor!Total([k \in 1 .. n |-> u[k] * v[k]], n)

LEMMA DotIs ==
  ASSUME NEW n \in Nat, NEW u \in Vec(n), NEW v \in Vec(n), NEW w,
         \A k \in 1 .. n : w[k] = u[k] * v[k]
  PROVE  Ints(w, n) /\ Dot(u, v, n) = Tensor!Total(w, n) /\ Dot(u, v, n) \in Int
<1> DEFINE f == [k \in 1 .. n |-> u[k] * v[k]]
<1>1. \A k \in 1 .. n : f[k] = w[k] /\ w[k] \in Int
  BY DEF Vec
<1>2. Dot(u, v, n) = Tensor!Total(f, n)
  BY DEF Dot
<1> HIDE DEF f
<1>3. Ints(w, n)
  BY <1>1 DEF Ints
<1>. QED
  BY <1>1, <1>2, <1>3, TotalSame, TotalInt

\* Pairs of vectors whose products are the same.
LEMMA DotSame ==
  ASSUME NEW n \in Nat, NEW u \in Vec(n), NEW v \in Vec(n), NEW w \in Vec(n), NEW x \in Vec(n),
         \A k \in 1 .. n : u[k] * v[k] = w[k] * x[k]
  PROVE  Dot(u, v, n) = Dot(w, x, n)
<1> DEFINE f == [k \in 1 .. n |-> u[k] * v[k]]
<1>1. \A k \in 1 .. n : f[k] = u[k] * v[k] /\ f[k] = w[k] * x[k]
  OBVIOUS
<1> HIDE DEF f
<1>. QED
  BY <1>1, DotIs

\* The operands of an operation, whole tensors.
Size(x) == Tensor!Numel(x.shape)
Whole(x) == x \in [shape : Shape, data : Seq(Int)] /\ x.data \in Vec(Size(x))
Operands(m) == IF m.op \in Tensor!Binary THEN 2 ELSE 1

Remembered(m) ==
  /\ m.op \in Tensor!Binary \cup Tensor!Unary
  /\ m.seen = [p \in 1 .. Operands(m) |-> m.seen[p]]
  /\ \A p \in 1 .. Operands(m) : Whole(m.seen[p])
  /\ m.arg \in Tensor!Args(m.op)
  /\ Tensor!Accepts(m.op, [p \in 1 .. Operands(m) |-> m.seen[p].shape], m.arg)

\* d is a change of each operand.
Changes(m, d) == \A p \in 1 .. Operands(m) : d[p] \in Vec(Size(m.seen[p]))

\* Run back on out, the entry adds to the gradients of its operands what, for
\* every change of them, weighs as much as the change of the result by out.
Adjoint(m, out, d, n) ==
  /\ Tensor!Tangent(m, d) \in Vec(n)
  /\ \A p \in 1 .. Operands(m) : Tensor!Back(m, out)[p] \in Vec(Size(m.seen[p]))
  /\ Dot(out, Tensor!Tangent(m, d), n)
       = IF Operands(m) = 1 THEN Dot(Tensor!Back(m, out)[1], d[1], Size(m.seen[1]))
         ELSE Dot(Tensor!Back(m, out)[1], d[1], Size(m.seen[1]))
                + Dot(Tensor!Back(m, out)[2], d[2], Size(m.seen[2]))

LEMMA OneOperand ==
  ASSUME NEW m, Remembered(m), m.op \in Tensor!Unary, NEW d, Changes(m, d)
  PROVE  /\ Operands(m) = 1 /\ Whole(m.seen[1]) /\ d[1] \in Vec(Size(m.seen[1]))
         /\ Size(m.seen[1]) \in Positive /\ DOMAIN m.seen = 1 .. 1
         /\ m.seen[1].data \in Vec(Size(m.seen[1])) /\ m.seen[1].shape \in Shape
         /\ Tensor!Accepts(m.op, [p \in 1 .. 1 |-> m.seen[p].shape], m.arg)
<1>1. Operands(m) = 1
  BY DEF Operands, Tensor!Unary, Tensor!Binary
<1>2. Whole(m.seen[1]) /\ d[1] \in Vec(Size(m.seen[1])) /\ m.seen = [p \in 1 .. 1 |-> m.seen[p]]
      /\ Tensor!Accepts(m.op, [p \in 1 .. 1 |-> m.seen[p].shape], m.arg)
  BY <1>1 DEF Remembered, Changes
<1>3. m.seen[1].shape \in Shape
  BY <1>2 DEF Whole
<1>. QED
  BY <1>1, <1>2, <1>3, NumelPositive DEF Whole, Size

LEMMA TwoOperands ==
  ASSUME NEW m, Remembered(m), m.op \in Tensor!Binary, NEW d, Changes(m, d)
  PROVE  /\ Operands(m) = 2 /\ DOMAIN m.seen = 1 .. 2
         /\ Tensor!Accepts(m.op, [p \in 1 .. 2 |-> m.seen[p].shape], m.arg)
         /\ \A p \in 1 .. 2 : /\ Whole(m.seen[p]) /\ d[p] \in Vec(Size(m.seen[p]))
                              /\ Size(m.seen[p]) \in Positive
                              /\ m.seen[p].data \in Vec(Size(m.seen[p]))
                              /\ m.seen[p].shape \in Shape
<1>1. Operands(m) = 2
  BY DEF Operands
<1>2. /\ \A p \in 1 .. 2 : Whole(m.seen[p]) /\ d[p] \in Vec(Size(m.seen[p]))
      /\ m.seen = [p \in 1 .. 2 |-> m.seen[p]]
      /\ Tensor!Accepts(m.op, [p \in 1 .. 2 |-> m.seen[p].shape], m.arg)
  BY <1>1 DEF Remembered, Changes
<1>3. \A p \in 1 .. 2 : m.seen[p].shape \in Shape
  BY <1>2 DEF Whole
<1>. QED
  BY <1>1, <1>2, <1>3, NumelPositive DEF Whole, Size

LEMMA SingleAdjoint ==
  ASSUME NEW m, Remembered(m), m.op \in {"neg", "relu", "square"}, NEW d, Changes(m, d),
         NEW out \in Vec(Size(m.seen[1]))
  PROVE  Adjoint(m, out, d, Size(m.seen[1]))
<1> DEFINE n == Size(m.seen[1])
           a == m.seen[1].data
           c == [k \in 1 .. n |-> Tensor!Slope(m.op, a[k])]
           x == d[1]
           t == Tensor!Tangent(m, d)
           b == Tensor!Back(m, out)[1]
<1>0. m.op \in Tensor!Unary
  BY DEF Tensor!Unary
<1>1. /\ Operands(m) = 1 /\ x \in Vec(n) /\ n \in Positive /\ a \in Vec(n) /\ DOMAIN m.seen = 1 .. 1
  BY <1>0, OneOperand
<1>2. b = [k \in 1 .. n |-> out[k] * Tensor!Slope(m.op, a[k])]
  BY DEF Tensor!Back, Tensor!SingleBack, Vec
<1>a. DOMAIN x = 1 .. n /\ \A k \in 1 .. n : x[k] \in Int /\ a[k] \in Int
  BY <1>1 DEF Vec
<1> HIDE DEF n, a, x, b
<1>3. t \in Vec(n) /\ \A k \in 1 .. n : t[k] = Tensor!Slope(m.op, a[k]) * x[k]
  <2>1. CASE m.op = "neg"
    <3> DEFINE q == [p \in DOMAIN m.seen |-> [shape |-> m.seen[p].shape, data |-> d[p]]]
    <3>1. t = Tensor!Apply(m.op, q, m.arg).data
      BY <2>1 DEF Tensor!Tangent
    <3>2. q[1].data = x
      BY <1>1 DEF x
    <3> HIDE DEF q, t
    <3>3. t = [i \in 1 .. n |-> -x[i]]
      BY <1>a, <2>1, <3>1, <3>2 DEF Tensor!Apply, Tensor!Single
    <3>5. \A k \in 1 .. n : Tensor!Slope(m.op, a[k]) = -1
      BY <2>1 DEF Tensor!Slope
    <3>. QED
      BY <1>a, <3>3, <3>5 DEF Vec
  <2>2. CASE m.op = "relu"
    <3>1. t = [k \in 1 .. n |-> IF a[k] > 0 THEN x[k] ELSE 0]
      BY <1>a, <2>2 DEF Tensor!Tangent, a, x
    <3> HIDE DEF t
    <3>5. \A k \in 1 .. n : Tensor!Slope(m.op, a[k]) = IF a[k] > 0 THEN 1 ELSE 0
      BY <2>2 DEF Tensor!Slope
    <3>. QED
      BY <1>a, <3>1, <3>5 DEF Vec
  <2>3. CASE m.op = "square"
    <3>1. t = [k \in 1 .. n |-> 2 * a[k] * x[k]]
      BY <1>a, <2>3 DEF Tensor!Tangent, a, x
    <3> HIDE DEF t
    <3>5. \A k \in 1 .. n : Tensor!Slope(m.op, a[k]) = 2 * a[k]
      BY <2>3 DEF Tensor!Slope
    <3>. QED
      BY <1>a, <3>1, <3>5 DEF Vec
  <2>. QED
    BY <2>1, <2>2, <2>3
<1>4. \A k \in 1 .. n : Tensor!Slope(m.op, a[k]) \in Int
  BY <1>a DEF Tensor!Slope
<1> HIDE DEF t
<1>5. b \in Vec(n) /\ \A k \in 1 .. n : b[k] * x[k] = out[k] * t[k]
  <2>1. ASSUME NEW k \in 1 .. n PROVE b[k] \in Int /\ b[k] * x[k] = out[k] * t[k]
    <3>1. out[k] \in Int /\ x[k] \in Int
      BY <1>1 DEF Vec, n
    <3> DEFINE s == Tensor!Slope(m.op, a[k])
    <3>2. s \in Int /\ b[k] = out[k] * s /\ t[k] = s * x[k]
      BY <1>2, <1>3, <1>4
    <3> HIDE DEF s
    <3>. QED
      BY <3>1, <3>2
  <2>. QED
    BY <1>2, <2>1 DEF Vec
<1>7. n \in Nat /\ out \in Vec(n)
  BY <1>1 DEF Positive, n
<1>8. Dot(out, t, n) = Dot(b, x, n)
  BY <1>1, <1>3, <1>5, <1>7, DotSame
<1>. QED
  BY <1>1, <1>3, <1>5, <1>8 DEF Adjoint, t, b, n, x

LEMMA SumAdjoint ==
  ASSUME NEW m, Remembered(m), m.op = "sum", NEW d, Changes(m, d), NEW out \in Vec(1)
  PROVE  Adjoint(m, out, d, 1)
<1> DEFINE n == Size(m.seen[1])
           x == d[1]
           t == Tensor!Tangent(m, d)
           b == Tensor!Back(m, out)[1]
<1>0. m.op \in Tensor!Unary
  BY DEF Tensor!Unary
<1>1. /\ Operands(m) = 1 /\ x \in Vec(n) /\ n \in Positive /\ DOMAIN m.seen = 1 .. 1
  BY <1>0, OneOperand
<1>2. b = [k \in 1 .. n |-> out[1]]
  BY DEF Tensor!Back, Tensor!SumBack, Size
<1>3. t = <<Tensor!Total(x, Len(x))>>
  <2> DEFINE q == [p \in DOMAIN m.seen |-> [shape |-> m.seen[p].shape, data |-> d[p]]]
  <2>1. t = Tensor!Apply(m.op, q, m.arg).data
    BY DEF Tensor!Tangent
  <2>2. q[1].data = x
    BY <1>1
  <2> HIDE DEF q, t, x
  <2>. QED
    BY <2>1, <2>2 DEF Tensor!Apply
<1> HIDE DEF t, b, n, x
<1>4. Len(x) = n /\ n \in Nat /\ Ints(x, n)
  <2>1. n \in Nat /\ x = [k \in 1 .. n |-> x[k]]
    BY <1>1 DEF Positive, Vec
  <2>. QED
    BY <1>1, <2>1, SequenceOf DEF Ints, Vec
<1> DEFINE T == Tensor!Total(x, n)
<1>5. T \in Int
  BY <1>4, TotalInt
<1>6. t[1] = T /\ t \in Vec(1)
  BY <1>3, <1>4, <1>5 DEF Vec
<1>7. out[1] \in Int /\ b \in Vec(n)
  BY <1>2 DEF Vec
<1> DEFINE f == [k \in 1 .. 1 |-> out[k] * t[k]]
           w == [k \in 1 .. n |-> b[k] * x[k]]
<1>8. Ints(f, 1) /\ Dot(out, t, 1) = Tensor!Total(f, 1)
  <2>1. \A k \in 1 .. 1 : f[k] = out[k] * t[k]
    OBVIOUS
  <2> HIDE DEF f, T
  <2>. QED
    BY <1>6, <2>1, DotIs
<1>9. Dot(b, x, n) = Tensor!Total(w, n)
  BY DEF Dot
<1>10. \A k \in 1 .. n : w[k] = out[1] * x[k]
  BY <1>2
<1>11. f[1] = out[1] * T
  BY <1>6
<1> HIDE DEF f, w, T
<1>12. Tensor!Total(f, 1) = f[1]
  <2>1. 1 \in 1 .. 1 /\ \A i \in 1 .. 1 : i # 1 => f[i] = 0
    OBVIOUS
  <2>. QED
    BY <1>8, <2>1, TotalSingle
<1>13. Tensor!Total(w, n) = out[1] * T
  BY <1>4, <1>7, <1>10, TotalScaled DEF T
<1>14. Dot(out, t, 1) = Dot(b, x, n)
  BY <1>8, <1>9, <1>11, <1>12, <1>13
<1>. QED
  BY <1>1, <1>6, <1>7, <1>14 DEF Adjoint, t, b, n, x

\* What is gathered is a vector.
LEMMA GatheredVec ==
  ASSUME NEW n \in Nat, NEW N \in Nat, NEW to, NEW part, Ints(part, n),
         part = [k \in 1 .. n |-> part[k]]
  PROVE  Tensor!Gathered(N, to, part) \in Vec(N)
<1>1. DOMAIN part = 1 .. n /\ Len(part) = n
  BY SequenceOf
<1>2. ASSUME NEW k \in 1 .. N
      PROVE  Tensor!Total([i \in 1 .. n |-> IF to[i] = k THEN part[i] ELSE 0], n) \in Int
  <2> DEFINE f == [i \in 1 .. n |-> IF to[i] = k THEN part[i] ELSE 0]
  <2>1. Ints(f, n)
    BY DEF Ints
  <2> HIDE DEF f
  <2>2. Tensor!Total(f, n) \in Int
    BY <2>1, TotalInt
  <2>. QED
    BY <2>2 DEF f
<1>. QED
  BY <1>1, <1>2 DEF Tensor!Gathered, Vec

\* An operation that only moves elements: element k of the result is element
\* to[k] of the operand.
LEMMA GatheredAdjoint ==
  ASSUME NEW m, Remembered(m), m.op \in Tensor!Unary, NEW d, Changes(m, d),
         NEW n \in Nat, NEW out \in Vec(n), NEW to,
         \A k \in 1 .. n : to[k] \in 1 .. Size(m.seen[1]),
         Tensor!Tangent(m, d) = [k \in 1 .. n |-> d[1][to[k]]],
         Tensor!Back(m, out)[1] = Tensor!Gathered(Size(m.seen[1]), to, out)
  PROVE  Adjoint(m, out, d, n)
<1> DEFINE N == Size(m.seen[1])
           x == d[1]
           t == Tensor!Tangent(m, d)
           b == Tensor!Back(m, out)[1]
<1>1. /\ Operands(m) = 1 /\ x \in Vec(N) /\ N \in Positive
  BY OneOperand
<1>2. /\ \A k \in 1 .. n : to[k] \in 1 .. N
      /\ t = [k \in 1 .. n |-> x[to[k]]]
      /\ b = Tensor!Gathered(N, to, out)
  OBVIOUS
<1> HIDE DEF N, x, t, b
<1>3. N \in Nat /\ Ints(x, N) /\ Ints(out, n) /\ out = [k \in 1 .. n |-> out[k]]
  BY <1>1 DEF Positive, Vec, Ints
<1>4. t \in Vec(n)
  BY <1>2, <1>3 DEF Vec, Ints
<1>5. b \in Vec(N)
  BY <1>2, <1>3, GatheredVec
<1> DEFINE w == [k \in 1 .. N |-> b[k] * x[k]]
           u == [k \in 1 .. n |-> out[k] * t[k]]
<1>6. \A k \in 1 .. N : w[k] = b[k] * x[k]
  OBVIOUS
<1>7. \A k \in 1 .. n : u[k] = out[k] * t[k] /\ u[k] = out[k] * x[to[k]]
  BY <1>2
<1> HIDE DEF w, u
<1>8. Dot(out, t, n) = Tensor!Total(u, n)
  BY <1>4, <1>7, DotIs
<1>9. Dot(b, x, N) = Tensor!Total(w, N)
  BY <1>1, <1>3, <1>5, <1>6, DotIs
<1>10. Tensor!Total(w, N) = Tensor!Total(u, n)
  <2>1. Weighed(to, out, x, b, w, u, n, N)
    BY <1>2, <1>3, <1>6, <1>7 DEF Weighed
  <2>. QED
    BY <1>3, <2>1, TotalGathered
<1>. QED
  BY <1>1, <1>4, <1>5, <1>8, <1>9, <1>10 DEF Adjoint, t, b, N, x

LEMMA ArgShape ==
  ASSUME NEW m, Remembered(m)
  PROVE  /\ m.op = "reshape" => m.arg \in Shape
         /\ m.op = "embed" => m.arg \in Seq(Int) /\ m.arg # <<>>
         /\ m.op = "slice" => /\ \A i \in 1 .. 4 : m.arg[i] \in Nat
                              /\ m.arg[1] < m.arg[2] /\ m.arg[3] < m.arg[4]
<1>1. ASSUME m.op = "reshape" PROVE m.arg \in Shape
  <2>1. m.arg \in Shapes
    BY <1>1 DEF Remembered, Tensor!Args
  <2>. QED
    BY <2>1, TapeAssumption DEF Tensor!Script, Shape, Positive
<1>2. ASSUME m.op = "embed" PROVE m.arg \in Seq(Int) /\ m.arg # <<>>
  <2>1. m.arg \in Lookups
    BY <1>2 DEF Remembered, Tensor!Args
  <2>. QED
    BY <2>1, TapeAssumption DEF Tensor!Script
<1>3. ASSUME m.op = "slice"
      PROVE  /\ \A i \in 1 .. 4 : m.arg[i] \in Nat
             /\ m.arg[1] < m.arg[2] /\ m.arg[3] < m.arg[4]
  <2>1. m.arg \in Slices
    BY <1>3 DEF Remembered, Tensor!Args
  <2>2. m.arg \in Seq(Nat) /\ Len(m.arg) = 4 /\ m.arg[1] < m.arg[2] /\ m.arg[3] < m.arg[4]
    BY <2>1, TapeAssumption DEF Tensor!Script
  <2>. QED
    BY <2>2, ElementOfSeq
<1>. QED
  BY <1>1, <1>2, <1>3

\* The shape of the result of a move, and where its elements come from.
MovedTo(m) == Tensor!MovedShape(m.op, m.seen[1].shape, m.arg)

LEMMA MovedWithin ==
  ASSUME NEW m, Remembered(m), m.op \in {"reshape", "transpose", "slice"}
  PROVE  /\ MovedTo(m) \in Shape
         /\ \A i \in 0 .. Tensor!Numel(MovedTo(m)) - 1 :
              Tensor!Moved(m.op, m.seen[1].shape, m.arg, i) \in 0 .. Size(m.seen[1]) - 1
<1> DEFINE s == m.seen[1].shape
           g == m.arg
           N == Tensor!Numel(MovedTo(m))
<1>0. /\ s \in Shape /\ Size(m.seen[1]) = Tensor!Numel(s)
      /\ Tensor!Accepts(m.op, [p \in 1 .. 1 |-> m.seen[p].shape], g)
  <2>1. Operands(m) = 1
    BY DEF Operands, Tensor!Binary
  <2>2. Whole(m.seen[1]) /\ Tensor!Accepts(m.op, [p \in 1 .. 1 |-> m.seen[p].shape], g)
    BY <2>1 DEF Remembered
  <2>. QED
    BY <2>2 DEF Whole, Size
<1>1. CASE m.op = "reshape"
  <2>1. g \in Shape /\ MovedTo(m) = g
    BY <1>1, ArgShape DEF MovedTo, Tensor!MovedShape
  <2>2. Tensor!Numel(s) = Tensor!Numel(g)
    BY <1>0, <1>1 DEF Tensor!Accepts
  <2>3. \A i : Tensor!Moved(m.op, s, g, i) = i
    BY <1>1 DEF Tensor!Moved
  <2>. QED
    BY <1>0, <2>1, <2>2, <2>3
<1>2. CASE m.op = "transpose"
  <2>1. Len(s) = 2
    BY <1>0, <1>2 DEF Tensor!Accepts
  <2>2. s[1] \in Positive /\ s[2] \in Positive /\ Tensor!Numel(s) = s[1] * s[2]
    BY <1>0, <2>1, NumelMatrix
  <2> DEFINE t == <<s[2], s[1]>>
  <2>3. MovedTo(m) = t
    BY <1>2 DEF MovedTo, Tensor!MovedShape
  <2>4. t \in Shape /\ Len(t) = 2 /\ t[1] = s[2] /\ t[2] = s[1]
    BY <2>2 DEF Shape
  <2>5. N = s[2] * s[1]
    BY <2>3, <2>4, NumelMatrix
  <2>6. ASSUME NEW i \in 0 .. N - 1
        PROVE  Tensor!Moved(m.op, s, g, i) \in 0 .. Tensor!Numel(s) - 1
    <3> DEFINE r == i % s[1]
               c == i \div s[1]
    <3>1. i \in 0 .. s[2] * s[1] - 1
      BY <2>5
    <3>2. c \in 0 .. s[2] - 1 /\ r \in 0 .. s[1] - 1
      BY <2>2, <3>1, BlockOf DEF Positive
    <3>3. Tensor!Moved(m.op, s, g, i) = r * s[2] + c
      BY <1>2 DEF Tensor!Moved
    <3> HIDE DEF r, c
    <3>4. r * s[2] + c \in 0 .. s[1] * s[2] - 1
      BY <2>2, <3>2, InBlock DEF Positive
    <3>. QED
      BY <2>2, <3>3, <3>4
  <2>. QED
    BY <1>0, <2>3, <2>4, <2>6
<1>3. CASE m.op = "slice"
  <2>1. Len(s) = 2 /\ g[2] <= s[1] /\ g[4] <= s[2]
    BY <1>0, <1>3 DEF Tensor!Accepts
  <2>2. s[1] \in Positive /\ s[2] \in Positive /\ Tensor!Numel(s) = s[1] * s[2]
    BY <1>0, <2>1, NumelMatrix
  <2>3. g[1] \in Nat /\ g[2] \in Nat /\ g[3] \in Nat /\ g[4] \in Nat /\ g[1] < g[2] /\ g[3] < g[4]
    BY <1>3, ArgShape
  <2> DEFINE h == g[2] - g[1]
             w == g[4] - g[3]
             t == <<h, w>>
  <2>4. MovedTo(m) = t
    BY <1>3 DEF MovedTo, Tensor!MovedShape
  <2>5. h \in Positive /\ w \in Positive
    BY <2>3 DEF Positive
  <2>6. t \in Shape /\ Len(t) = 2 /\ t[1] = h /\ t[2] = w
    BY <2>5 DEF Shape
  <2>7. N = h * w
    BY <2>4, <2>6, NumelMatrix
  <2>8. ASSUME NEW i \in 0 .. N - 1
        PROVE  Tensor!Moved(m.op, s, g, i) \in 0 .. Tensor!Numel(s) - 1
    <3> DEFINE r == g[1] + i \div w
               c == g[3] + (i % w)
    <3>1. i \in 0 .. h * w - 1
      BY <2>7
    <3>2. i \div w \in 0 .. h - 1 /\ i % w \in 0 .. w - 1
      BY <2>5, <3>1, BlockOf DEF Positive
    <3>3. Tensor!Moved(m.op, s, g, i) = r * s[2] + g[3] + (i % w)
      BY <1>3 DEF Tensor!Moved
    <3>4. r \in 0 .. s[1] - 1 /\ c \in 0 .. s[2] - 1
      BY <2>1, <2>2, <2>3, <3>2 DEF Positive
    <3>5. Tensor!Moved(m.op, s, g, i) = r * s[2] + c
      <4>1. r * s[2] \in Nat /\ g[3] \in Nat /\ i % w \in Nat
        BY <2>2, <2>3, <3>2, <3>4 DEF Positive
      <4> HIDE DEF r, w
      <4>. QED
        BY <3>3, <4>1
    <3> HIDE DEF r, c
    <3>6. r * s[2] + c \in 0 .. s[1] * s[2] - 1
      BY <2>2, <3>4, InBlock DEF Positive
    <3>. QED
      BY <2>2, <3>5, <3>6
  <2>. QED
    BY <1>0, <2>4, <2>6, <2>8
<1>. QED
  BY <1>1, <1>2, <1>3

LEMMA MovedAdjoint ==
  ASSUME NEW m, Remembered(m), m.op \in {"reshape", "transpose", "slice"}, NEW d, Changes(m, d),
         NEW out \in Vec(Tensor!Numel(MovedTo(m)))
  PROVE  Adjoint(m, out, d, Tensor!Numel(MovedTo(m)))
<1> DEFINE n == Tensor!Numel(MovedTo(m))
           s == m.seen[1].shape
           x == d[1]
           to == [k \in 1 .. n |-> 1 + Tensor!Moved(m.op, s, m.arg, k - 1)]
<1>0. m.op \in Tensor!Unary
  BY DEF Tensor!Unary
<1>1. /\ Operands(m) = 1 /\ x \in Vec(Size(m.seen[1])) /\ DOMAIN m.seen = 1 .. 1
      /\ Size(m.seen[1]) \in Positive
  BY <1>0, OneOperand
<1>2. n \in Nat
  BY MovedWithin, NumelPositive DEF Positive
<1>3. ASSUME NEW k \in 1 .. n PROVE to[k] \in 1 .. Size(m.seen[1])
  <2>1. k - 1 \in 0 .. n - 1
    BY <1>2
  <2>2. Tensor!Moved(m.op, s, m.arg, k - 1) \in 0 .. Size(m.seen[1]) - 1
    BY <2>1, MovedWithin
  <2>3. to[k] = 1 + Tensor!Moved(m.op, s, m.arg, k - 1)
    OBVIOUS
  <2> DEFINE q == Tensor!Moved(m.op, s, m.arg, k - 1)
  <2> HIDE DEF q, to
  <2>. QED
    BY <1>1, <2>2, <2>3 DEF Positive, q
<1>4. Tensor!Tangent(m, d) = [k \in 1 .. n |-> x[to[k]]]
  <2> DEFINE q == [p \in DOMAIN m.seen |-> [shape |-> m.seen[p].shape, data |-> d[p]]]
             t == Tensor!Tangent(m, d)
             mv(k) == Tensor!Moved(m.op, s, m.arg, k - 1)
  <2>1. t = Tensor!Apply(m.op, q, m.arg).data
    BY DEF Tensor!Tangent
  <2>2. q[1].data = x /\ q[1].shape = s
    BY <1>1
  <2>3. t = [k \in 1 .. n |-> x[mv(k) + 1]]
    <3> HIDE DEF q, t, x
    <3>. QED
      BY <2>1, <2>2 DEF Tensor!Apply, Tensor!At, MovedTo
  <2>4. \A k \in 1 .. n : mv(k) + 1 = to[k]
    <3>1. ASSUME NEW k \in 1 .. n PROVE mv(k) + 1 = to[k]
      <4>1. k - 1 \in 0 .. n - 1
        BY <1>2
      <4>2. mv(k) \in 0 .. Size(m.seen[1]) - 1
        BY <4>1, MovedWithin
      <4>3. to[k] = 1 + mv(k)
        OBVIOUS
      <4> HIDE DEF mv, to
      <4>. QED
        BY <1>1, <4>2, <4>3 DEF Positive
    <3>. QED
      BY <3>1
  <2> HIDE DEF t, mv, to, x, n
  <2>5. [k \in 1 .. n |-> x[mv(k) + 1]] = [k \in 1 .. n |-> x[to[k]]]
    BY <2>4
  <2>. QED
    BY <2>3, <2>5 DEF t
<1>5. Tensor!Back(m, out)[1] = Tensor!Gathered(Size(m.seen[1]), to, out)
  <2>1. DOMAIN out = 1 .. n
    BY DEF Vec
  <2>. QED
    BY <2>1 DEF Tensor!Back, Tensor!MovedBack, Size
<1> HIDE DEF n, to, x
<1>6. out \in Vec(n)
  BY DEF n
<1>7. Adjoint(m, out, d, n)
  BY <1>0, <1>2, <1>3, <1>4, <1>5, <1>6, GatheredAdjoint DEF x
<1>. QED
  BY <1>7 DEF n

\* embed_lookup: element k of the result is in row arg[..] of the operand.
LEMMA EmbedAdjoint ==
  ASSUME NEW m, Remembered(m), m.op = "embed", NEW d, Changes(m, d),
         \A i \in DOMAIN m.arg : m.arg[i] \in 0 .. m.seen[1].shape[1] - 1,
         NEW out \in Vec(Len(m.arg) * m.seen[1].shape[2])
  PROVE  Adjoint(m, out, d, Len(m.arg) * m.seen[1].shape[2])
<1> DEFINE s == m.seen[1].shape
           vocab == s[1]
           dim == s[2]
           rows == m.arg
           n == Len(rows) * dim
           x == d[1]
           row(k) == Tensor!At(rows, (k - 1) \div dim)
           to == [k \in 1 .. n |-> IF row(k) \in 0 .. vocab - 1
                                   THEN row(k) * dim + ((k - 1) % dim) + 1 ELSE 0]
<1>0. m.op \in Tensor!Unary
  BY DEF Tensor!Unary
<1>1. /\ Operands(m) = 1 /\ x \in Vec(Size(m.seen[1])) /\ DOMAIN m.seen = 1 .. 1
      /\ s \in Shape /\ Tensor!Accepts(m.op, [p \in 1 .. 1 |-> m.seen[p].shape], m.arg)
  BY <1>0, OneOperand
<1>2. Len(s) = 2
  BY <1>1 DEF Tensor!Accepts
<1>3. vocab \in Positive /\ dim \in Positive /\ Size(m.seen[1]) = vocab * dim
  BY <1>1, <1>2, NumelMatrix DEF Size
<1>4. rows \in Seq(Int) /\ Len(rows) \in Nat /\ DOMAIN rows = 1 .. Len(rows)
  BY ArgShape, LenProperties
<1>5. n \in Nat
  BY <1>3, <1>4 DEF Positive
<1>6. ASSUME NEW k \in 1 .. n
      PROVE  /\ row(k) \in 0 .. vocab - 1
             /\ to[k] = row(k) * dim + ((k - 1) % dim) + 1 /\ to[k] \in 1 .. vocab * dim
             /\ Tensor!Row(vocab, row(k)) = row(k)
  <2> DEFINE r == (k - 1) \div dim
             c == (k - 1) % dim
             q == row(k)
  <2>1. k - 1 \in 0 .. Len(rows) * dim - 1
    BY <1>5
  <2>2. r \in 0 .. Len(rows) - 1 /\ c \in 0 .. dim - 1
    BY <1>3, <1>4, <2>1, BlockOf DEF Positive
  <2>3. r + 1 \in 1 .. Len(rows)
    BY <1>4, <2>2
  <2>4. q = rows[r + 1] /\ q \in 0 .. vocab - 1
    BY <1>4, <2>3 DEF Tensor!At
  <2>5. to[k] = IF q \in 0 .. vocab - 1 THEN q * dim + c + 1 ELSE 0
    OBVIOUS
  <2> HIDE DEF q, c, to, r, vocab
  <2>6. q * dim + c \in 0 .. vocab * dim - 1
    BY <1>3, <2>2, <2>4, InBlock DEF Positive
  <2>7. to[k] = (q * dim + c) + 1
    BY <2>4, <2>5
  <2> DEFINE v == q * dim + c
             N == vocab * dim
  <2>8. N \in Nat
    BY <1>3 DEF Positive
  <2>9. to[k] \in 1 .. N
    <3>1. v \in 0 .. N - 1 /\ to[k] = v + 1
      BY <2>6, <2>7
    <3> HIDE DEF v, N
    <3>. QED
      BY <2>8, <3>1
  <2>10. Tensor!Row(vocab, q) = q
    BY <1>3, <2>4 DEF Tensor!Row
  <2>. QED
    BY <2>4, <2>5, <2>9, <2>10 DEF q, c
<1>7. Tensor!Tangent(m, d) = [k \in 1 .. n |-> x[to[k]]]
  <2> DEFINE h == [p \in DOMAIN m.seen |-> [shape |-> m.seen[p].shape, data |-> d[p]]]
             t == Tensor!Tangent(m, d)
             at(k) == Tensor!Row(vocab, row(k)) * dim + ((k - 1) % dim) + 1
  <2>1. t = Tensor!Apply(m.op, h, m.arg).data
    BY DEF Tensor!Tangent
  <2>2. h[1].data = x /\ h[1].shape = s
    BY <1>1
  <2>3. t = Tensor!Embed(h[1], rows).data
    <3> HIDE DEF h, t, x
    <3>. QED
      BY <2>1 DEF Tensor!Apply
  <2>4. t = [k \in 1 .. n |-> x[at(k)]]
    <3> HIDE DEF h, t, x
    <3>. QED
      BY <2>2, <2>3 DEF Tensor!Embed, Tensor!At
  <2>5. \A k \in 1 .. n : at(k) = to[k]
    <3> SUFFICES ASSUME NEW k \in 1 .. n PROVE at(k) = to[k]
      OBVIOUS
    <3>1. Tensor!Row(vocab, row(k)) = row(k) /\ to[k] = row(k) * dim + ((k - 1) % dim) + 1
      BY <1>6
    <3> HIDE DEF to
    <3>. QED
      BY <3>1
  <2> HIDE DEF t, at, to, x, n
  <2>6. [k \in 1 .. n |-> x[at(k)]] = [k \in 1 .. n |-> x[to[k]]]
    BY <2>5
  <2>. QED
    BY <2>4, <2>6 DEF t
<1>8. Tensor!Back(m, out)[1] = Tensor!Gathered(Size(m.seen[1]), to, out)
  <2>1. DOMAIN out = 1 .. n
    BY DEF Vec
  <2>. QED
    BY <1>3, <2>1 DEF Tensor!Back, Tensor!EmbedBack
<1>9. \A k \in 1 .. n : to[k] \in 1 .. Size(m.seen[1])
  BY <1>3, <1>6
<1> HIDE DEF n, to, x
<1>10. out \in Vec(n)
  BY DEF n
<1>11. Adjoint(m, out, d, n)
  BY <1>0, <1>5, <1>7, <1>8, <1>9, <1>10, GatheredAdjoint DEF x
<1>. QED
  BY <1>11 DEF n

\* A sum over what comes first and what comes after it.
LEMMA TotalSplit ==
  ASSUME NEW a \in Nat, NEW b \in Nat, NEW f, Ints(f, a + b), NEW g,
         \A k \in 1 .. b : g[k] = f[a + k]
  PROVE  Tensor!Total(f, a + b) = Tensor!Total(f, a) + Tensor!Total(g, b)
<1> DEFINE n == a + b
           S == {k \in Nat : k <= b => Tensor!Total(f, a + k) = Tensor!Total(f, a) + Tensor!Total(g, k)}
<1>0. n \in Nat /\ Ints(f, n)
  OBVIOUS
<1>1. Ints(f, a) /\ Ints(g, b)
  BY DEF Ints
<1>2. Tensor!Total(f, a) \in Int
  BY <1>1, TotalInt
<1> HIDE DEF n
<1>3. 0 \in S
  <2>1. Tensor!Total(g, 0) = 0 /\ a + 0 = a
    BY <1>1, TotalStep
  <2>. QED
    BY <1>2, <2>1
<1>4. ASSUME NEW k \in S PROVE k + 1 \in S
  <2>1. k \in Nat /\ (k + 1) - 1 = k
    OBVIOUS
  <2>2. ASSUME k + 1 <= b
        PROVE Tensor!Total(f, a + (k + 1)) = Tensor!Total(f, a) + Tensor!Total(g, k + 1)
    <3> DEFINE q == a + (k + 1)
    <3>1. k + 1 \in 1 .. b /\ q - 1 = a + k /\ q \in 1 .. n
      BY <2>1, <2>2 DEF n
    <3>2. Tensor!Total(f, a + k) = Tensor!Total(f, a) + Tensor!Total(g, k)
      BY <2>1, <2>2
    <3>3. Tensor!Total(g, k + 1) = Tensor!Total(g, k) + g[k + 1] /\ Tensor!Total(g, k) \in Int
      BY <1>1, <2>1, <3>1, TotalStep
    <3>4. g[k + 1] = f[q]
      BY <3>1
    <3> HIDE DEF q, S
    <3>5. Tensor!Total(f, q) = Tensor!Total(f, q - 1) + f[q]
      BY <1>0, <3>1, TotalStep
    <3>6. f[q] \in Int
      BY <1>0, <3>1 DEF Ints
    <3>7. Tensor!Total(f, q) = Tensor!Total(f, a) + Tensor!Total(g, k + 1)
      BY <1>2, <3>1, <3>2, <3>3, <3>4, <3>5, <3>6
    <3>. QED
      BY <3>7 DEF q
  <2>. QED
    BY <2>1, <2>2
<1>5. S = Nat
  <2>1. S \subseteq Nat
    OBVIOUS
  <2> HIDE DEF S
  <2>. QED
    BY <1>3, <1>4, <2>1, InductiveSet
<1>. QED
  BY <1>5

\* cat: what one operand gives comes before what the other gives.
LEMMA CatAdjoint ==
  ASSUME NEW m, Remembered(m), m.op = "cat", NEW d, Changes(m, d),
         NEW out \in Vec(Size(m.seen[1]) + Size(m.seen[2]))
  PROVE  Adjoint(m, out, d, Size(m.seen[1]) + Size(m.seen[2]))
<1> DEFINE na == Size(m.seen[1])
           nb == Size(m.seen[2])
           n == na + nb
           x == d[1]
           y == d[2]
           t == Tensor!Tangent(m, d)
           a == Tensor!Back(m, out)[1]
           b == Tensor!Back(m, out)[2]
<1>0. m.op \in Tensor!Binary
  BY DEF Tensor!Binary
<1>1. /\ Operands(m) = 2 /\ DOMAIN m.seen = 1 .. 2
      /\ \A p \in 1 .. 2 : /\ Whole(m.seen[p]) /\ d[p] \in Vec(Size(m.seen[p]))
                           /\ Size(m.seen[p]) \in Positive
                           /\ m.seen[p].data \in Vec(Size(m.seen[p]))
  BY <1>0, TwoOperands
<1>2. x \in Vec(na) /\ y \in Vec(nb) /\ na \in Nat /\ nb \in Nat
      /\ m.seen[1].data \in Vec(na) /\ m.seen[2].data \in Vec(nb)
  BY <1>1 DEF Positive
<1>3. t = x \o y
  <2> DEFINE q == [p \in DOMAIN m.seen |-> [shape |-> m.seen[p].shape, data |-> d[p]]]
  <2>1. t = Tensor!Apply(m.op, q, m.arg).data
    BY DEF Tensor!Tangent
  <2>2. q[1].data = x /\ q[2].data = y
    BY <1>1
  <2> HIDE DEF q, t, x, y
  <2>. QED
    BY <2>1, <2>2 DEF Tensor!Apply, Tensor!Cat
<1>4. /\ a = [k \in DOMAIN m.seen[1].data |-> IF 0 + k \in DOMAIN out THEN out[0 + k] ELSE 0]
      /\ b = [k \in DOMAIN m.seen[2].data |->
                IF Len(m.seen[1].data) + k \in DOMAIN out THEN out[Len(m.seen[1].data) + k] ELSE 0]
  BY DEF Tensor!Back, Tensor!CatBack
<1>5. DOMAIN m.seen[1].data = 1 .. na /\ Len(m.seen[1].data) = na /\ DOMAIN m.seen[2].data = 1 .. nb
  <2>1. m.seen[1].data = [k \in 1 .. na |-> m.seen[1].data[k]]
    BY <1>2 DEF Vec
  <2>. QED
    BY <1>2, <2>1, SequenceOf DEF Vec
<1>6. x \in Seq(Int) /\ y \in Seq(Int) /\ Len(x) = na /\ Len(y) = nb
  <2>1. x = [k \in 1 .. na |-> x[k]] /\ y = [k \in 1 .. nb |-> y[k]]
    BY <1>2 DEF Vec
  <2>2. Len(x) = na /\ Len(y) = nb
    BY <1>2, <2>1, SequenceOf
  <2>3. \A k \in Nat : \A v \in [1 .. k -> Int] : v \in Seq(Int)
    BY SeqDef
  <2>. QED
    BY <1>2, <2>2, <2>3 DEF Vec
<1>7. n \in Nat /\ out \in Vec(n)
  BY <1>2
<1>a. DOMAIN out = 1 .. n /\ \A k \in 1 .. n : out[k] \in Int
  BY <1>7 DEF Vec
<1>b. na \in Nat /\ nb \in Nat
  BY <1>2
<1> HIDE DEF na, nb, x, y, t, a, b
<1>8. /\ t \in Vec(n) /\ \A k \in 1 .. na : t[k] = x[k]
      /\ \A k \in 1 .. nb : t[na + k] = y[k]
  <2>1. t \in Seq(Int) /\ Len(t) = n /\ \A i \in 1 .. n : t[i] = IF i <= na THEN x[i] ELSE y[i - na]
    BY <1>3, <1>6, ConcatProperties
  <2>2. t \in Vec(n)
    BY <2>1, LenProperties, ElementOfSeq DEF Vec
  <2>3. ASSUME NEW k \in 1 .. nb PROVE t[na + k] = y[k]
    <3>1. na + k \in 1 .. n /\ ~(na + k <= na) /\ (na + k) - na = k
      BY <1>2
    <3>. QED
      BY <2>1, <3>1
  <2>4. ASSUME NEW k \in 1 .. na PROVE t[k] = x[k]
    <3>1. k \in 1 .. n /\ k <= na
      BY <1>2
    <3>. QED
      BY <2>1, <3>1
  <2>. QED
    BY <2>2, <2>3, <2>4
<1>9. a \in Vec(na) /\ \A k \in 1 .. na : a[k] = out[k]
  <2>1. \A k \in 1 .. na : 0 + k = k /\ k \in DOMAIN out /\ out[k] \in Int
    BY <1>a, <1>b
  <2>. QED
    BY <1>4, <1>5, <2>1 DEF Vec
<1>10. b \in Vec(nb) /\ \A k \in 1 .. nb : b[k] = out[na + k]
  <2>1. \A k \in 1 .. nb : na + k \in DOMAIN out /\ out[na + k] \in Int
    BY <1>a, <1>b
  <2>. QED
    BY <1>4, <1>5, <2>1 DEF Vec
<1> DEFINE f == [k \in 1 .. n |-> out[k] * t[k]]
           g == [k \in 1 .. nb |-> b[k] * y[k]]
           h == [k \in 1 .. na |-> a[k] * x[k]]
<1>11. Ints(f, n) /\ Dot(out, t, n) = Tensor!Total(f, n)
  <2>1. \A k \in 1 .. n : f[k] = out[k] * t[k]
    OBVIOUS
  <2> HIDE DEF f
  <2>. QED
    BY <1>7, <1>8, <2>1, DotIs
<1>12. Ints(g, nb) /\ Dot(b, y, nb) = Tensor!Total(g, nb)
  <2>1. \A k \in 1 .. nb : g[k] = b[k] * y[k]
    OBVIOUS
  <2> HIDE DEF g
  <2>. QED
    BY <1>2, <1>10, <2>1, DotIs DEF x, y, na, nb
<1>13. Ints(h, na) /\ Dot(a, x, na) = Tensor!Total(h, na)
  <2>1. \A k \in 1 .. na : h[k] = a[k] * x[k]
    OBVIOUS
  <2> HIDE DEF h
  <2>. QED
    BY <1>2, <1>9, <2>1, DotIs DEF x, y, na, nb
<1>14. \A k \in 1 .. nb : g[k] = f[na + k]
  <2>1. \A k \in 1 .. nb : na + k \in 1 .. n
    BY <1>2
  <2>. QED
    BY <1>8, <1>10, <2>1
<1>15. \A k \in 1 .. na : f[k] = h[k]
  <2>1. \A k \in 1 .. na : k \in 1 .. n
    BY <1>2
  <2>. QED
    BY <1>8, <1>9, <2>1
<1> HIDE DEF f, g, h
<1>16. Tensor!Total(f, na) = Tensor!Total(h, na)
  BY <1>2, <1>13, <1>15, TotalSame
<1>17. Tensor!Total(f, n) = Tensor!Total(f, na) + Tensor!Total(g, nb)
  BY <1>2, <1>11, <1>14, TotalSplit
<1>18. Dot(out, t, n) = Dot(a, x, na) + Dot(b, y, nb)
  BY <1>11, <1>12, <1>13, <1>16, <1>17
<1>19. ASSUME NEW p \in 1 .. Operands(m) PROVE Tensor!Back(m, out)[p] \in Vec(Size(m.seen[p]))
  <2>1. p = 1 \/ p = 2
    BY <1>1
  <2>. QED
    BY <1>9, <1>10, <2>1 DEF a, b, na, nb
<1>. QED
  BY <1>1, <1>8, <1>18, <1>19 DEF Adjoint, t, a, b, x, y, na, nb

\* u[k] is what part[k] is worth where it is sent to, one of N elements.
Sends(to, part, x, u, n, N) ==
  /\ Ints(part, n) /\ part = [k \in 1 .. n |-> part[k]] /\ x \in Vec(N)
  /\ \A k \in 1 .. n : to[k] \in 1 .. N /\ u[k] = part[k] * x[to[k]]

LEMMA GatheredDot ==
  ASSUME NEW n \in Nat, NEW N \in Nat, NEW to, NEW part, NEW x, NEW u,
         Sends(to, part, x, u, n, N)
  PROVE  /\ Tensor!Gathered(N, to, part) \in Vec(N) /\ Ints(u, n)
         /\ Dot(Tensor!Gathered(N, to, part), x, N) = Tensor!Total(u, n)
<1>0. /\ Ints(part, n) /\ part = [k \in 1 .. n |-> part[k]] /\ x \in Vec(N)
      /\ \A k \in 1 .. n : to[k] \in 1 .. N /\ u[k] = part[k] * x[to[k]]
  BY DEF Sends
<1> DEFINE b == Tensor!Gathered(N, to, part)
           w == [k \in 1 .. N |-> b[k] * x[k]]
<1>1. b \in Vec(N) /\ b = Tensor!Gathered(N, to, part)
  BY <1>0, GatheredVec
<1>2. Ints(x, N)
  BY <1>0 DEF Vec, Ints
<1>3. \A k \in 1 .. N : w[k] = b[k] * x[k]
  OBVIOUS
<1> HIDE DEF w, b
<1>4. Dot(b, x, N) = Tensor!Total(w, N)
  BY <1>0, <1>1, <1>3, DotIs
<1>5. Weighed(to, part, x, b, w, u, n, N)
  BY <1>0, <1>1, <1>2, <1>3 DEF Weighed
<1>6. Tensor!Total(w, N) = Tensor!Total(u, n)
  BY <1>5, TotalGathered
<1>7. Ints(u, n)
  BY <1>0, <1>2 DEF Ints
<1>. QED
  BY <1>1, <1>4, <1>6, <1>7

LEMMA BroadcastIsShape ==
  ASSUME NEW s \in Shape, NEW t \in Shape
  PROVE  /\ Tensor!BroadcastShape(s, t) \in Shape
         /\ Len(s) <= Len(Tensor!BroadcastShape(s, t))
         /\ Len(t) <= Len(Tensor!BroadcastShape(s, t))
<1> DEFINE r == Tensor!Rank(s, t)
           b == Tensor!BroadcastShape(s, t)
<1>1. Len(s) \in Nat /\ Len(t) \in Nat
  BY StrideStep
<1>2. r \in Nat /\ Len(s) <= r /\ Len(t) <= r
  BY <1>1 DEF Tensor!Rank
<1>3. ASSUME NEW z \in Shape, NEW i \in Nat PROVE Tensor!Dim(z, i) \in Positive
  <2>1. Len(z) \in Nat /\ \A d \in 1 .. Len(z) : z[d] \in Positive
    BY StrideStep
  <2>. QED
    BY <2>1 DEF Tensor!Dim, Positive
<1>4. ASSUME NEW j \in 1 .. r
      PROVE  (LET i == r - j IN IF Tensor!Dim(s, i) = 1 THEN Tensor!Dim(t, i) ELSE Tensor!Dim(s, i)) \in Positive
  <2>1. r - j \in Nat
    BY <1>2
  <2>. QED
    BY <1>3, <2>1
<1>5. b = [j \in 1 .. r |-> LET i == r - j IN IF Tensor!Dim(s, i) = 1 THEN Tensor!Dim(t, i) ELSE Tensor!Dim(s, i)]
  BY DEF Tensor!BroadcastShape
<1> HIDE DEF b, r
<1>6. b \in [1 .. r -> Positive] /\ b = [j \in 1 .. r |-> b[j]]
  BY <1>4, <1>5
<1>7. Len(b) = r
  BY <1>2, <1>6, SequenceOf
<1>8. \A k \in Nat : \A v \in [1 .. k -> Positive] : v \in Seq(Positive)
  BY SeqDef
<1>9. b \in Shape
  BY <1>2, <1>6, <1>8 DEF Shape
<1>. QED
  BY <1>2, <1>7, <1>9 DEF b

\* Where element k of the result comes from, in operand p.
ResultShape(m) == Tensor!BroadcastShape(m.seen[1].shape, m.seen[2].shape)
From(m, p, k) == Tensor!Spread(m.seen[p].shape, ResultShape(m), k - 1)
PartialAt(m, p, k) ==
  Tensor!Partial(m.op, p, Tensor!At(m.seen[1].data, From(m, 1, k)),
                          Tensor!At(m.seen[2].data, From(m, 2, k)))

Leading(m) ==
  \A p \in {1, 2} : \A i \in 0 .. Tensor!Numel(ResultShape(m)) - 1 :
    Tensor!Spread(m.seen[p].shape, ResultShape(m), i) = i % Size(m.seen[p])

LEMMA ElementWiseTangent ==
  ASSUME NEW m, Remembered(m), m.op \in {"add", "sub", "mul"}, NEW d, Changes(m, d),
         NEW n, n = Tensor!Numel(ResultShape(m)),
         \A k \in 1 .. n : /\ d[1][From(m, 1, k) + 1] \in Int
                           /\ d[2][From(m, 2, k) + 1] \in Int
                           /\ m.seen[1].data[From(m, 1, k) + 1] \in Int
                           /\ m.seen[2].data[From(m, 2, k) + 1] \in Int
  PROVE  /\ Tensor!Tangent(m, d) = [k \in 1 .. n |-> Tensor!Tangent(m, d)[k]]
         /\ \A k \in 1 .. n :
              /\ PartialAt(m, 1, k) \in Int /\ PartialAt(m, 2, k) \in Int
              /\ Tensor!Tangent(m, d)[k] \in Int
              /\ Tensor!Tangent(m, d)[k] = PartialAt(m, 1, k) * d[1][From(m, 1, k) + 1]
                                             + PartialAt(m, 2, k) * d[2][From(m, 2, k) + 1]
<1> DEFINE t == Tensor!Tangent(m, d)
           A(k) == m.seen[1].data[From(m, 1, k) + 1]
           B(k) == m.seen[2].data[From(m, 2, k) + 1]
           X(k) == d[1][From(m, 1, k) + 1]
           Y(k) == d[2][From(m, 2, k) + 1]
           sa == m.seen[1].shape
           sb == m.seen[2].shape
<1>0. DOMAIN m.seen = 1 .. 2
  <2>1. m.op \in Tensor!Binary
    BY DEF Tensor!Binary
  <2>. QED
    BY <2>1, TwoOperands
<1>1. ASSUME NEW f, NEW a, NEW b, a.shape = sa, b.shape = sb
      PROVE  Tensor!ElementWise(f, a, b).data =
               [k \in 1 .. n |-> Tensor!Scalar(f, a.data[From(m, 1, k) + 1], b.data[From(m, 2, k) + 1])]
  BY <1>1 DEF Tensor!ElementWise, Tensor!At, From, ResultShape
<1>p. \A k \in 1 .. n : PartialAt(m, 1, k) = Tensor!Partial(m.op, 1, A(k), B(k))
                        /\ PartialAt(m, 2, k) = Tensor!Partial(m.op, 2, A(k), B(k))
  BY DEF PartialAt, Tensor!At
<1>i. \A k \in 1 .. n : A(k) \in Int /\ B(k) \in Int /\ X(k) \in Int /\ Y(k) \in Int
  OBVIOUS
<1>2. CASE m.op \in {"add", "sub"}
  <2> DEFINE q == [p \in DOMAIN m.seen |-> [shape |-> m.seen[p].shape, data |-> d[p]]]
  <2>1. t = Tensor!Apply(m.op, q, m.arg).data
    BY <1>2 DEF Tensor!Tangent
  <2>2. q[1].data = d[1] /\ q[2].data = d[2] /\ q[1].shape = sa /\ q[2].shape = sb
    BY <1>0
  <2> HIDE DEF q, t
  <2>3. t = Tensor!ElementWise(m.op, q[1], q[2]).data
    BY <1>2, <2>1 DEF Tensor!Apply
  <2>4. t = [k \in 1 .. n |-> Tensor!Scalar(m.op, X(k), Y(k))]
    BY <1>1, <2>2, <2>3
  <2>5. \A k \in 1 .. n : t[k] = IF m.op = "add" THEN X(k) + Y(k) ELSE X(k) - Y(k)
    BY <1>2, <2>4 DEF Tensor!Scalar
  <2>6. \A k \in 1 .. n : /\ PartialAt(m, 1, k) = 1
                          /\ PartialAt(m, 2, k) = IF m.op = "add" THEN 1 ELSE -1
    BY <1>2, <1>p DEF Tensor!Partial
  <2> HIDE DEF X, Y, A, B
  <2>7. \A k \in 1 .. n :
              /\ PartialAt(m, 1, k) \in Int /\ PartialAt(m, 2, k) \in Int /\ t[k] \in Int
              /\ t[k] = PartialAt(m, 1, k) * X(k) + PartialAt(m, 2, k) * Y(k)
    BY <1>i, <1>2, <2>5, <2>6
  <2>. QED
    BY <2>4, <2>7 DEF X, Y, t
<1>3. CASE m.op = "mul"
  <2> DEFINE x == [shape |-> sa, data |-> d[1]]
             y == [shape |-> sb, data |-> d[2]]
             v == Tensor!Apply(m.op, <<x, m.seen[2]>>, m.arg).data
             w == Tensor!Apply(m.op, <<m.seen[1], y>>, m.arg).data
  <2>1. t = Tensor!Plus(v, w)
    BY <1>3 DEF Tensor!Tangent
  <2>2. v = Tensor!ElementWise(m.op, x, m.seen[2]).data /\ w = Tensor!ElementWise(m.op, m.seen[1], y).data
    BY <1>3 DEF Tensor!Apply
  <2>3. x.shape = sa /\ x.data = d[1] /\ y.shape = sb /\ y.data = d[2]
    OBVIOUS
  <2> HIDE DEF x, y, v, w, t
  <2>4. v = [k \in 1 .. n |-> Tensor!Scalar(m.op, X(k), B(k))]
    BY <1>1, <2>2, <2>3
  <2>5. w = [k \in 1 .. n |-> Tensor!Scalar(m.op, A(k), Y(k))]
    BY <1>1, <2>2, <2>3
  <2>6. t = [k \in 1 .. n |-> v[k] + w[k]]
    BY <2>1, <2>4 DEF Tensor!Plus
  <2>7. \A k \in 1 .. n : v[k] = X(k) * B(k) /\ w[k] = A(k) * Y(k)
    BY <1>3, <2>4, <2>5 DEF Tensor!Scalar
  <2>8. \A k \in 1 .. n : PartialAt(m, 1, k) = B(k) /\ PartialAt(m, 2, k) = A(k)
    BY <1>3, <1>p DEF Tensor!Partial
  <2> HIDE DEF X, Y, A, B
  <2>9. ASSUME NEW k \in 1 .. n
        PROVE /\ PartialAt(m, 1, k) \in Int /\ PartialAt(m, 2, k) \in Int /\ t[k] \in Int
              /\ t[k] = PartialAt(m, 1, k) * X(k) + PartialAt(m, 2, k) * Y(k)
    <3>1. t[k] = X(k) * B(k) + A(k) * Y(k)
      BY <2>6, <2>7
    <3>2. A(k) \in Int /\ B(k) \in Int /\ X(k) \in Int /\ Y(k) \in Int
      BY <1>i
    <3>. QED
      BY <2>8, <3>1, <3>2
  <2>. QED
    BY <2>6, <2>9 DEF X, Y, t
<1>. QED
  BY <1>2, <1>3

LEMMA ElementWiseAdjoint ==
  ASSUME NEW m, Remembered(m), m.op \in {"add", "sub", "mul"}, NEW d, Changes(m, d),
         Leading(m), NEW out \in Vec(Tensor!Numel(ResultShape(m)))
  PROVE  Adjoint(m, out, d, Tensor!Numel(ResultShape(m)))
<1> DEFINE n == Tensor!Numel(ResultShape(m))
           N(p) == Size(m.seen[p])
           t == Tensor!Tangent(m, d)
           to == [p \in 1 .. 2 |-> [k \in 1 .. n |-> 1 + ((k - 1) % N(p))]]
           part == [p \in 1 .. 2 |-> [k \in 1 .. n |-> out[k] * PartialAt(m, p, k)]]
           u == [p \in 1 .. 2 |-> [k \in 1 .. n |-> part[p][k] * d[p][to[p][k]]]]
           b(p) == Tensor!Back(m, out)[p]
<1>0. /\ Operands(m) = 2
      /\ \A p \in 1 .. 2 : /\ d[p] \in Vec(N(p)) /\ N(p) \in Positive
                           /\ m.seen[p].data \in Vec(N(p)) /\ m.seen[p].shape \in Shape
  <2>1. m.op \in Tensor!Binary
    BY DEF Tensor!Binary
  <2>. QED
    BY <2>1, TwoOperands
<1>1. n \in Nat
  <2>1. ResultShape(m) \in Shape
    BY <1>0, BroadcastIsShape DEF ResultShape
  <2>. QED
    BY <2>1, NumelPositive DEF Positive
<1>2. ASSUME NEW p \in 1 .. 2, NEW k \in 1 .. n
      PROVE  to[p][k] \in 1 .. N(p) /\ From(m, p, k) + 1 = to[p][k]
  <2>1. k - 1 \in 0 .. n - 1 /\ k - 1 \in Nat /\ p \in {1, 2}
    BY <1>1
  <2>2. From(m, p, k) = (k - 1) % N(p)
    BY <2>1 DEF Leading, From
  <2>3. N(p) \in Positive
    BY <1>0
  <2>4. (k - 1) % N(p) \in 0 .. N(p) - 1
    BY <2>1, <2>3, DivModOf DEF Positive
  <2>5. to[p][k] = 1 + ((k - 1) % N(p))
    OBVIOUS
  <2> HIDE DEF to, N
  <2>. QED
    BY <2>2, <2>3, <2>4, <2>5 DEF Positive
<1>a. \A p \in 1 .. 2 : \A k \in 1 .. n : part[p][k] = out[k] * PartialAt(m, p, k)
                                        /\ u[p][k] = part[p][k] * d[p][to[p][k]]
  OBVIOUS
<1>b. \A p \in 1 .. 2 : part[p] = [k \in 1 .. n |-> part[p][k]]
  OBVIOUS
<1>c. \A k \in 1 .. n : out[k] \in Int
  BY DEF Vec
<1>3. \A p \in 1 .. 2 : b(p) = Tensor!Gathered(N(p), to[p], part[p])
  <2>1. DOMAIN out = 1 .. n
    BY DEF Vec
  <2>2. b(1) = Tensor!Gathered(N(1), to[1], part[1]) /\ b(2) = Tensor!Gathered(N(2), to[2], part[2])
    BY <2>1 DEF Tensor!Back, Tensor!ElementWiseBack, PartialAt, From, ResultShape, Size
  <2> HIDE DEF b, N, to, part
  <2>. QED
    BY <2>2
<1>n. out \in Vec(n) /\ n = Tensor!Numel(ResultShape(m))
  OBVIOUS
<1>d. \A p \in 1 .. 2 : N(p) \in Nat
  BY <1>0 DEF Positive
<1> HIDE DEF to, part, u, N, n, t, b
<1>4. \A k \in 1 .. n : /\ d[1][From(m, 1, k) + 1] \in Int
                        /\ d[2][From(m, 2, k) + 1] \in Int
                        /\ m.seen[1].data[From(m, 1, k) + 1] \in Int
                        /\ m.seen[2].data[From(m, 2, k) + 1] \in Int
  <2>1. \A p \in 1 .. 2 : \A k \in 1 .. n :
          From(m, p, k) + 1 \in 1 .. N(p)
    BY <1>2
  <2>2. \A p \in 1 .. 2 : \A i \in 1 .. N(p) : d[p][i] \in Int /\ m.seen[p].data[i] \in Int
    BY <1>0 DEF Vec
  <2>3. \A k \in 1 .. n : From(m, 1, k) + 1 \in 1 .. N(1) /\ From(m, 2, k) + 1 \in 1 .. N(2)
    BY <2>1
  <2>4. /\ \A i \in 1 .. N(1) : d[1][i] \in Int /\ m.seen[1].data[i] \in Int
        /\ \A i \in 1 .. N(2) : d[2][i] \in Int /\ m.seen[2].data[i] \in Int
    BY <2>2
  <2>. QED
    BY <2>3, <2>4
<1>5. /\ t = [k \in 1 .. n |-> t[k]]
      /\ \A k \in 1 .. n : /\ PartialAt(m, 1, k) \in Int /\ PartialAt(m, 2, k) \in Int
                           /\ t[k] \in Int
                           /\ t[k] = PartialAt(m, 1, k) * d[1][From(m, 1, k) + 1]
                                       + PartialAt(m, 2, k) * d[2][From(m, 2, k) + 1]
  BY <1>n, <1>4, ElementWiseTangent DEF t
<1>6. t \in Vec(n)
  BY <1>5 DEF Vec
<1>7. \A p \in 1 .. 2 : Ints(part[p], n)
  <2>1. \A p \in 1 .. 2 : p = 1 \/ p = 2
    OBVIOUS
  <2>. QED
    BY <1>a, <1>c, <1>5, <2>1 DEF Ints
<1>8. ASSUME NEW p \in 1 .. 2
      PROVE b(p) \in Vec(N(p)) /\ Ints(u[p], n) /\ Dot(b(p), d[p], N(p)) = Tensor!Total(u[p], n)
  <2>1. /\ Ints(part[p], n) /\ part[p] = [k \in 1 .. n |-> part[p][k]] /\ d[p] \in Vec(N(p))
        /\ b(p) = Tensor!Gathered(N(p), to[p], part[p]) /\ N(p) \in Nat
    BY <1>0, <1>3, <1>7, <1>b, <1>d
  <2>2. \A k \in 1 .. n : to[p][k] \in 1 .. N(p) /\ u[p][k] = part[p][k] * d[p][to[p][k]]
    BY <1>2, <1>a
  <2> DEFINE tp == to[p]
             pp == part[p]
             up == u[p]
             dp == d[p]
             Np == N(p)
  <2>3. /\ Ints(pp, n) /\ pp = [k \in 1 .. n |-> pp[k]] /\ dp \in Vec(Np) /\ Np \in Nat
        /\ \A k \in 1 .. n : tp[k] \in 1 .. Np /\ up[k] = pp[k] * dp[tp[k]]
        /\ b(p) = Tensor!Gathered(Np, tp, pp)
    BY <2>1, <2>2
  <2> HIDE DEF tp, pp, up, dp, Np
  <2>5. Sends(tp, pp, dp, up, n, Np)
    BY <2>3 DEF Sends
  <2>4. /\ Tensor!Gathered(Np, tp, pp) \in Vec(Np) /\ Ints(up, n)
        /\ Dot(Tensor!Gathered(Np, tp, pp), dp, Np) = Tensor!Total(up, n)
    BY <1>1, <2>3, <2>5, GatheredDot
  <2>. QED
    BY <2>3, <2>4 DEF tp, pp, up, dp, Np
<1> DEFINE f == [k \in 1 .. n |-> out[k] * t[k]]
<1>9. \A k \in 1 .. n : f[k] = out[k] * t[k]
  OBVIOUS
<1> HIDE DEF f
<1>10. Dot(out, t, n) = Tensor!Total(f, n)
  BY <1>1, <1>6, <1>9, <1>n, DotIs
<1>11. ASSUME NEW k \in 1 .. n PROVE f[k] = u[1][k] + u[2][k]
  <2> DEFINE P == PartialAt(m, 1, k)
             Q == PartialAt(m, 2, k)
             x == d[1][to[1][k]]
             y == d[2][to[2][k]]
             o == out[k]
  <2>1. From(m, 1, k) + 1 = to[1][k] /\ From(m, 2, k) + 1 = to[2][k]
    BY <1>2
  <2>2. P \in Int /\ Q \in Int /\ o \in Int
    BY <1>5, <1>c
  <2>3. x \in Int /\ y \in Int
    BY <1>4, <2>1
  <2>4. t[k] = P * x + Q * y
    BY <1>5, <2>1
  <2>5. u[1][k] = (o * P) * x /\ u[2][k] = (o * Q) * y
    BY <1>a
  <2>6. f[k] = o * t[k]
    BY <1>9
  <2> HIDE DEF P, Q, x, y, o
  <2>7. o * (P * x + Q * y) = (o * P) * x + (o * Q) * y
    BY <2>2, <2>3
  <2>. QED
    BY <2>4, <2>5, <2>6, <2>7
<1>12. Tensor!Total(f, n) = Tensor!Total(u[1], n) + Tensor!Total(u[2], n)
  <2>1. Ints(u[1], n) /\ Ints(u[2], n)
    BY <1>8
  <2>. QED
    BY <1>1, <1>11, <2>1, TotalPlus
<1>13. Dot(out, t, n) = Dot(b(1), d[1], N(1)) + Dot(b(2), d[2], N(2))
  BY <1>8, <1>10, <1>12
<1>14. \A p \in 1 .. Operands(m) : b(p) \in Vec(N(p))
  BY <1>0, <1>8
<1>. QED
  BY <1>0, <1>6, <1>13, <1>14 DEF Adjoint, b, N, t, n

\* f has the R rows of b, of L elements each, one behind the other; s are
\* the sums of the rows.
Rows(f, b, s, R, L) ==
  \A r \in 1 .. R : /\ Ints(b[r], L) /\ s[r] = Tensor!Total(b[r], L)
                    /\ \A c \in 1 .. L : f[(r - 1) * L + c] = b[r][c]

LEMMA CellOf ==
  ASSUME NEW R \in Nat, NEW L \in Positive, NEW k \in 1 .. R * L
  PROVE  /\ (k - 1) \div L \in Nat /\ ((k - 1) \div L) + 1 \in 1 .. R /\ ((k - 1) % L) + 1 \in 1 .. L
         /\ k = ((k - 1) \div L) * L + (((k - 1) % L) + 1)
<1> DEFINE i == k - 1
           N == R * L
           q == i \div L
           x == i % L
<1>0. N \in Nat
  BY DEF Positive
<1>1. i \in 0 .. N - 1
  BY <1>0
<1>2. q \in 0 .. R - 1 /\ x \in 0 .. L - 1
  BY <1>1, BlockOf DEF Positive
<1>3. i \in Nat
  BY <1>0, <1>1
<1>4. i = q * L + x
  BY <1>3, DivModOf DEF Positive
<1>5. k = i + 1
  BY <1>0
<1> HIDE DEF q, x, i
<1> DEFINE z == q * L
<1>6. z \in Nat /\ i = z + x
  BY <1>2, <1>4 DEF Positive
<1> HIDE DEF z
<1>7. k = z + (x + 1) /\ q \in Nat /\ q + 1 \in 1 .. R /\ x + 1 \in 1 .. L
  BY <1>2, <1>3, <1>5, <1>6 DEF Positive
<1>. QED
  BY <1>7 DEF z, q, x, i

LEMMA CellIs ==
  ASSUME NEW R \in Nat, NEW L \in Positive, NEW r \in 1 .. R, NEW c \in 1 .. L
  PROVE  /\ (r - 1) * L + c \in 1 .. R * L
         /\ ((r - 1) * L + c) - 1 = (r - 1) * L + c - 1
         /\ (((r - 1) * L + c) - 1) \div L = r - 1
         /\ (((r - 1) * L + c) - 1) % L = c - 1
<1> DEFINE z == (r - 1) * L
           N == R * L
           q == r - 1
           x == c - 1
<1>1. q \in 0 .. R - 1 /\ x \in 0 .. L - 1 /\ q \in Nat /\ L \in Nat \ {0}
  BY DEF Positive
<1>2. z = q * L
  OBVIOUS
<1>3. N \in Nat /\ z \in Nat
  BY <1>1
<1>4. q * L + x \in 0 .. N - 1
  BY <1>1, InBlock
<1>5. (q * L + x) \div L = q /\ (q * L + x) % L = x
  BY <1>1, DivModIs
<1> HIDE DEF z, N, q
<1>6. z + x \in 0 .. N - 1 /\ (z + x) \div L = q /\ (z + x) % L = x
  BY <1>2, <1>4, <1>5
<1>7. (z + c) - 1 = z + x /\ z + c - 1 = z + x
  BY <1>3
<1>8. z + c \in 1 .. N
  BY <1>3, <1>6
<1>9. /\ z + c \in 1 .. N /\ (z + c) - 1 = z + c - 1
      /\ ((z + c) - 1) \div L = q /\ ((z + c) - 1) % L = c - 1
  BY <1>6, <1>7, <1>8
<1>. QED
  BY <1>9 DEF z, q, N

LEMMA TotalRows ==
  ASSUME NEW R \in Nat, NEW L \in Positive, NEW f, NEW b, NEW s, Rows(f, b, s, R, L)
  PROVE  Ints(f, R * L) /\ Tensor!Total(f, R * L) = Tensor!Total(s, R)
<1>0. \A r \in 1 .. R : /\ Ints(b[r], L) /\ s[r] = Tensor!Total(b[r], L)
                        /\ \A c \in 1 .. L : f[(r - 1) * L + c] = b[r][c]
  BY DEF Rows
<1>1. ASSUME NEW k \in 1 .. R * L PROVE f[k] \in Int
  <2> DEFINE q == (k - 1) \div L
             r == q + 1
             c == ((k - 1) % L) + 1
  <2>1. q \in Nat /\ r \in 1 .. R /\ c \in 1 .. L /\ k = q * L + c
    <3>1. /\ (k - 1) \div L \in Nat /\ ((k - 1) \div L) + 1 \in 1 .. R /\ ((k - 1) % L) + 1 \in 1 .. L
          /\ k = ((k - 1) \div L) * L + (((k - 1) % L) + 1)
      BY CellOf
    <3>. QED
      BY <3>1
  <2>2. q = r - 1
    <3> HIDE DEF q
    <3>. QED
      BY <2>1
  <2> HIDE DEF q, c
  <2>3. f[(r - 1) * L + c] = b[r][c] /\ b[r][c] \in Int
    BY <1>0, <2>1 DEF Ints
  <2> HIDE DEF r
  <2>. QED
    BY <2>1, <2>2, <2>3
<1>2. Ints(f, R * L)
  BY <1>1 DEF Ints
<1>3. Blocks(f, b, s, R, L)
  BY <1>0, <1>2 DEF Blocks
<1>4. L \in Nat
  BY DEF Positive
<1>. QED
  BY <1>2, <1>3, <1>4, TotalBlocks

\* The sums of a cube along each of its three directions, and theirs.
Cube(h, inn, cl, rw, R, N, L) ==
  /\ \A r \in 1 .. R : \A j \in 1 .. N : /\ Ints(h[r][j], L)
                                         /\ cl[r][j] = Tensor!Total(h[r][j], L)
  /\ \A r \in 1 .. R : \A c \in 1 .. L :
       inn[r][c] = Tensor!Total([j \in 1 .. N |-> h[r][j][c]], N)
  /\ \A j \in 1 .. N : \A c \in 1 .. L :
       rw[j][c] = Tensor!Total([r \in 1 .. R |-> h[r][j][c]], R)

Sides(inn, cl, rw, s, u, w, R, N, L) ==
  /\ \A r \in 1 .. R : s[r] = Tensor!Total(inn[r], L) /\ u[r] = Tensor!Total(cl[r], N)
  /\ \A j \in 1 .. N : w[j] = Tensor!Total(rw[j], L)

LEMMA CubeSums ==
  ASSUME NEW R \in Nat, NEW N \in Nat, NEW L \in Nat, NEW h, NEW inn, NEW cl, NEW rw,
         NEW s, NEW u, NEW w, Cube(h, inn, cl, rw, R, N, L), Sides(inn, cl, rw, s, u, w, R, N, L)
  PROVE  /\ \A r \in 1 .. R : Ints(inn[r], L) /\ Ints(cl[r], N)
         /\ \A j \in 1 .. N : Ints(rw[j], L)
         /\ Tensor!Total(s, R) = Tensor!Total(u, R)
         /\ Tensor!Total(s, R) = Tensor!Total(w, N)
<1>0. /\ \A r \in 1 .. R : \A j \in 1 .. N : Ints(h[r][j], L) /\ cl[r][j] = Tensor!Total(h[r][j], L)
      /\ \A r \in 1 .. R : \A c \in 1 .. L :
           inn[r][c] = Tensor!Total([j \in 1 .. N |-> h[r][j][c]], N)
      /\ \A j \in 1 .. N : \A c \in 1 .. L :
           rw[j][c] = Tensor!Total([r \in 1 .. R |-> h[r][j][c]], R)
      /\ \A r \in 1 .. R : s[r] = Tensor!Total(inn[r], L) /\ u[r] = Tensor!Total(cl[r], N)
      /\ \A j \in 1 .. N : w[j] = Tensor!Total(rw[j], L)
  BY DEF Cube, Sides
<1> DEFINE X == [r \in 1 .. R |-> [c \in 1 .. L |-> [j \in 1 .. N |-> h[r][j][c]]]]
           Y == [j \in 1 .. N |-> [c \in 1 .. L |-> [r \in 1 .. R |-> h[r][j][c]]]]
           Z == [j \in 1 .. N |-> [r \in 1 .. R |-> h[r][j]]]
           K == [j \in 1 .. N |-> [r \in 1 .. R |-> cl[r][j]]]
           p == [j \in 1 .. N |-> Tensor!Total(K[j], R)]
<1>1. \A r \in 1 .. R : \A c \in 1 .. L : /\ inn[r][c] = Tensor!Total(X[r][c], N)
                                         /\ \A j \in 1 .. N : X[r][c][j] = h[r][j][c]
  BY <1>0
<1>2. \A j \in 1 .. N : \A c \in 1 .. L : /\ rw[j][c] = Tensor!Total(Y[j][c], R)
                                         /\ \A r \in 1 .. R : Y[j][c][r] = h[r][j][c]
  BY <1>0
<1>3. \A j \in 1 .. N : \A r \in 1 .. R : Z[j][r] = h[r][j] /\ K[j][r] = cl[r][j]
  OBVIOUS
<1>4. \A j \in 1 .. N : p[j] = Tensor!Total(K[j], R)
  OBVIOUS
<1> HIDE DEF X, Y, Z, K, p
<1>5. ASSUME NEW r \in 1 .. R
      PROVE  Ints(inn[r], L) /\ Ints(cl[r], N) /\ s[r] = u[r] /\ u[r] \in Int
  <2>1. ASSUME NEW c \in 1 .. L PROVE Ints(X[r][c], N)
    <3>1. \A j \in 1 .. N : Ints(h[r][j], L) /\ X[r][c][j] = h[r][j][c]
      BY <1>0, <1>1
    <3>. QED
      BY <3>1 DEF Ints
  <2>2. Ints(inn[r], L)
    BY <1>1, <2>1, TotalInt DEF Ints
  <2>3. Ints(cl[r], N)
    <3>1. \A j \in 1 .. N : Ints(h[r][j], L) /\ cl[r][j] = Tensor!Total(h[r][j], L)
      BY <1>0
    <3>. QED
      BY <3>1, TotalInt DEF Ints
  <2> DEFINE hr == h[r]
             xr == X[r]
             cr == cl[r]
             ir == inn[r]
  <2>4. RowsAndColumns(hr, xr, cr, ir, N, L)
    BY <1>0, <1>1 DEF RowsAndColumns
  <2>5. s[r] = Tensor!Total(ir, L) /\ u[r] = Tensor!Total(cr, N)
    BY <1>0
  <2>6. Tensor!Total(cr, N) \in Int
    BY <2>3, TotalInt
  <2> HIDE DEF hr, xr, cr, ir
  <2>7. Tensor!Total(cr, N) = Tensor!Total(ir, L)
    BY <2>4, TotalSwap
  <2>. QED
    BY <2>2, <2>3, <2>5, <2>6, <2>7
<1>6. ASSUME NEW j \in 1 .. N PROVE Ints(rw[j], L) /\ p[j] = w[j]
  <2>1. ASSUME NEW c \in 1 .. L PROVE Ints(Y[j][c], R)
    <3>1. \A r \in 1 .. R : Ints(h[r][j], L) /\ Y[j][c][r] = h[r][j][c]
      BY <1>0, <1>2
    <3>. QED
      BY <3>1 DEF Ints
  <2>2. Ints(rw[j], L)
    BY <1>2, <2>1, TotalInt DEF Ints
  <2> DEFINE zj == Z[j]
             yj == Y[j]
             kj == K[j]
             rj == rw[j]
  <2>a. \A r \in 1 .. R : Ints(zj[r], L) /\ kj[r] = Tensor!Total(zj[r], L)
    BY <1>0, <1>3
  <2>b. \A c \in 1 .. L : /\ \A r \in 1 .. R : yj[c][r] = zj[r][c]
                          /\ rj[c] = Tensor!Total(yj[c], R)
    BY <1>2, <1>3
  <2>5. w[j] = Tensor!Total(rj, L) /\ p[j] = Tensor!Total(kj, R)
    BY <1>0, <1>4
  <2> HIDE DEF zj, yj, kj, rj
  <2>4. RowsAndColumns(zj, yj, kj, rj, R, L)
    BY <2>a, <2>b DEF RowsAndColumns
  <2>7. Tensor!Total(kj, R) = Tensor!Total(rj, L)
    BY <2>4, TotalSwap
  <2>. QED
    BY <2>2, <2>5, <2>7
<1>7. Tensor!Total(s, R) = Tensor!Total(u, R)
  <2>1. Ints(u, R)
    BY <1>5 DEF Ints
  <2>. QED
    BY <1>5, <2>1, TotalSame
<1>8. Tensor!Total(u, R) = Tensor!Total(p, N)
  <2>1. RowsAndColumns(cl, K, u, p, R, N)
    BY <1>3, <1>0, <1>4, <1>5 DEF RowsAndColumns
  <2>. QED
    BY <2>1, TotalSwap
<1>9. Tensor!Total(p, N) = Tensor!Total(w, N)
  <2>1. Ints(w, N)
    BY <1>0, <1>6, TotalInt DEF Ints
  <2>. QED
    BY <1>6, <2>1, TotalSame
<1>. QED
  BY <1>5, <1>6, <1>7, <1>8, <1>9

\* The place of a cell in rows of L.
Cell(r, c, L) == (r - 1) * L + c

\* v is the product of x and b; g that of o and b turned, e that of x turned
\* and o.
Inner(v, x, b, R, N, L) ==
  \A r \in 1 .. R : \A c \in 1 .. L :
    v[Cell(r, c, L)] = Tensor!Total([j \in 1 .. N |-> x[Cell(r, j, N)] * b[Cell(j, c, L)]], N)
Across(g, o, b, R, N, L) ==
  \A r \in 1 .. R : \A j \in 1 .. N :
    g[Cell(r, j, N)] = Tensor!Total([c \in 1 .. L |-> o[Cell(r, c, L)] * b[Cell(j, c, L)]], L)
Down(e, x, o, R, N, L) ==
  \A j \in 1 .. N : \A c \in 1 .. L :
    e[Cell(j, c, L)] = Tensor!Total([r \in 1 .. R |-> x[Cell(r, j, N)] * o[Cell(r, c, L)]], R)

\* w is t, weighed with a number.
LEMMA TotalTimes ==
  ASSUME NEW n \in Nat, NEW z \in Int, NEW t, NEW w, Ints(t, n),
         \A i \in 1 .. n : w[i] = z * t[i]
  PROVE  Ints(w, n) /\ Tensor!Total(w, n) = z * Tensor!Total(t, n)
<1>1. Ints(w, n)
  BY DEF Ints
<1>. QED
  BY <1>1, TotalScaled

LEMMA TripleProduct ==
  ASSUME NEW R \in Positive, NEW N \in Positive, NEW L \in Positive,
         NEW o \in Vec(R * L), NEW x \in Vec(R * N), NEW b \in Vec(N * L),
         NEW v \in Vec(R * L), Inner(v, x, b, R, N, L), NEW g, NEW e
  PROVE  /\ g \in Vec(R * N) /\ Across(g, o, b, R, N, L) => Dot(o, v, R * L) = Dot(g, x, R * N)
         /\ e \in Vec(N * L) /\ Down(e, x, o, R, N, L) => Dot(o, v, R * L) = Dot(e, b, N * L)
<1> DEFINE RL == R * L
           RN == R * N
           NL == N * L
           h == [r \in 1 .. R |-> [j \in 1 .. N |-> [c \in 1 .. L |->
                  (o[Cell(r, c, L)] * x[Cell(r, j, N)]) * b[Cell(j, c, L)]]]]
           X == [r \in 1 .. R |-> [c \in 1 .. L |-> [j \in 1 .. N |-> h[r][j][c]]]]
           Y == [j \in 1 .. N |-> [c \in 1 .. L |-> [r \in 1 .. R |-> h[r][j][c]]]]
           inn == [r \in 1 .. R |-> [c \in 1 .. L |-> Tensor!Total(X[r][c], N)]]
           cl == [r \in 1 .. R |-> [j \in 1 .. N |-> Tensor!Total(h[r][j], L)]]
           rw == [j \in 1 .. N |-> [c \in 1 .. L |-> Tensor!Total(Y[j][c], R)]]
           s == [r \in 1 .. R |-> Tensor!Total(inn[r], L)]
           u == [r \in 1 .. R |-> Tensor!Total(cl[r], N)]
           w == [j \in 1 .. N |-> Tensor!Total(rw[j], L)]
<1>0. /\ R \in Nat /\ N \in Nat /\ L \in Nat
      /\ RL \in Nat /\ RN \in Nat /\ NL \in Nat
  BY DEF Positive
<1>1. \A r \in 1 .. R : \A c \in 1 .. L : Cell(r, c, L) \in 1 .. RL
  BY <1>0, CellIs DEF Cell
<1>2. \A r \in 1 .. R : \A j \in 1 .. N : Cell(r, j, N) \in 1 .. RN
  BY <1>0, CellIs DEF Cell
<1>3. \A j \in 1 .. N : \A c \in 1 .. L : Cell(j, c, L) \in 1 .. NL
  BY <1>0, CellIs DEF Cell
<1>4. \A r \in 1 .. R : \A j \in 1 .. N : \A c \in 1 .. L :
        /\ h[r][j][c] = (o[Cell(r, c, L)] * x[Cell(r, j, N)]) * b[Cell(j, c, L)]
        /\ X[r][c][j] = h[r][j][c] /\ Y[j][c][r] = h[r][j][c]
  OBVIOUS
<1>5. /\ \A r \in 1 .. R : \A c \in 1 .. L : inn[r][c] = Tensor!Total(X[r][c], N)
      /\ \A r \in 1 .. R : \A j \in 1 .. N : cl[r][j] = Tensor!Total(h[r][j], L)
      /\ \A j \in 1 .. N : \A c \in 1 .. L : rw[j][c] = Tensor!Total(Y[j][c], R)
      /\ \A r \in 1 .. R : s[r] = Tensor!Total(inn[r], L)
      /\ \A r \in 1 .. R : u[r] = Tensor!Total(cl[r], N)
      /\ \A j \in 1 .. N : w[j] = Tensor!Total(rw[j], L)
  OBVIOUS
<1>X. /\ \A r \in 1 .. R : \A c \in 1 .. L : X[r][c] = [j \in 1 .. N |-> h[r][j][c]]
      /\ \A j \in 1 .. N : \A c \in 1 .. L : Y[j][c] = [r \in 1 .. R |-> h[r][j][c]]
  OBVIOUS
<1>V. o \in Vec(RL) /\ x \in Vec(RN) /\ b \in Vec(NL) /\ v \in Vec(RL)
  OBVIOUS
<1>6. /\ \A i \in 1 .. RL : o[i] \in Int /\ v[i] \in Int
      /\ \A i \in 1 .. RN : x[i] \in Int
      /\ \A i \in 1 .. NL : b[i] \in Int
  BY DEF Vec
<1> HIDE DEF X, Y, inn, cl, rw, s, u, w, h, RL, RN, NL
<1>7. \A r \in 1 .. R : \A j \in 1 .. N : \A c \in 1 .. L :
        /\ o[Cell(r, c, L)] \in Int /\ x[Cell(r, j, N)] \in Int /\ b[Cell(j, c, L)] \in Int
        /\ h[r][j][c] \in Int
  <2> TAKE r \in 1 .. R
  <2> TAKE j \in 1 .. N
  <2> TAKE c \in 1 .. L
  <2>1. o[Cell(r, c, L)] \in Int /\ x[Cell(r, j, N)] \in Int /\ b[Cell(j, c, L)] \in Int
    BY <1>1, <1>2, <1>3, <1>6
  <2>2. h[r][j][c] = (o[Cell(r, c, L)] * x[Cell(r, j, N)]) * b[Cell(j, c, L)]
    BY <1>4
  <2>. QED
    BY <2>1, <2>2
<1>8. Cube(h, inn, cl, rw, R, N, L)
  BY <1>5, <1>7, <1>X DEF Cube, Ints
<1>9. /\ \A r \in 1 .. R : Ints(inn[r], L) /\ Ints(cl[r], N)
      /\ \A j \in 1 .. N : Ints(rw[j], L)
      /\ Tensor!Total(s, R) = Tensor!Total(u, R)
      /\ Tensor!Total(s, R) = Tensor!Total(w, N)
  <2>1. Sides(inn, cl, rw, s, u, w, R, N, L)
    BY <1>5 DEF Sides
  <2>. QED
    BY <1>0, <1>8, <2>1, CubeSums
<1>10. Dot(o, v, RL) = Tensor!Total(s, R)
  <2> DEFINE f == [k \in 1 .. RL |-> o[k] * v[k]]
  <2>1. \A k \in 1 .. RL : f[k] = o[k] * v[k]
    OBVIOUS
  <2> HIDE DEF f
  <2>2. Dot(o, v, RL) = Tensor!Total(f, RL)
    BY <1>0, <1>V, <2>1, DotIs
  <2>3. ASSUME NEW r \in 1 .. R, NEW c \in 1 .. L PROVE f[Cell(r, c, L)] = inn[r][c]
    <3> DEFINE z == o[Cell(r, c, L)]
               t == [j \in 1 .. N |-> x[Cell(r, j, N)] * b[Cell(j, c, L)]]
               y == X[r][c]
    <3>1. \A j \in 1 .. N : t[j] = x[Cell(r, j, N)] * b[Cell(j, c, L)] /\ y[j] = h[r][j][c]
      BY <1>4
    <3>2. v[Cell(r, c, L)] = Tensor!Total(t, N) /\ inn[r][c] = Tensor!Total(y, N)
      BY <1>5 DEF Inner
    <3>3. f[Cell(r, c, L)] = z * v[Cell(r, c, L)] /\ z \in Int
      BY <1>1, <1>6, <2>1
    <3> HIDE DEF t, y
    <3>4. ASSUME NEW j \in 1 .. N PROVE t[j] \in Int /\ y[j] = z * t[j]
      <4> DEFINE p == x[Cell(r, j, N)]
                 q == b[Cell(j, c, L)]
      <4>1. p \in Int /\ q \in Int /\ z \in Int
        BY <1>7, <3>3
      <4>2. t[j] = p * q /\ y[j] = (z * p) * q
        BY <1>4, <3>1
      <4> HIDE DEF p, q, z
      <4>. QED
        BY <4>1, <4>2
    <3> HIDE DEF z
    <3>5. Ints(t, N)
      BY <3>4 DEF Ints
    <3>6. Tensor!Total(y, N) = z * Tensor!Total(t, N)
      BY <1>0, <3>3, <3>4, <3>5, TotalTimes
    <3>. QED
      BY <3>2, <3>3, <3>6
  <2>4. Rows(f, inn, s, R, L)
    BY <1>5, <1>9, <2>3 DEF Rows, Cell
  <2>5. Tensor!Total(f, R * L) = Tensor!Total(s, R)
    BY <1>0, <2>4, TotalRows
  <2>. QED
    BY <2>2, <2>5 DEF RL
<1>11. ASSUME g \in Vec(R * N), Across(g, o, b, R, N, L) PROVE Dot(g, x, RN) = Tensor!Total(u, R)
  <2> DEFINE f == [k \in 1 .. RN |-> g[k] * x[k]]
  <2>0. g \in Vec(RN)
    BY <1>11 DEF RN
  <2>1. \A k \in 1 .. RN : f[k] = g[k] * x[k] /\ g[k] \in Int
    BY <2>0 DEF Vec
  <2> HIDE DEF f
  <2>2. Dot(g, x, RN) = Tensor!Total(f, RN)
    BY <1>0, <1>V, <2>0, <2>1, DotIs
  <2>3. ASSUME NEW r \in 1 .. R, NEW j \in 1 .. N PROVE f[Cell(r, j, N)] = cl[r][j]
    <3> DEFINE z == x[Cell(r, j, N)]
               t == [c \in 1 .. L |-> o[Cell(r, c, L)] * b[Cell(j, c, L)]]
               y == h[r][j]
               G == g[Cell(r, j, N)]
    <3>1. \A c \in 1 .. L : t[c] = o[Cell(r, c, L)] * b[Cell(j, c, L)] /\ y[c] = h[r][j][c]
      OBVIOUS
    <3>2. G = Tensor!Total(t, L) /\ cl[r][j] = Tensor!Total(y, L)
      BY <1>5, <1>11 DEF Across
    <3>3. f[Cell(r, j, N)] = G * z /\ z \in Int /\ G \in Int
      BY <1>2, <1>6, <2>1
    <3> HIDE DEF t, y, G
    <3>4. ASSUME NEW c \in 1 .. L PROVE t[c] \in Int /\ y[c] = z * t[c]
      <4> DEFINE p == o[Cell(r, c, L)]
                 q == b[Cell(j, c, L)]
      <4>1. p \in Int /\ q \in Int /\ z \in Int
        BY <1>7, <3>3
      <4>2. t[c] = p * q /\ y[c] = (p * z) * q
        BY <1>4, <3>1
      <4> HIDE DEF p, q, z
      <4>. QED
        BY <4>1, <4>2
    <3> HIDE DEF z
    <3>5. Ints(t, L)
      BY <3>4 DEF Ints
    <3>6. Tensor!Total(y, L) = z * Tensor!Total(t, L)
      BY <1>0, <3>3, <3>4, <3>5, TotalTimes
    <3>. QED
      BY <3>2, <3>3, <3>6
  <2>4. Rows(f, cl, u, R, N)
    BY <1>5, <1>9, <2>3 DEF Rows, Cell
  <2>5. Tensor!Total(f, R * N) = Tensor!Total(u, R)
    BY <1>0, <2>4, TotalRows
  <2>. QED
    BY <2>2, <2>5 DEF RN
<1>12. ASSUME e \in Vec(N * L), Down(e, x, o, R, N, L) PROVE Dot(e, b, NL) = Tensor!Total(w, N)
  <2> DEFINE f == [k \in 1 .. NL |-> e[k] * b[k]]
  <2>0. e \in Vec(NL)
    BY <1>12 DEF NL
  <2>1. \A k \in 1 .. NL : f[k] = e[k] * b[k] /\ e[k] \in Int
    BY <2>0 DEF Vec
  <2> HIDE DEF f
  <2>2. Dot(e, b, NL) = Tensor!Total(f, NL)
    BY <1>0, <1>V, <2>0, <2>1, DotIs
  <2>3. ASSUME NEW j \in 1 .. N, NEW c \in 1 .. L PROVE f[Cell(j, c, L)] = rw[j][c]
    <3> DEFINE z == b[Cell(j, c, L)]
               t == [r \in 1 .. R |-> x[Cell(r, j, N)] * o[Cell(r, c, L)]]
               y == Y[j][c]
               G == e[Cell(j, c, L)]
    <3>1. \A r \in 1 .. R : t[r] = x[Cell(r, j, N)] * o[Cell(r, c, L)] /\ y[r] = h[r][j][c]
      BY <1>4
    <3>2. G = Tensor!Total(t, R) /\ rw[j][c] = Tensor!Total(y, R)
      BY <1>5, <1>12 DEF Down
    <3>3. f[Cell(j, c, L)] = G * z /\ z \in Int /\ G \in Int
      BY <1>3, <1>6, <2>1
    <3> HIDE DEF t, y, G
    <3>4. ASSUME NEW r \in 1 .. R PROVE t[r] \in Int /\ y[r] = z * t[r]
      <4> DEFINE p == o[Cell(r, c, L)]
                 q == x[Cell(r, j, N)]
      <4>1. p \in Int /\ q \in Int /\ z \in Int
        BY <1>7, <3>3
      <4>2. t[r] = q * p /\ y[r] = (p * q) * z
        BY <1>4, <3>1
      <4> HIDE DEF p, q, z
      <4>. QED
        BY <4>1, <4>2
    <3> HIDE DEF z
    <3>5. Ints(t, R)
      BY <3>4 DEF Ints
    <3>6. Tensor!Total(y, R) = z * Tensor!Total(t, R)
      BY <1>0, <3>3, <3>4, <3>5, TotalTimes
    <3>. QED
      BY <3>2, <3>3, <3>6
  <2>4. Rows(f, rw, w, N, L)
    BY <1>5, <1>9, <2>3 DEF Rows, Cell
  <2>5. Tensor!Total(f, N * L) = Tensor!Total(w, N)
    BY <1>0, <2>4, TotalRows
  <2>. QED
    BY <2>2, <2>5 DEF NL
<1>. QED
  BY <1>9, <1>10, <1>11, <1>12 DEF RL, RN, NL

\* The data of a product, cell by cell.
LEMMA MatmulInner ==
  ASSUME NEW R \in Positive, NEW N \in Positive, NEW L \in Positive,
         NEW p, NEW q, p.shape[1] = R, p.shape[2] = N, q.shape[2] = L,
         p.data \in Vec(R * N), q.data \in Vec(N * L)
  PROVE  /\ Tensor!Matmul(p, q).data \in Vec(R * L)
         /\ Inner(Tensor!Matmul(p, q).data, p.data, q.data, R, N, L)
<1> DEFINE x == p.data
           b == q.data
           RL == R * L
           v == Tensor!Matmul(p, q).data
           row(k) == (k - 1) \div L
           col(k) == (k - 1) % L
           term(k) == [j \in 1 .. N |-> x[row(k) * N + j - 1 + 1] * b[(j - 1) * L + col(k) + 1]]
<1>0. R \in Nat /\ N \in Nat /\ L \in Nat /\ RL \in Nat
  BY DEF Positive
<1>1. v = [k \in 1 .. RL |-> Tensor!Total(term(k), N)]
  BY DEF Tensor!Matmul, Tensor!At
<1>2. ASSUME NEW r \in 1 .. R, NEW c \in 1 .. L
      PROVE  /\ Cell(r, c, L) \in 1 .. RL
             /\ term(Cell(r, c, L)) = [j \in 1 .. N |-> x[Cell(r, j, N)] * b[Cell(j, c, L)]]
  <2>1. Cell(r, c, L) \in 1 .. RL /\ row(Cell(r, c, L)) = r - 1 /\ col(Cell(r, c, L)) = c - 1
    BY <1>0, CellIs DEF Cell
  <2>2. ASSUME NEW j \in 1 .. N
        PROVE  /\ (r - 1) * N + j - 1 + 1 = Cell(r, j, N)
               /\ (j - 1) * L + (c - 1) + 1 = Cell(j, c, L)
    <3> DEFINE y == (r - 1) * N
               z == (j - 1) * L
    <3>1. y \in Nat /\ z \in Nat
      BY <1>0
    <3> HIDE DEF y, z
    <3>2. y + j - 1 + 1 = y + j /\ z + (c - 1) + 1 = z + c
      BY <3>1
    <3>. QED
      BY <3>2 DEF Cell, y, z
  <2> DEFINE k == Cell(r, c, L)
  <2> HIDE DEF k
  <2>3. term(k) = [j \in 1 .. N |-> x[row(k) * N + j - 1 + 1] * b[(j - 1) * L + col(k) + 1]]
    OBVIOUS
  <2> HIDE DEF row, col, x, b, term
  <2>4. row(k) = r - 1 /\ col(k) = c - 1
    BY <2>1 DEF k
  <2>5. term(k) = [j \in 1 .. N |-> x[Cell(r, j, N)] * b[Cell(j, c, L)]]
    BY <2>2, <2>3, <2>4
  <2>. QED
    BY <2>1, <2>5 DEF k
<1>3. x \in Vec(R * N) /\ b \in Vec(N * L)
  OBVIOUS
<1> HIDE DEF x, b, term, v, RL, row, col
<1>4. ASSUME NEW r \in 1 .. R, NEW c \in 1 .. L
      PROVE  /\ v[Cell(r, c, L)] = Tensor!Total([j \in 1 .. N |-> x[Cell(r, j, N)] * b[Cell(j, c, L)]], N)
             /\ v[Cell(r, c, L)] \in Int
  <2> DEFINE t == [j \in 1 .. N |-> x[Cell(r, j, N)] * b[Cell(j, c, L)]]
  <2>1. v[Cell(r, c, L)] = Tensor!Total(t, N)
    BY <1>1, <1>2
  <2>2. \A j \in 1 .. N : t[j] \in Int
    <3> TAKE j \in 1 .. N
    <3>1. Cell(r, j, N) \in 1 .. R * N /\ Cell(j, c, L) \in 1 .. N * L
      BY <1>0, CellIs DEF Cell
    <3>2. x[Cell(r, j, N)] \in Int /\ b[Cell(j, c, L)] \in Int
      BY <1>3, <3>1 DEF Vec
    <3>. QED
      BY <3>2
  <2> HIDE DEF t
  <2>3. Ints(t, N)
    BY <2>2 DEF Ints
  <2>. QED
    BY <1>0, <2>1, <2>3, TotalInt DEF t
<1>5. ASSUME NEW k \in 1 .. RL PROVE v[k] \in Int
  <2> DEFINE r == row(k) + 1
             c == col(k) + 1
  <2>1. row(k) \in Nat /\ r \in 1 .. R /\ c \in 1 .. L /\ k = row(k) * L + c
    BY <1>0, CellOf DEF row, col, RL
  <2>2. r - 1 = row(k)
    BY <2>1
  <2> HIDE DEF c
  <2>3. k = Cell(r, c, L)
    BY <2>1, <2>2 DEF Cell
  <2> HIDE DEF r
  <2>. QED
    BY <1>4, <2>1, <2>3
<1>6. v \in Vec(RL)
  BY <1>1, <1>5 DEF Vec
<1>7. Inner(v, x, b, R, N, L)
  BY <1>4 DEF Inner
<1>. QED
  BY <1>6, <1>7 DEF v, x, b, RL

\* Two products of a number with a place, as the code writes them.
LEMMA PlaceIs ==
  ASSUME NEW r \in Int, NEW c \in Int, NEW L \in Int
  PROVE  /\ (r - 1) * L + c - 1 + 1 = Cell(r, c, L)
         /\ (r - 1) * L + (c - 1) + 1 = Cell(r, c, L)
<1> DEFINE y == (r - 1) * L
<1>1. y \in Int
  OBVIOUS
<1> HIDE DEF y
<1>2. y + c - 1 + 1 = y + c /\ y + (c - 1) + 1 = y + c
  BY <1>1
<1>. QED
  BY <1>2 DEF Cell, y

\* What an entry of a product adds to its operands, cell by cell.
LEMMA MatmulTurned ==
  ASSUME NEW R \in Positive, NEW N \in Positive, NEW L \in Positive,
         NEW m, m.seen[1].shape[1] = R, m.seen[1].shape[2] = N, m.seen[2].shape[2] = L,
         m.seen[1].data \in Vec(R * N), m.seen[2].data \in Vec(N * L), NEW o \in Vec(R * L)
  PROVE  LET g == Tensor!MatmulBack(m, o)
         IN /\ g[1] \in Vec(R * N) /\ Across(g[1], o, m.seen[2].data, R, N, L)
            /\ g[2] \in Vec(N * L) /\ Down(g[2], m.seen[1].data, o, R, N, L)
<1> DEFINE x == m.seen[1].data
           b == m.seen[2].data
           RN == R * N
           NL == N * L
           g == Tensor!MatmulBack(m, o)[1]
           e == Tensor!MatmulBack(m, o)[2]
           gterm(k) == [c \in 1 .. L |-> o[((k - 1) \div N) * L + c - 1 + 1]
                                           * b[((k - 1) % N) * L + c - 1 + 1]]
           eterm(k) == [r \in 1 .. R |-> x[(r - 1) * N + ((k - 1) \div L) + 1]
                                           * o[(r - 1) * L + ((k - 1) % L) + 1]]
<1>0. R \in Nat /\ N \in Nat /\ L \in Nat /\ RN \in Nat /\ NL \in Nat
  BY DEF Positive
<1>1. g = [k \in 1 .. RN |-> Tensor!Total(gterm(k), L)]
  BY DEF Tensor!MatmulBack, Tensor!At
<1>2. e = [k \in 1 .. NL |-> Tensor!Total(eterm(k), R)]
  BY DEF Tensor!MatmulBack, Tensor!At
<1>3. ASSUME NEW r \in 1 .. R, NEW j \in 1 .. N
      PROVE  /\ Cell(r, j, N) \in 1 .. RN
             /\ gterm(Cell(r, j, N)) = [c \in 1 .. L |-> o[Cell(r, c, L)] * b[Cell(j, c, L)]]
  <2> DEFINE k == Cell(r, j, N)
  <2>1. k \in 1 .. RN /\ (k - 1) \div N = r - 1 /\ (k - 1) % N = j - 1
    BY <1>0, CellIs DEF Cell
  <2>2. \A c \in 1 .. L : /\ (r - 1) * L + c - 1 + 1 = Cell(r, c, L)
                          /\ (j - 1) * L + c - 1 + 1 = Cell(j, c, L)
    <3> TAKE c \in 1 .. L
    <3>1. r \in Int /\ c \in Int /\ j \in Int /\ N \in Int /\ L \in Int
      BY <1>0
    <3>2. (r - 1) * L + c - 1 + 1 = Cell(r, c, L)
      BY <3>1, PlaceIs
    <3>3. (j - 1) * L + c - 1 + 1 = Cell(j, c, L)
      BY <3>1, PlaceIs
    <3>. QED
      BY <3>2, <3>3
  <2> HIDE DEF k, x, b
  <2>3. gterm(k) = [c \in 1 .. L |-> o[(r - 1) * L + c - 1 + 1] * b[(j - 1) * L + c - 1 + 1]]
    BY <2>1
  <2> HIDE DEF gterm
  <2>4. gterm(k) = [c \in 1 .. L |-> o[Cell(r, c, L)] * b[Cell(j, c, L)]]
    BY <2>2, <2>3
  <2>. QED
    BY <2>1, <2>4 DEF k
<1>4. ASSUME NEW j \in 1 .. N, NEW c \in 1 .. L
      PROVE  /\ Cell(j, c, L) \in 1 .. NL
             /\ eterm(Cell(j, c, L)) = [r \in 1 .. R |-> x[Cell(r, j, N)] * o[Cell(r, c, L)]]
  <2> DEFINE k == Cell(j, c, L)
  <2>1. k \in 1 .. NL /\ (k - 1) \div L = j - 1 /\ (k - 1) % L = c - 1
    BY <1>0, CellIs DEF Cell
  <2>2. \A r \in 1 .. R : /\ (r - 1) * N + (j - 1) + 1 = Cell(r, j, N)
                          /\ (r - 1) * L + (c - 1) + 1 = Cell(r, c, L)
    <3> TAKE r \in 1 .. R
    <3>1. r \in Int /\ c \in Int /\ j \in Int /\ N \in Int /\ L \in Int
      BY <1>0
    <3>2. (r - 1) * N + (j - 1) + 1 = Cell(r, j, N)
      BY <3>1, PlaceIs
    <3>3. (r - 1) * L + (c - 1) + 1 = Cell(r, c, L)
      BY <3>1, PlaceIs
    <3>. QED
      BY <3>2, <3>3
  <2> HIDE DEF k, x, b
  <2>3. eterm(k) = [r \in 1 .. R |-> x[(r - 1) * N + (j - 1) + 1] * o[(r - 1) * L + (c - 1) + 1]]
    BY <2>1
  <2> HIDE DEF eterm
  <2>4. eterm(k) = [r \in 1 .. R |-> x[Cell(r, j, N)] * o[Cell(r, c, L)]]
    BY <2>2, <2>3
  <2>. QED
    BY <2>1, <2>4 DEF k
<1>5. x \in Vec(R * N) /\ b \in Vec(N * L) /\ o \in Vec(R * L)
  OBVIOUS
<1> HIDE DEF x, b, g, e, gterm, eterm, RN, NL
<1>6. /\ \A r \in 1 .. R : \A j \in 1 .. N : x[Cell(r, j, N)] \in Int
      /\ \A r \in 1 .. R : \A c \in 1 .. L : o[Cell(r, c, L)] \in Int
      /\ \A j \in 1 .. N : \A c \in 1 .. L : b[Cell(j, c, L)] \in Int
  <2>1. /\ \A r \in 1 .. R : \A j \in 1 .. N : Cell(r, j, N) \in 1 .. R * N
        /\ \A r \in 1 .. R : \A c \in 1 .. L : Cell(r, c, L) \in 1 .. R * L
        /\ \A j \in 1 .. N : \A c \in 1 .. L : Cell(j, c, L) \in 1 .. N * L
    BY <1>0, CellIs DEF Cell
  <2> DEFINE I == 1 .. R * N
             J == 1 .. R * L
             K == 1 .. N * L
  <2>2. /\ \A i \in I : x[i] \in Int
        /\ \A i \in J : o[i] \in Int
        /\ \A i \in K : b[i] \in Int
    BY <1>5 DEF Vec
  <2> HIDE DEF I, J, K
  <2>3. /\ \A r \in 1 .. R : \A j \in 1 .. N : Cell(r, j, N) \in I
        /\ \A r \in 1 .. R : \A c \in 1 .. L : Cell(r, c, L) \in J
        /\ \A j \in 1 .. N : \A c \in 1 .. L : Cell(j, c, L) \in K
    BY <2>1 DEF I, J, K
  <2>. QED
    BY <2>2, <2>3
<1>7. ASSUME NEW r \in 1 .. R, NEW j \in 1 .. N
      PROVE  /\ g[Cell(r, j, N)] = Tensor!Total([c \in 1 .. L |-> o[Cell(r, c, L)] * b[Cell(j, c, L)]], L)
             /\ g[Cell(r, j, N)] \in Int
  <2> DEFINE t == [c \in 1 .. L |-> o[Cell(r, c, L)] * b[Cell(j, c, L)]]
  <2>1. g[Cell(r, j, N)] = Tensor!Total(t, L)
    BY <1>1, <1>3
  <2>2. \A c \in 1 .. L : t[c] \in Int
    BY <1>6
  <2> HIDE DEF t
  <2>3. Ints(t, L)
    BY <2>2 DEF Ints
  <2>. QED
    BY <1>0, <2>1, <2>3, TotalInt DEF t
<1>8. ASSUME NEW j \in 1 .. N, NEW c \in 1 .. L
      PROVE  /\ e[Cell(j, c, L)] = Tensor!Total([r \in 1 .. R |-> x[Cell(r, j, N)] * o[Cell(r, c, L)]], R)
             /\ e[Cell(j, c, L)] \in Int
  <2> DEFINE t == [r \in 1 .. R |-> x[Cell(r, j, N)] * o[Cell(r, c, L)]]
  <2>1. e[Cell(j, c, L)] = Tensor!Total(t, R)
    BY <1>2, <1>4
  <2>2. \A r \in 1 .. R : t[r] \in Int
    BY <1>6
  <2> HIDE DEF t
  <2>3. Ints(t, R)
    BY <2>2 DEF Ints
  <2>. QED
    BY <1>0, <2>1, <2>3, TotalInt DEF t
<1>9. g \in Vec(RN)
  <2>1. ASSUME NEW k \in 1 .. RN PROVE g[k] \in Int
    <3> DEFINE q == (k - 1) \div N
               r == q + 1
               c == ((k - 1) % N) + 1
    <3>1. q \in Nat /\ r \in 1 .. R /\ c \in 1 .. N /\ k = q * N + c
      BY <1>0, CellOf DEF RN
    <3>2. r - 1 = q
      BY <3>1
    <3> HIDE DEF c
    <3>3. k = Cell(r, c, N)
      BY <3>1, <3>2 DEF Cell
    <3> HIDE DEF r
    <3>. QED
      BY <1>7, <3>1, <3>3
  <2>. QED
    BY <1>1, <2>1 DEF Vec
<1>10. e \in Vec(NL)
  <2>1. ASSUME NEW k \in 1 .. NL PROVE e[k] \in Int
    <3> DEFINE q == (k - 1) \div L
               r == q + 1
               c == ((k - 1) % L) + 1
    <3>1. q \in Nat /\ r \in 1 .. N /\ c \in 1 .. L /\ k = q * L + c
      BY <1>0, CellOf DEF NL
    <3>2. r - 1 = q
      BY <3>1
    <3> HIDE DEF c
    <3>3. k = Cell(r, c, L)
      BY <3>1, <3>2 DEF Cell
    <3> HIDE DEF r
    <3>. QED
      BY <1>8, <3>1, <3>3
  <2>. QED
    BY <1>2, <2>1 DEF Vec
<1>11. Across(g, o, b, R, N, L) /\ Down(e, x, o, R, N, L)
  BY <1>7, <1>8 DEF Across, Down
<1>. QED
  BY <1>9, <1>10, <1>11 DEF g, e, x, b, RN, NL

\* matmul, with both operands.
LEMMA MatmulAdjoint ==
  ASSUME NEW m, Remembered(m), m.op = "matmul", NEW d, Changes(m, d),
         NEW out \in Vec(m.seen[1].shape[1] * m.seen[2].shape[2])
  PROVE  Adjoint(m, out, d, m.seen[1].shape[1] * m.seen[2].shape[2])
<1> DEFINE R == m.seen[1].shape[1]
           N == m.seen[1].shape[2]
           L == m.seen[2].shape[2]
           RL == R * L
           p == [shape |-> m.seen[1].shape, data |-> d[1]]
           q == [shape |-> m.seen[2].shape, data |-> d[2]]
           a == m.seen[1]
           b == m.seen[2]
           v == Tensor!Matmul(p, b).data
           w == Tensor!Matmul(a, q).data
           t == Tensor!Tangent(m, d)
           g == Tensor!Back(m, out)
<1>0. m.op \in Tensor!Binary
  BY DEF Tensor!Binary
<1>1. /\ Operands(m) = 2
      /\ Tensor!Accepts(m.op, [i \in 1 .. 2 |-> m.seen[i].shape], m.arg)
      /\ \A i \in 1 .. 2 : /\ d[i] \in Vec(Size(m.seen[i])) /\ m.seen[i].shape \in Shape
                           /\ m.seen[i].data \in Vec(Size(m.seen[i]))
  BY <1>0, TwoOperands
<1>2. Len(a.shape) = 2 /\ Len(b.shape) = 2 /\ b.shape[1] = N
  BY <1>1 DEF Tensor!Accepts
<1>3. R \in Positive /\ N \in Positive /\ L \in Positive /\ Size(a) = R * N /\ Size(b) = N * L
  BY <1>1, <1>2, NumelMatrix DEF Size
<1>4. /\ d[1] \in Vec(R * N) /\ a.data \in Vec(R * N)
      /\ d[2] \in Vec(N * L) /\ b.data \in Vec(N * L)
  BY <1>1, <1>3
<1>5. /\ p.shape[1] = R /\ p.shape[2] = N /\ p.data = d[1]
      /\ q.shape[2] = L /\ q.data = d[2]
  OBVIOUS
<1>6. g = Tensor!MatmulBack(m, out)
  BY DEF Tensor!Back
<1>7. t = Tensor!Plus(v, w)
  BY DEF Tensor!Tangent, Tensor!Apply
<1>o. out \in Vec(R * L) /\ RL \in Nat
  BY <1>3 DEF Positive
<1>8. /\ m.seen[1].shape[1] = R /\ m.seen[1].shape[2] = N /\ m.seen[2].shape[2] = L
      /\ a.shape[1] = R /\ a.shape[2] = N /\ b.shape[2] = L
      /\ a.data = m.seen[1].data /\ b.data = m.seen[2].data
  OBVIOUS
<1> HIDE DEF R, N, L, p, q, t, g, v, w
<1>9. /\ g[1] \in Vec(R * N) /\ Across(g[1], out, b.data, R, N, L)
      /\ g[2] \in Vec(N * L) /\ Down(g[2], a.data, out, R, N, L)
  BY <1>3, <1>4, <1>6, <1>8, <1>o, MatmulTurned
<1>10. v \in Vec(R * L) /\ Inner(v, d[1], b.data, R, N, L)
  <2>1. v \in Vec(R * L) /\ Inner(v, p.data, b.data, R, N, L)
    BY <1>3, <1>4, <1>5, <1>8, MatmulInner DEF v
  <2>. QED
    BY <2>1, <1>5
<1>11. w \in Vec(R * L) /\ Inner(w, a.data, d[2], R, N, L)
  <2>1. w \in Vec(R * L) /\ Inner(w, a.data, q.data, R, N, L)
    BY <1>3, <1>4, <1>5, <1>8, MatmulInner DEF w
  <2>. QED
    BY <2>1, <1>5
<1> DEFINE x == d[1]
           y == d[2]
           A == a.data
           B == b.data
           G == g[1]
           E == g[2]
<1>V. /\ x \in Vec(R * N) /\ A \in Vec(R * N) /\ G \in Vec(R * N)
      /\ y \in Vec(N * L) /\ B \in Vec(N * L) /\ E \in Vec(N * L)
      /\ Inner(v, x, B, R, N, L) /\ Inner(w, A, y, R, N, L)
      /\ Across(G, out, B, R, N, L) /\ Down(E, A, out, R, N, L)
  BY <1>4, <1>9, <1>10, <1>11
<1> HIDE DEF x, y, A, B, G, E
<1>12. Dot(out, v, R * L) = Dot(G, x, R * N)
  BY <1>3, <1>10, <1>o, <1>V, TripleProduct
<1>13. Dot(out, w, R * L) = Dot(E, y, N * L)
  BY <1>3, <1>11, <1>o, <1>V, TripleProduct
<1>14. t \in Vec(RL) /\ Dot(out, t, RL) = Dot(out, v, RL) + Dot(out, w, RL)
  <2> DEFINE f == [k \in 1 .. RL |-> out[k] * v[k]]
             h == [k \in 1 .. RL |-> out[k] * w[k]]
             z == [k \in 1 .. RL |-> out[k] * t[k]]
  <2>1. v \in Vec(RL) /\ w \in Vec(RL) /\ out \in Vec(RL)
    BY <1>10, <1>11, <1>o
  <2>2. \A k \in 1 .. RL : f[k] = out[k] * v[k] /\ h[k] = out[k] * w[k] /\ z[k] = out[k] * t[k]
    OBVIOUS
  <2> HIDE DEF f, h, z, RL
  <2>3. t = [k \in 1 .. RL |-> v[k] + w[k]]
    BY <1>7, <2>1 DEF Tensor!Plus, Vec
  <2>4. \A k \in 1 .. RL : out[k] \in Int /\ v[k] \in Int /\ w[k] \in Int /\ t[k] = v[k] + w[k]
    BY <2>1, <2>3 DEF Vec
  <2>5. t \in Vec(RL)
    BY <2>3, <2>4 DEF Vec
  <2>6. /\ Ints(f, RL) /\ Dot(out, v, RL) = Tensor!Total(f, RL)
        /\ Ints(h, RL) /\ Dot(out, w, RL) = Tensor!Total(h, RL)
        /\ Dot(out, t, RL) = Tensor!Total(z, RL)
    BY <1>o, <2>1, <2>2, <2>5, DotIs
  <2>7. \A k \in 1 .. RL : z[k] = f[k] + h[k]
    <3> TAKE k \in 1 .. RL
    <3> DEFINE oo == out[k]
               vv == v[k]
               ww == w[k]
    <3>1. oo \in Int /\ vv \in Int /\ ww \in Int /\ z[k] = oo * (vv + ww) /\ f[k] = oo * vv /\ h[k] = oo * ww
      BY <2>2, <2>4
    <3> HIDE DEF oo, vv, ww
    <3>. QED
      BY <3>1
  <2>8. Tensor!Total(z, RL) = Tensor!Total(f, RL) + Tensor!Total(h, RL)
    BY <1>o, <2>6, <2>7, TotalPlus
  <2>. QED
    BY <2>5, <2>6, <2>8
<1>15. Dot(out, t, RL) = Dot(g[1], d[1], Size(a)) + Dot(g[2], d[2], Size(b))
  BY <1>3, <1>12, <1>13, <1>14 DEF x, y, G, E
<1>16. \A i \in 1 .. Operands(m) : g[i] \in Vec(Size(m.seen[i]))
  BY <1>1, <1>3, <1>9
<1>. QED
  BY <1>1, <1>14, <1>15, <1>16 DEF Adjoint, t, g, R, L

-----------------------------------------------------------------------------
(* The result of an operation.                                             *)

Result(m) == Tensor!Apply(m.op, m.seen, m.arg)

ElementWiseOps == {"add", "sub", "mul"}
SingleOps == {"neg", "relu", "square"}
MoveOps == {"reshape", "transpose", "slice"}

\* The number of its elements.
Length(m) ==
  CASE m.op \in ElementWiseOps -> Tensor!Numel(ResultShape(m))
    [] m.op \in SingleOps -> Size(m.seen[1])
    [] m.op = "matmul" -> m.seen[1].shape[1] * m.seen[2].shape[2]
    [] m.op \in MoveOps -> Tensor!Numel(MovedTo(m))
    [] m.op = "sum" -> 1
    [] m.op = "embed" -> Len(m.arg) * m.seen[1].shape[2]
    [] m.op = "cat" -> Size(m.seen[1]) + Size(m.seen[2])

LengthIs(m, n, s, v) ==
  /\ s \in Shape /\ n \in Positive /\ v \in Vec(n)
  /\ m.op # "cat" => Tensor!Numel(s) = n

LEMMA OneSeen ==
  ASSUME NEW m, Remembered(m), m.op \in Tensor!Unary
  PROVE  /\ Operands(m) = 1 /\ Size(m.seen[1]) \in Positive /\ m.seen[1].shape \in Shape
         /\ m.seen[1].data \in Vec(Size(m.seen[1])) /\ m.seen[1].data \in Seq(Int)
         /\ Tensor!Accepts(m.op, [p \in 1 .. 1 |-> m.seen[p].shape], m.arg)
<1>1. Operands(m) = 1
  BY DEF Operands, Tensor!Unary, Tensor!Binary
<1>2. Whole(m.seen[1]) /\ Tensor!Accepts(m.op, [p \in 1 .. 1 |-> m.seen[p].shape], m.arg)
  BY <1>1 DEF Remembered
<1>3. m.seen[1].shape \in Shape
  BY <1>2 DEF Whole
<1>. QED
  BY <1>1, <1>2, <1>3, NumelPositive DEF Whole, Size

LEMMA TwoSeen ==
  ASSUME NEW m, Remembered(m), m.op \in Tensor!Binary
  PROVE  /\ Operands(m) = 2
         /\ Tensor!Accepts(m.op, [p \in 1 .. 2 |-> m.seen[p].shape], m.arg)
         /\ \A p \in 1 .. 2 : /\ Size(m.seen[p]) \in Positive /\ m.seen[p].shape \in Shape
                              /\ m.seen[p].data \in Vec(Size(m.seen[p]))
                              /\ m.seen[p].data \in Seq(Int)
<1>1. Operands(m) = 2
  BY DEF Operands
<1>2. /\ \A p \in 1 .. 2 : Whole(m.seen[p])
      /\ Tensor!Accepts(m.op, [p \in 1 .. 2 |-> m.seen[p].shape], m.arg)
  BY <1>1 DEF Remembered
<1>3. \A p \in 1 .. 2 : m.seen[p].shape \in Shape
  BY <1>2 DEF Whole
<1>. QED
  BY <1>1, <1>2, <1>3, NumelPositive DEF Whole, Size

LEMMA ElementWiseResult ==
  ASSUME NEW m, Remembered(m), m.op \in ElementWiseOps
  PROVE  LengthIs(m, Length(m), Result(m).shape, Result(m).data)
<1> DEFINE s == ResultShape(m)
           n == Tensor!Numel(s)
           A(k) == m.seen[1].data[From(m, 1, k) + 1]
           B(k) == m.seen[2].data[From(m, 2, k) + 1]
<1>0. /\ \A p \in 1 .. 2 : /\ Size(m.seen[p]) \in Positive /\ m.seen[p].shape \in Shape
                           /\ m.seen[p].data \in Vec(Size(m.seen[p]))
  BY TwoSeen DEF ElementWiseOps, Tensor!Binary
<1>1. /\ s \in Shape /\ Len(m.seen[1].shape) <= Len(s) /\ Len(m.seen[2].shape) <= Len(s)
  BY <1>0, BroadcastIsShape DEF ResultShape
<1>2. n \in Positive
  BY <1>1, NumelPositive
<1>3. Result(m) = Tensor!ElementWise(m.op, m.seen[1], m.seen[2])
  BY DEF Result, Tensor!Apply, ElementWiseOps
<1>4. Result(m).shape = s /\ Result(m).data = [k \in 1 .. n |-> Tensor!Scalar(m.op, A(k), B(k))]
  <2>1. Result(m).shape = s
    BY <1>3 DEF Tensor!ElementWise, ResultShape
  <2>2. Result(m).data = [k \in 1 .. n |-> Tensor!Scalar(m.op, A(k), B(k))]
    BY <1>3 DEF Tensor!ElementWise, Tensor!At, From, ResultShape
  <2>. QED
    BY <2>1, <2>2
<1>5. Length(m) = n
  BY DEF Length, ElementWiseOps, SingleOps, MoveOps
<1>6. ASSUME NEW k \in 1 .. n PROVE A(k) \in Int /\ B(k) \in Int
  <2>1. k - 1 \in Nat
    BY <1>2 DEF Positive
  <2>2. ASSUME NEW p \in 1 .. 2 PROVE m.seen[p].data[From(m, p, k) + 1] \in Int
    <3> DEFINE z == m.seen[p].shape
               i == k - 1
               f == Tensor!Spread(z, s, i)
    <3>1. z \in Shape /\ Len(z) <= Len(s) /\ Tensor!Numel(z) \in Positive
      <4>1. p = 1 \/ p = 2
        OBVIOUS
      <4>. QED
        BY <1>0, <1>1, <4>1 DEF Size
    <3>2. m.seen[p].data \in Vec(Tensor!Numel(z)) /\ From(m, p, k) = f
      BY <1>0 DEF Size, From
    <3> HIDE DEF z, s, i
    <3>3. f \in 0 .. Tensor!Numel(z) - 1
      BY <1>1, <2>1, <3>1, SpreadWithin DEF i
    <3> HIDE DEF f
    <3>4. f + 1 \in 1 .. Tensor!Numel(z)
      BY <3>1, <3>3 DEF Positive
    <3>. QED
      BY <3>2, <3>4 DEF Vec
  <2>. QED
    BY <2>2
<1> HIDE DEF n, s, A, B
<1>7. \A k \in 1 .. n : Tensor!Scalar(m.op, A(k), B(k)) \in Int
  BY <1>6 DEF Tensor!Scalar, ElementWiseOps
<1>8. Result(m).data \in Vec(n)
  BY <1>4, <1>7 DEF Vec
<1>. QED
  BY <1>1, <1>2, <1>4, <1>5, <1>8 DEF LengthIs, n

LEMMA SingleResult ==
  ASSUME NEW m, Remembered(m), m.op \in SingleOps
  PROVE  LengthIs(m, Length(m), Result(m).shape, Result(m).data)
<1> DEFINE n == Size(m.seen[1])
           a == m.seen[1].data
<1>0. n \in Positive /\ m.seen[1].shape \in Shape /\ a \in Vec(n)
  BY OneSeen DEF SingleOps, Tensor!Unary
<1>1. /\ Result(m).shape = m.seen[1].shape
      /\ Result(m).data = [i \in DOMAIN a |-> Tensor!Single(m.op, a[i])]
  BY DEF Result, Tensor!Apply, SingleOps
<1>2. DOMAIN a = 1 .. n /\ \A i \in 1 .. n : a[i] \in Int
  BY <1>0 DEF Vec
<1>3. Length(m) = n
  BY DEF Length, MoveOps, SingleOps, ElementWiseOps
<1>4. Tensor!Numel(m.seen[1].shape) = n
  BY DEF Size
<1> HIDE DEF n, a
<1>5. \A i \in 1 .. n : Tensor!Single(m.op, a[i]) \in Int
  BY <1>2 DEF Tensor!Single, SingleOps
<1>6. Result(m).data \in Vec(n)
  BY <1>1, <1>2, <1>5 DEF Vec
<1>. QED
  BY <1>0, <1>1, <1>3, <1>4, <1>6 DEF LengthIs

LEMMA MatmulResult ==
  ASSUME NEW m, Remembered(m), m.op = "matmul"
  PROVE  LengthIs(m, Length(m), Result(m).shape, Result(m).data)
<1> DEFINE a == m.seen[1]
           b == m.seen[2]
           R == a.shape[1]
           N == a.shape[2]
           L == b.shape[2]
           s == <<R, L>>
<1>0. m.op \in Tensor!Binary
  BY DEF Tensor!Binary
<1>1. /\ Tensor!Accepts(m.op, [p \in 1 .. 2 |-> m.seen[p].shape], m.arg)
      /\ a.shape \in Shape /\ a.data \in Vec(Size(a))
      /\ b.shape \in Shape /\ b.data \in Vec(Size(b))
  BY <1>0, TwoSeen
<1>2. Len(a.shape) = 2 /\ Len(b.shape) = 2 /\ b.shape[1] = N
  BY <1>1 DEF Tensor!Accepts
<1>3. R \in Positive /\ N \in Positive /\ L \in Positive /\ Size(a) = R * N /\ Size(b) = N * L
  BY <1>1, <1>2, NumelMatrix DEF Size
<1>4. Result(m) = Tensor!Matmul(a, b)
  BY DEF Result, Tensor!Apply
<1>5. Result(m).shape = s
  BY <1>4 DEF Tensor!Matmul
<1>6. s \in Shape /\ Len(s) = 2 /\ s[1] = R /\ s[2] = L
  BY <1>3 DEF Shape
<1>7. Tensor!Numel(s) = R * L
  BY <1>6, NumelMatrix
<1>8. Result(m).data \in Vec(R * L)
  BY <1>1, <1>3, <1>4, MatmulInner
<1>9. Length(m) = R * L
  BY DEF Length, MoveOps, SingleOps, ElementWiseOps
<1>10. R * L \in Positive
  BY <1>6, <1>7, NumelPositive
<1>. QED
  BY <1>5, <1>6, <1>7, <1>8, <1>9, <1>10 DEF LengthIs

LEMMA MoveResult ==
  ASSUME NEW m, Remembered(m), m.op \in MoveOps
  PROVE  LengthIs(m, Length(m), Result(m).shape, Result(m).data)
<1> DEFINE a == m.seen[1]
           s == MovedTo(m)
           n == Tensor!Numel(s)
           at(k) == Tensor!Moved(m.op, a.shape, m.arg, k - 1)
<1>0. Size(a) \in Positive /\ a.data \in Vec(Size(a))
  BY OneSeen DEF MoveOps, Tensor!Unary
<1>1. s \in Shape /\ \A i \in 0 .. n - 1 : Tensor!Moved(m.op, a.shape, m.arg, i) \in 0 .. Size(a) - 1
  BY MovedWithin DEF MoveOps
<1>2. n \in Positive
  BY <1>1, NumelPositive
<1>3. Result(m).shape = s /\ Result(m).data = [k \in 1 .. n |-> a.data[at(k) + 1]]
  BY DEF Result, Tensor!Apply, MoveOps, MovedTo, Tensor!At
<1>4. Length(m) = n
  BY DEF Length, MoveOps, SingleOps, ElementWiseOps
<1>5. ASSUME NEW k \in 1 .. n PROVE a.data[at(k) + 1] \in Int
  <2>1. k - 1 \in 0 .. n - 1
    BY <1>2 DEF Positive
  <2>2. at(k) \in 0 .. Size(a) - 1
    BY <1>1, <2>1
  <2> HIDE DEF at
  <2>3. at(k) + 1 \in 1 .. Size(a)
    BY <1>0, <2>2 DEF Positive
  <2>. QED
    BY <1>0, <2>3 DEF Vec
<1> HIDE DEF at, n, s
<1>6. Result(m).data \in Vec(n)
  BY <1>3, <1>5 DEF Vec
<1>. QED
  BY <1>1, <1>2, <1>3, <1>4, <1>6 DEF LengthIs, n

LEMMA SumResult ==
  ASSUME NEW m, Remembered(m), m.op = "sum"
  PROVE  LengthIs(m, Length(m), Result(m).shape, Result(m).data)
<1> DEFINE a == m.seen[1]
           z == Tensor!Total(a.data, Len(a.data))
           n == Size(a)
<1>0. n \in Positive /\ a.data \in Vec(n) /\ a.data \in Seq(Int)
  BY OneSeen DEF Tensor!Unary
<1>1. Result(m).shape = <<>> /\ Result(m).data = <<z>>
  BY DEF Result, Tensor!Apply
<1>2. Length(m) = 1
  BY DEF Length, MoveOps, SingleOps, ElementWiseOps
<1>3. z \in Int
  <2>1. Len(a.data) \in Nat /\ \A i \in 1 .. Len(a.data) : a.data[i] \in Int
    BY <1>0, LenProperties, ElementOfSeq
  <2>2. Ints(a.data, Len(a.data))
    BY <2>1 DEF Ints
  <2>. QED
    BY <2>1, <2>2, TotalInt
<1>4. <<>> \in Shape
  BY EmptySeq DEF Shape
<1> HIDE DEF z
<1>5. Result(m).data \in Vec(1)
  BY <1>1, <1>3 DEF Vec
<1>. QED
  BY <1>1, <1>2, <1>4, <1>5, NumelScalar DEF LengthIs, Positive

LEMMA EmbedResult ==
  ASSUME NEW m, Remembered(m), m.op = "embed"
  PROVE  LengthIs(m, Length(m), Result(m).shape, Result(m).data)
<1> DEFINE a == m.seen[1]
           V == a.shape[1]
           dim == a.shape[2]
           rows == m.arg
           s == <<Len(rows), dim>>
           n == Len(rows) * dim
           row(k) == Tensor!Row(V, Tensor!At(rows, (k - 1) \div dim))
           at(k) == row(k) * dim + ((k - 1) % dim)
<1>0. /\ a.shape \in Shape /\ a.data \in Vec(Size(a))
      /\ Tensor!Accepts(m.op, [p \in 1 .. 1 |-> m.seen[p].shape], m.arg)
  BY OneSeen DEF Tensor!Unary
<1>1. Len(a.shape) = 2
  BY <1>0 DEF Tensor!Accepts
<1>2. V \in Positive /\ dim \in Positive /\ Size(a) = V * dim
  BY <1>0, <1>1, NumelMatrix DEF Size
<1>3. rows \in Seq(Int) /\ rows # <<>> /\ Len(rows) \in Nat /\ DOMAIN rows = 1 .. Len(rows)
  BY ArgShape, LenProperties
<1>4. Len(rows) \in Positive
  BY <1>3, EmptySeq DEF Positive
<1>5. s \in Shape /\ Len(s) = 2 /\ s[1] = Len(rows) /\ s[2] = dim
  BY <1>2, <1>4 DEF Shape
<1>6. Tensor!Numel(s) = n
  BY <1>5, NumelMatrix
<1>7. Result(m) = Tensor!Embed(a, rows)
  BY DEF Result, Tensor!Apply
<1>8. Result(m).shape = s /\ Result(m).data = [k \in 1 .. n |-> a.data[at(k) + 1]]
  <2>1. Result(m).shape = s
    BY <1>7 DEF Tensor!Embed
  <2>2. Tensor!Embed(a, rows).data = [k \in 1 .. n |-> Tensor!At(a.data, at(k))]
    BY DEF Tensor!Embed
  <2>3. Result(m).data = [k \in 1 .. n |-> a.data[at(k) + 1]]
    BY <1>7, <2>2 DEF Tensor!At
  <2>. QED
    BY <2>1, <2>3
<1>9. Length(m) = n
  BY DEF Length, MoveOps, SingleOps, ElementWiseOps
<1>10. ASSUME NEW k \in 1 .. n PROVE a.data[at(k) + 1] \in Int
  <2> DEFINE r == row(k)
             c == (k - 1) % dim
             b == (k - 1) \div dim
             x == Tensor!At(rows, b)
  <2>1. n \in Nat
    BY <1>2, <1>3 DEF Positive
  <2>2. k - 1 \in 0 .. n - 1
    BY <2>1
  <2>3. b \in 0 .. Len(rows) - 1 /\ c \in 0 .. dim - 1
    BY <1>2, <1>3, <2>2, BlockOf DEF Positive
  <2>4. b + 1 \in 1 .. Len(rows)
    BY <1>3, <2>3
  <2>5. x \in Int
    BY <1>3, <2>4, ElementOfSeq DEF Tensor!At
  <2> HIDE DEF x, V
  <2>6. Tensor!Row(V, x) \in 0 .. V - 1
    BY <1>2, <2>5 DEF Tensor!Row, Positive
  <2>7. r \in 0 .. V - 1
    BY <2>6 DEF x
  <2>8. at(k) = r * dim + c
    OBVIOUS
  <2> HIDE DEF r, c, dim, at
  <2>9. r * dim + c \in 0 .. V * dim - 1
    BY <1>2, <2>3, <2>7, InBlock DEF Positive
  <2> DEFINE y == r * dim + c
             N == V * dim
  <2>10. N \in Nat /\ y \in 0 .. N - 1 /\ at(k) = y
    BY <1>2, <2>8, <2>9 DEF Positive
  <2> HIDE DEF y
  <2>11. a.data \in Vec(N)
    BY <1>0, <1>2
  <2> HIDE DEF N
  <2>12. y + 1 \in 1 .. N
    BY <2>10
  <2>. QED
    BY <2>10, <2>11, <2>12 DEF Vec
<1>11. n \in Positive
  BY <1>5, <1>6, NumelPositive
<1> HIDE DEF n, at, s
<1>12. Result(m).data \in Vec(n)
  BY <1>8, <1>10 DEF Vec
<1>. QED
  BY <1>5, <1>6, <1>8, <1>9, <1>11, <1>12 DEF LengthIs

LEMMA FrontIsShape ==
  ASSUME NEW s \in Shape, Len(s) > 0
  PROVE  Tensor!Front(s) \in Shape
<1>1. Len(s) \in Nat /\ \A i \in 1 .. Len(s) : s[i] \in Positive
  BY LenProperties, ElementOfSeq DEF Shape
<1>2. \A i \in 1 .. Len(s) - 1 : s[i] \in Positive
  BY <1>1
<1>3. Len(s) - 1 \in Int /\ 1 \in Int
  BY <1>1
<1>4. SubSeq(s, 1, Len(s) - 1) \in Seq(Positive)
  BY <1>2, <1>3, SubSeqProperties
<1>. QED
  BY <1>4 DEF Tensor!Front, Shape

LEMMA CatResult ==
  ASSUME NEW m, Remembered(m), m.op = "cat"
  PROVE  LengthIs(m, Length(m), Result(m).shape, Result(m).data)
<1> DEFINE a == m.seen[1]
           b == m.seen[2]
           na == Size(a)
           nb == Size(b)
           r == Tensor!CatRows(a.shape) + Tensor!CatRows(b.shape)
           v == Result(m).data
<1>0. m.op \in Tensor!Binary
  BY DEF Tensor!Binary
<1>1. /\ Tensor!Accepts(m.op, [p \in 1 .. 2 |-> m.seen[p].shape], m.arg)
      /\ na \in Positive /\ a.shape \in Shape /\ a.data \in Vec(na) /\ a.data \in Seq(Int)
      /\ nb \in Positive /\ b.shape \in Shape /\ b.data \in Vec(nb) /\ b.data \in Seq(Int)
  BY <1>0, TwoSeen
<1>2. Len(a.shape) > 0 /\ Len(b.shape) > 0
  BY <1>1 DEF Tensor!Accepts
<1>3. r \in Positive
  <2>1. Tensor!CatRows(a.shape) \in Positive /\ Tensor!CatRows(b.shape) \in Positive
    BY <1>1, <1>2, FrontIsShape, NumelPositive DEF Tensor!CatRows
  <2>. QED
    BY <2>1 DEF Positive
<1>4. Result(m) = Tensor!Cat(a, b)
  BY DEF Result, Tensor!Apply
<1>5. Result(m).shape = <<r>> \o Tail(a.shape) /\ v = a.data \o b.data
  <2> DEFINE S == <<r>> \o Tail(a.shape)
             D == a.data \o b.data
  <2> HIDE DEF S, D
  <2>1. Tensor!Cat(a, b) = [shape |-> S, data |-> D]
    BY Zenon DEF Tensor!Cat, S, D
  <2>2. Result(m).shape = S /\ v = D
    BY <1>4, <2>1
  <2>. QED
    BY <2>2 DEF S, D
<1>6. Result(m).shape \in Shape
  <2>1. a.shape # <<>>
    BY <1>2
  <2>2. Tail(a.shape) \in Shape
    BY <1>1, <2>1, HeadTailProperties DEF Shape
  <2>3. <<r>> \in Shape
    BY <1>3 DEF Shape
  <2> HIDE DEF r
  <2>. QED
    BY <1>5, <2>2, <2>3, ConcatProperties DEF Shape
<1>7. Length(m) = na + nb
  BY DEF Length, MoveOps, SingleOps, ElementWiseOps
<1>8. na + nb \in Positive
  BY <1>1 DEF Positive
<1>9. v \in Vec(na + nb)
  <2>1. Len(a.data) = na /\ Len(b.data) = nb
    <3>1. a.data = [k \in 1 .. na |-> a.data[k]] /\ b.data = [k \in 1 .. nb |-> b.data[k]]
      BY <1>1 DEF Vec
    <3>. QED
      BY <1>1, <3>1, SequenceOf DEF Positive
  <2> DEFINE x == a.data
             y == b.data
  <2>3. x \in Seq(Int) /\ y \in Seq(Int) /\ Len(x) = na /\ Len(y) = nb /\ v = x \o y
    BY <1>1, <1>5, <2>1
  <2> HIDE DEF x, y, v, na, nb
  <2>2. v \in Seq(Int) /\ Len(v) = na + nb
    BY <2>3, ConcatProperties
  <2>. QED
    BY <2>2, LenProperties, ElementOfSeq DEF Vec
<1>. QED
  BY <1>6, <1>7, <1>8, <1>9 DEF LengthIs

LEMMA ResultIs ==
  ASSUME NEW m, Remembered(m)
  PROVE  LengthIs(m, Length(m), Result(m).shape, Result(m).data)
<1>1. \/ m.op \in ElementWiseOps \/ m.op \in SingleOps \/ m.op = "matmul"
      \/ m.op \in MoveOps \/ m.op = "sum" \/ m.op = "embed" \/ m.op = "cat"
  BY DEF Remembered, ElementWiseOps, SingleOps, MoveOps, Tensor!Binary, Tensor!Unary
<1>. QED
  BY <1>1, ElementWiseResult, SingleResult, MatmulResult, MoveResult, SumResult, EmbedResult, CatResult

\* What Plain says of an entry, but that its operands differ.
Usual(m) ==
  /\ m.op \in ElementWiseOps => Leading(m)
  /\ m.op = "embed" => \A i \in DOMAIN m.arg : m.arg[i] \in 0 .. m.seen[1].shape[1] - 1

LEMMA EntryAdjoint ==
  ASSUME NEW m, Remembered(m), Usual(m), NEW d, Changes(m, d), NEW out \in Vec(Length(m))
  PROVE  Adjoint(m, out, d, Length(m))
<1>0. \/ m.op \in ElementWiseOps \/ m.op \in SingleOps \/ m.op = "matmul"
      \/ m.op \in MoveOps \/ m.op = "sum" \/ m.op = "embed" \/ m.op = "cat"
  BY DEF Remembered, ElementWiseOps, SingleOps, MoveOps, Tensor!Binary, Tensor!Unary
<1>1. CASE m.op \in ElementWiseOps
  <2>1. Length(m) = Tensor!Numel(ResultShape(m))
    BY <1>1 DEF Length, MoveOps, SingleOps, ElementWiseOps
  <2>2. Leading(m) /\ m.op \in {"add", "sub", "mul"}
    BY <1>1 DEF Usual, ElementWiseOps
  <2>. QED
    BY <2>1, <2>2, ElementWiseAdjoint
<1>2. CASE m.op \in SingleOps
  <2>1. Length(m) = Size(m.seen[1])
    BY <1>2 DEF Length, MoveOps, SingleOps, ElementWiseOps
  <2>. QED
    BY <1>2, <2>1, SingleAdjoint DEF SingleOps
<1>3. CASE m.op = "matmul"
  <2>1. Length(m) = m.seen[1].shape[1] * m.seen[2].shape[2]
    BY <1>3 DEF Length, MoveOps, SingleOps, ElementWiseOps
  <2>. QED
    BY <1>3, <2>1, MatmulAdjoint
<1>4. CASE m.op \in MoveOps
  <2>1. Length(m) = Tensor!Numel(MovedTo(m))
    BY <1>4 DEF Length, MoveOps, SingleOps, ElementWiseOps
  <2>. QED
    BY <1>4, <2>1, MovedAdjoint DEF MoveOps
<1>5. CASE m.op = "sum"
  <2>1. Length(m) = 1
    BY <1>5 DEF Length, MoveOps, SingleOps, ElementWiseOps
  <2>. QED
    BY <1>5, <2>1, SumAdjoint
<1>6. CASE m.op = "embed"
  <2>1. Length(m) = Len(m.arg) * m.seen[1].shape[2]
    BY <1>6 DEF Length, MoveOps, SingleOps, ElementWiseOps
  <2>2. \A i \in DOMAIN m.arg : m.arg[i] \in 0 .. m.seen[1].shape[1] - 1
    BY <1>6 DEF Usual
  <2>. QED
    BY <1>6, <2>1, <2>2, EmbedAdjoint
<1>7. CASE m.op = "cat"
  <2>1. Length(m) = Size(m.seen[1]) + Size(m.seen[2])
    BY <1>7 DEF Length, MoveOps, SingleOps, ElementWiseOps
  <2>. QED
    BY <1>7, <2>1, CatAdjoint
<1>. QED
  BY <1>0, <1>1, <1>2, <1>3, <1>4, <1>5, <1>6, <1>7

-----------------------------------------------------------------------------
(* Gradients and tangents of all tensors.                                  *)

W(i) == Tensor!Numel(tensors[i].shape)

\* What is known of a tensor, and of how it was made.
Typed(i) ==
  /\ tensors[i].shape \in Shape /\ tensors[i].data \in Seq(Int)
  /\ tensors[i].grad = Tensor!NoGrad \/ tensors[i].grad \in Vec(W(i))

Made(i) ==
  LET m == made[i]
  IN IF m.op = "leaf" THEN Tensor!Fits(tensors[i])
     ELSE /\ Remembered(m)
          /\ m.in = [p \in 1 .. Operands(m) |-> m.in[p]]
          /\ \A p \in 1 .. Operands(m) : /\ m.in[p] \in 1 .. i - 1
                                         /\ Tensor!Fits(tensors[m.in[p]])
                                         /\ m.seen[p].shape = tensors[m.in[p]].shape
          /\ tensors[i].shape = Result(m).shape /\ Len(tensors[i].data) = Length(m)

Known ==
  /\ Shaped
  /\ \A i \in 1 .. Len(tensors) : Typed(i) /\ Made(i)

LEMMA KnownIds ==
  ASSUME Known
  PROVE  /\ Len(tensors) \in Nat /\ Tensor!Ids = 1 .. Len(tensors)
         /\ \A i \in Tensor!Ids : Typed(i) /\ Made(i) /\ W(i) \in Positive /\ W(i) \in Nat
<1>1. Len(tensors) \in Nat /\ Tensor!Ids = 1 .. Len(tensors)
  BY DEF Known, Shaped, Tensor!Ids
<1>2. \A i \in Tensor!Ids : Typed(i) /\ Made(i) /\ tensors[i].shape \in Shape
  BY DEF Known, Typed, Tensor!Ids
<1>3. \A i \in Tensor!Ids : W(i) \in Positive
  BY <1>2, NumelPositive DEF W
<1>. QED
  BY <1>1, <1>2, <1>3 DEF Positive

\* A gradient of each tensor; a change of each.
Graded(g) ==
  /\ g = [i \in Tensor!Ids |-> g[i]]
  /\ \A i \in Tensor!Ids : g[i] = Tensor!NoGrad \/ g[i] \in Vec(W(i))

Changing(T) ==
  /\ T = [i \in Tensor!Ids |-> T[i]]
  /\ \A i \in Tensor!Ids : Tensor!Fits(tensors[i]) => T[i] \in Vec(W(i))

\* What the change of each tensor weighs by its gradient, together.
Term(g, T) ==
  [i \in Tensor!Ids |->
     IF Tensor!Fits(tensors[i]) THEN Dot(Tensor!Grown(g, i), T[i], W(i)) ELSE 0]
Pair(g, T) == Tensor!Total(Term(g, T), Len(tensors))

LEMMA DotPlus ==
  ASSUME NEW n \in Nat, NEW u \in Vec(n), NEW v \in Vec(n), NEW w \in Vec(n), NEW x \in Vec(n),
         \A k \in 1 .. n : w[k] = u[k] + v[k]
  PROVE  Dot(w, x, n) = Dot(u, x, n) + Dot(v, x, n)
<1> DEFINE f == [k \in 1 .. n |-> u[k] * x[k]]
           g == [k \in 1 .. n |-> v[k] * x[k]]
           h == [k \in 1 .. n |-> w[k] * x[k]]
<1>1. \A k \in 1 .. n : f[k] = u[k] * x[k] /\ g[k] = v[k] * x[k] /\ h[k] = w[k] * x[k]
  OBVIOUS
<1> HIDE DEF f, g, h
<1>2. /\ Ints(f, n) /\ Dot(u, x, n) = Tensor!Total(f, n)
      /\ Ints(g, n) /\ Dot(v, x, n) = Tensor!Total(g, n)
      /\ Dot(w, x, n) = Tensor!Total(h, n)
  BY <1>1, DotIs
<1>3. \A k \in 1 .. n : h[k] = f[k] + g[k]
  <2> TAKE k \in 1 .. n
  <2> DEFINE a == u[k]
             b == v[k]
             c == x[k]
  <2>1. a \in Int /\ b \in Int /\ c \in Int
    BY DEF Vec
  <2>2. f[k] = a * c /\ g[k] = b * c /\ h[k] = (a + b) * c
    BY <1>1
  <2> HIDE DEF a, b, c
  <2>. QED
    BY <2>1, <2>2
<1>. QED
  BY <1>2, <1>3, TotalPlus

LEMMA DotZero ==
  ASSUME NEW n \in Nat, NEW u \in Vec(n), NEW x \in Vec(n),
         (\A k \in 1 .. n : u[k] = 0) \/ (\A k \in 1 .. n : x[k] = 0)
  PROVE  Dot(u, x, n) = 0
<1> DEFINE f == [k \in 1 .. n |-> u[k] * x[k]]
<1>1. \A k \in 1 .. n : u[k] \in Int /\ x[k] \in Int
  BY DEF Vec
<1>2. \A k \in 1 .. n : f[k] = 0
  BY <1>1
<1>3. Dot(u, x, n) = Tensor!Total(f, n)
  BY DEF Dot
<1> HIDE DEF f
<1>. QED
  BY <1>2, <1>3, TotalZero

\* The one element of x that is not 0.
LEMMA DotUnit ==
  ASSUME NEW n \in Nat, NEW u \in Vec(n), NEW x \in Vec(n), NEW k \in 1 .. n,
         \A j \in 1 .. n : x[j] = IF j = k THEN 1 ELSE 0
  PROVE  Dot(u, x, n) = u[k]
<1> DEFINE f == [j \in 1 .. n |-> u[j] * x[j]]
<1>1. \A j \in 1 .. n : u[j] \in Int
  BY DEF Vec
<1>2. \A j \in 1 .. n : f[j] = IF j = k THEN u[k] ELSE 0
  BY <1>1
<1>3. Dot(u, x, n) = Tensor!Total(f, n)
  BY DEF Dot
<1> HIDE DEF f
<1>4. Ints(f, n)
  BY <1>1, <1>2 DEF Ints
<1>. QED
  BY <1>2, <1>3, <1>4, TotalSingle

LEMMA GrownVec ==
  ASSUME Known, NEW g, Graded(g), NEW i \in Tensor!Ids
  PROVE  /\ Tensor!Grown(g, i) \in Vec(W(i))
         /\ g[i] = Tensor!NoGrad => \A k \in 1 .. W(i) : Tensor!Grown(g, i)[k] = 0
         /\ g[i] # Tensor!NoGrad => Tensor!Grown(g, i) = g[i]
<1>1. Tensor!Grown(g, i) = IF g[i] = Tensor!NoGrad THEN [k \in 1 .. W(i) |-> 0] ELSE g[i]
  BY DEF Tensor!Grown, W
<1>2. g[i] = Tensor!NoGrad \/ g[i] \in Vec(W(i))
  BY DEF Graded
<1>3. CASE g[i] = Tensor!NoGrad
  <2>1. Tensor!Grown(g, i) = [k \in 1 .. W(i) |-> 0]
    BY <1>1, <1>3
  <2>. QED
    BY <1>3, <2>1 DEF Vec
<1>4. CASE g[i] # Tensor!NoGrad
  BY <1>1, <1>2, <1>4
<1>. QED
  BY <1>3, <1>4

LEMMA TermInt ==
  ASSUME Known, NEW g, Graded(g), NEW T, Changing(T)
  PROVE  Ints(Term(g, T), Len(tensors))
<1>1. ASSUME NEW i \in Tensor!Ids PROVE Term(g, T)[i] \in Int
  <2>1. CASE Tensor!Fits(tensors[i])
    <3> DEFINE u == Tensor!Grown(g, i)
               x == T[i]
               n == W(i)
               f == [k \in 1 .. n |-> u[k] * x[k]]
    <3>1. u \in Vec(n) /\ x \in Vec(n) /\ n \in Nat
      BY <2>1, GrownVec, KnownIds DEF Changing
    <3>2. Term(g, T)[i] = Dot(u, x, n)
      BY <2>1 DEF Term
    <3>3. \A k \in 1 .. n : f[k] = u[k] * x[k]
      OBVIOUS
    <3> HIDE DEF u, x, n, f
    <3>. QED
      BY <3>1, <3>2, <3>3, DotIs
  <2>2. CASE ~Tensor!Fits(tensors[i])
    BY <2>2 DEF Term
  <2>. QED
    BY <2>1, <2>2
<1>. QED
  BY <1>1, KnownIds DEF Ints

LEMMA PairAdds ==
  ASSUME Known, NEW g, Graded(g), NEW T, Changing(T),
         NEW t \in Tensor!Ids, Tensor!Fits(tensors[t]), NEW v \in Vec(W(t))
  PROVE  /\ Graded(Tensor!Adds(g, t, v))
         /\ \A i \in Tensor!Ids \ {t} : Tensor!Adds(g, t, v)[i] = g[i]
         /\ Pair(Tensor!Adds(g, t, v), T) = Pair(g, T) + Dot(v, T[t], W(t))
<1> DEFINE h == Tensor!Adds(g, t, v)
           n == W(t)
           u == Tensor!Grown(g, t)
           w == Tensor!Added(g, t, v)
           x == T[t]
<1>0. n \in Positive /\ n \in Nat /\ Len(tensors) \in Nat /\ Tensor!Ids = 1 .. Len(tensors)
  BY KnownIds
<1>1. u \in Vec(n) /\ v \in Vec(n) /\ x \in Vec(n)
  BY GrownVec DEF Changing
<1>2. w = [k \in 1 .. n |-> u[k] + v[k]]
  BY <1>1 DEF Tensor!Added, Vec
<1>3. w \in Vec(n) /\ \A k \in 1 .. n : w[k] = u[k] + v[k]
  <2>1. \A k \in 1 .. n : u[k] \in Int /\ v[k] \in Int
    BY <1>1 DEF Vec
  <2> HIDE DEF w, n
  <2>. QED
    BY <1>2, <2>1 DEF Vec
<1>4. h = [g EXCEPT ![t] = w]
  BY DEF Tensor!Adds
<1>5. g = [i \in Tensor!Ids |-> g[i]] /\ \A i \in Tensor!Ids : g[i] = Tensor!NoGrad \/ g[i] \in Vec(W(i))
  BY DEF Graded
<1> HIDE DEF h, w, u, x
<1>6. Graded(h) /\ h[t] = w /\ \A i \in Tensor!Ids \ {t} : h[i] = g[i]
  BY <1>3, <1>4, <1>5 DEF Graded
<1>7. Tensor!Grown(h, t) = w
  <2>1. w # Tensor!NoGrad
    <3>1. 1 \in DOMAIN w
      BY <1>0, <1>2 DEF Positive
    <3>2. DOMAIN Tensor!NoGrad = {}
      BY DEF Tensor!NoGrad
    <3>. QED
      BY <3>1, <3>2
  <2>. QED
    BY <1>6, <2>1, GrownVec
<1>8. \A i \in Tensor!Ids \ {t} : Tensor!Grown(h, i) = Tensor!Grown(g, i)
  BY <1>6 DEF Tensor!Grown
<1>9. Term(h, T)[t] = Dot(w, x, n) /\ Term(g, T)[t] = Dot(u, x, n)
  BY <1>7 DEF Term, u, x
<1>10. \A i \in Tensor!Ids \ {t} : Term(h, T)[i] = Term(g, T)[i]
  BY <1>8 DEF Term
<1>11. Dot(w, x, n) = Dot(u, x, n) + Dot(v, x, n)
  BY <1>0, <1>1, <1>3, DotPlus
<1>12. Ints(Term(g, T), Len(tensors)) /\ Ints(Term(h, T), Len(tensors))
  BY <1>6, TermInt
<1> DEFINE p == Term(g, T)
           q == Term(h, T)
           N == Len(tensors)
<1>13. Ints(p, N) /\ Ints(q, N) /\ N \in Nat /\ t \in 1 .. N /\ \A i \in 1 .. N : i # t => q[i] = p[i]
  BY <1>0, <1>10, <1>12
<1>14. q[t] = Dot(u, x, n) + Dot(v, x, n) /\ p[t] = Dot(u, x, n)
  BY <1>9, <1>11
<1>15. Pair(h, T) = Tensor!Total(q, N) /\ Pair(g, T) = Tensor!Total(p, N)
  BY DEF Pair
<1> HIDE DEF p, q, N, n
<1>16. q[t] \in Int /\ p[t] \in Int
  BY <1>13 DEF Ints
<1>17. Tensor!Total(q, N) = Tensor!Total(p, N) + (q[t] - p[t])
  BY <1>13, <1>16, TotalExcept
<1>18. Dot(v, x, n) \in Int
  <2> DEFINE f == [k \in 1 .. n |-> v[k] * x[k]]
  <2>1. \A k \in 1 .. n : f[k] = v[k] * x[k]
    OBVIOUS
  <2> HIDE DEF f
  <2>. QED
    BY <1>0, <1>1, <2>1, DotIs DEF n
<1>19. q[t] - p[t] = Dot(v, x, n)
  BY <1>14, <1>16, <1>18
<1>. QED
  BY <1>6, <1>15, <1>17, <1>19 DEF h, x, n

LEMMA PairChange ==
  ASSUME Known, NEW g, Graded(g), NEW T, Changing(T),
         NEW e \in Tensor!Ids, Tensor!Fits(tensors[e]), NEW u \in Vec(W(e)),
         \A k \in 1 .. W(e) : T[e][k] = 0
  PROVE  /\ Changing([T EXCEPT ![e] = u])
         /\ Pair(g, [T EXCEPT ![e] = u]) = Pair(g, T) + Dot(Tensor!Grown(g, e), u, W(e))
<1> DEFINE n == W(e)
           S == [T EXCEPT ![e] = u]
           x == T[e]
           w == Tensor!Grown(g, e)
<1>0. n \in Positive /\ n \in Nat /\ Len(tensors) \in Nat /\ Tensor!Ids = 1 .. Len(tensors)
  BY KnownIds
<1>1. w \in Vec(n) /\ x \in Vec(n) /\ \A k \in 1 .. n : x[k] = 0
  BY GrownVec DEF Changing
<1>2. T = [i \in Tensor!Ids |-> T[i]] /\ \A i \in Tensor!Ids : Tensor!Fits(tensors[i]) => T[i] \in Vec(W(i))
  BY DEF Changing
<1>3. S = [T EXCEPT ![e] = u]
  OBVIOUS
<1> HIDE DEF S, x, w
<1>4. Changing(S) /\ S[e] = u /\ \A i \in Tensor!Ids \ {e} : S[i] = T[i]
  BY <1>2, <1>3 DEF Changing
<1>5. Term(g, S)[e] = Dot(w, u, n) /\ Term(g, T)[e] = Dot(w, x, n)
  BY <1>4 DEF Term, w, x
<1>6. \A i \in Tensor!Ids \ {e} : Term(g, S)[i] = Term(g, T)[i]
  BY <1>4 DEF Term
<1>7. Dot(w, x, n) = 0
  BY <1>0, <1>1, DotZero
<1>8. Ints(Term(g, T), Len(tensors)) /\ Ints(Term(g, S), Len(tensors))
  BY <1>4, TermInt
<1> DEFINE p == Term(g, T)
           q == Term(g, S)
           N == Len(tensors)
<1>13. Ints(p, N) /\ Ints(q, N) /\ N \in Nat /\ e \in 1 .. N /\ \A i \in 1 .. N : i # e => q[i] = p[i]
  BY <1>0, <1>6, <1>8
<1>14. q[e] = Dot(w, u, n) /\ p[e] = 0
  BY <1>5, <1>7
<1>15. Pair(g, S) = Tensor!Total(q, N) /\ Pair(g, T) = Tensor!Total(p, N)
  BY DEF Pair
<1> HIDE DEF p, q, N, n
<1>16. q[e] \in Int
  BY <1>13 DEF Ints
<1>17. Tensor!Total(q, N) = Tensor!Total(p, N) + (q[e] - p[e])
  BY <1>13, <1>16, TotalExcept
<1>. QED
  BY <1>4, <1>14, <1>15, <1>16, <1>17 DEF S, w, n

\* An entry of the tape that backward differentiates.
Entry(e) == e \in Tensor!Ids /\ made[e].op # "leaf" /\ Tensor!Plain(e)

LEMMA EntryFacts ==
  ASSUME Known, NEW e, Entry(e)
  PROVE  /\ Remembered(made[e]) /\ Usual(made[e])
         /\ Length(made[e]) = W(e) /\ Tensor!Fits(tensors[e])
         /\ DOMAIN made[e].in = 1 .. Operands(made[e]) /\ Len(made[e].in) = Operands(made[e])
         /\ \A p \in 1 .. Operands(made[e]) :
              /\ made[e].in[p] \in Tensor!Ids /\ made[e].in[p] < e
              /\ Tensor!Fits(tensors[made[e].in[p]])
              /\ Size(made[e].seen[p]) = W(made[e].in[p])
         /\ made[e].op \in ElementWiseOps => made[e].in[1] # made[e].in[2]
<1> DEFINE m == made[e]
<1>0. e \in Tensor!Ids /\ m.op # "leaf" /\ Tensor!Plain(e)
  BY DEF Entry
<1>1. Len(tensors) \in Nat /\ Tensor!Ids = 1 .. Len(tensors) /\ Made(e) /\ Typed(e)
  BY <1>0, KnownIds
<1>2. /\ Remembered(m)
      /\ m.in = [p \in 1 .. Operands(m) |-> m.in[p]]
      /\ \A p \in 1 .. Operands(m) : /\ m.in[p] \in 1 .. e - 1
                                     /\ Tensor!Fits(tensors[m.in[p]])
                                     /\ m.seen[p].shape = tensors[m.in[p]].shape
      /\ tensors[e].shape = Result(m).shape /\ Len(tensors[e].data) = Length(m)
  BY <1>0, <1>1 DEF Made
<1>3. Operands(m) \in Nat
  BY DEF Operands
<1>4. LengthIs(m, Length(m), Result(m).shape, Result(m).data)
  BY <1>2, ResultIs
<1>5. Usual(m)
  <2>1. CASE m.op \in ElementWiseOps
    <3>1. m.op # "embed" /\ m.op \in {"add", "sub", "mul"}
      BY <2>1 DEF ElementWiseOps
    <3>2. Leading(m)
      BY <1>0, <3>1 DEF Tensor!Plain, Leading, ResultShape, Size
    <3>. QED
      BY <3>1, <3>2 DEF Usual
  <2>2. CASE m.op = "embed"
    <3>1. ~(m.op \in ElementWiseOps)
      BY <2>2 DEF ElementWiseOps
    <3>2. \A i \in DOMAIN m.arg : m.arg[i] \in 0 .. m.seen[1].shape[1] - 1
      BY <1>0, <2>2 DEF Tensor!Plain
    <3>. QED
      BY <3>1, <3>2 DEF Usual
  <2>3. CASE ~(m.op \in ElementWiseOps) /\ m.op # "embed"
    BY <2>3 DEF Usual
  <2>. QED
    BY <2>1, <2>2, <2>3
<1>6. Length(m) = W(e) /\ Tensor!Fits(tensors[e])
  <2>1. CASE m.op = "cat"
    <3>1. Tensor!Fits(tensors[e])
      BY <1>0, <2>1 DEF Tensor!Plain
    <3>. QED
      BY <1>2, <3>1 DEF Tensor!Fits, W
  <2>2. CASE m.op # "cat"
    <3>1. W(e) = Length(m)
      BY <1>2, <1>4, <2>2 DEF LengthIs, W
    <3>. QED
      BY <1>2, <3>1 DEF Tensor!Fits, W
  <2>. QED
    BY <2>1, <2>2
<1>7. DOMAIN m.in = 1 .. Operands(m) /\ Len(m.in) = Operands(m)
  BY <1>2, <1>3, SequenceOf
<1>8. ASSUME NEW p \in 1 .. Operands(m)
      PROVE  /\ m.in[p] \in Tensor!Ids /\ m.in[p] < e /\ Tensor!Fits(tensors[m.in[p]])
             /\ Size(m.seen[p]) = W(m.in[p])
  <2>1. m.in[p] \in 1 .. e - 1 /\ Tensor!Fits(tensors[m.in[p]]) /\ m.seen[p].shape = tensors[m.in[p]].shape
    BY <1>2
  <2>. QED
    BY <1>0, <1>1, <2>1 DEF Size, W
<1>9. m.op \in ElementWiseOps => m.in[1] # m.in[2]
  BY <1>0 DEF Tensor!Plain, ElementWiseOps
<1>. QED
  BY <1>2, <1>5, <1>6, <1>7, <1>8, <1>9

\* The change of the operands.
Moves(m, T) == [p \in DOMAIN m.in |-> T[m.in[p]]]

LEMMA EntryRuns ==
  ASSUME Known, NEW e, Entry(e), NEW g, Graded(g), NEW T, Changing(T)
  PROVE  /\ Graded(Tensor!RunEntry(e, g))
         /\ Tensor!Tangent(made[e], Moves(made[e], T)) \in Vec(W(e))
         /\ Pair(Tensor!RunEntry(e, g), T)
              = Pair(g, T) + Dot(Tensor!Grown(g, e), Tensor!Tangent(made[e], Moves(made[e], T)), W(e))
<1> DEFINE m == made[e]
           d == Moves(m, T)
           t == Tensor!Tangent(m, d)
           v == Tensor!Back(m, g[e])
           a == m.in[1]
           b == m.in[2]
           n == W(e)
<1>0. e \in Tensor!Ids
  BY DEF Entry
<1>1. /\ Remembered(m) /\ Usual(m)
      /\ Length(m) = n /\ Tensor!Fits(tensors[e])
      /\ DOMAIN m.in = 1 .. Operands(m) /\ Len(m.in) = Operands(m)
      /\ \A p \in 1 .. Operands(m) :
           /\ m.in[p] \in Tensor!Ids /\ m.in[p] < e
           /\ Tensor!Fits(tensors[m.in[p]])
           /\ Size(m.seen[p]) = W(m.in[p])
      /\ m.op \in ElementWiseOps => m.in[1] # m.in[2]
  BY EntryFacts
<1>2. n \in Nat
  BY <1>0, KnownIds
<1>3. Changes(m, d)
  <2>1. ASSUME NEW p \in 1 .. Operands(m) PROVE d[p] \in Vec(Size(m.seen[p]))
    <3>1. d[p] = T[m.in[p]]
      BY <1>1 DEF Moves
    <3>2. T[m.in[p]] \in Vec(W(m.in[p]))
      BY <1>1 DEF Changing
    <3>. QED
      BY <1>1, <3>1, <3>2
  <2>. QED
    BY <2>1 DEF Changes
<1>d. \A p \in 1 .. Operands(m) : d[p] = T[m.in[p]]
  BY <1>1 DEF Moves
<1> HIDE DEF d
<1>4. \A out \in Vec(n) : Adjoint(m, out, d, n)
  BY <1>1, <1>3, EntryAdjoint
<1>5. t \in Vec(n)
  <2> DEFINE z == [k \in 1 .. n |-> 0]
  <2>1. z \in Vec(n)
    BY DEF Vec
  <2> HIDE DEF z
  <2>2. Adjoint(m, z, d, n)
    BY <1>4, <2>1
  <2>. QED
    BY <2>2 DEF Adjoint
<1>6. CASE g[e] = Tensor!NoGrad
  <2>1. Tensor!RunEntry(e, g) = g
    BY <1>6 DEF Tensor!RunEntry
  <2>2. Tensor!Grown(g, e) \in Vec(n) /\ \A k \in 1 .. n : Tensor!Grown(g, e)[k] = 0
    BY <1>0, <1>6, GrownVec
  <2>3. Dot(Tensor!Grown(g, e), t, n) = 0
    BY <1>2, <1>5, <2>2, DotZero
  <2>4. Pair(g, T) \in Int
    BY TermInt, TotalInt, KnownIds DEF Pair
  <2>. QED
    BY <1>5, <2>1, <2>3, <2>4 DEF d
<1>7. CASE g[e] # Tensor!NoGrad
  <2>1. g[e] \in Vec(n) /\ Tensor!Grown(g, e) = g[e]
    BY <1>0, <1>7, GrownVec DEF Graded
  <2>2. Adjoint(m, g[e], d, n)
    BY <1>4, <2>1
  <2>3. /\ \A p \in 1 .. Operands(m) : v[p] \in Vec(Size(m.seen[p]))
        /\ Dot(g[e], t, n) = IF Operands(m) = 1 THEN Dot(v[1], d[1], Size(m.seen[1]))
                             ELSE Dot(v[1], d[1], Size(m.seen[1])) + Dot(v[2], d[2], Size(m.seen[2]))
    BY <2>2 DEF Adjoint
  <2>4. CASE Operands(m) = 1
    <3>1. /\ a \in Tensor!Ids /\ Tensor!Fits(tensors[a]) /\ v[1] \in Vec(W(a))
          /\ d[1] = T[a] /\ Dot(g[e], t, n) = Dot(v[1], T[a], W(a))
      BY <1>1, <1>d, <2>3, <2>4
    <3>2. Tensor!RunEntry(e, g) = Tensor!Adds(g, a, v[1])
      <4>1. ~(m.op \in {"add", "sub", "mul"}) /\ ~(m.op \in {"matmul", "cat"}) /\ Len(m.in) = 1
        BY <1>1, <2>4 DEF Operands, Tensor!Binary
      <4>. QED
        BY <1>7, <4>1 DEF Tensor!RunEntry
    <3> HIDE DEF v, a
    <3>3. /\ Graded(Tensor!Adds(g, a, v[1]))
          /\ Pair(Tensor!Adds(g, a, v[1]), T) = Pair(g, T) + Dot(v[1], T[a], W(a))
      BY <3>1, PairAdds
    <3>. QED
      BY <1>5, <2>1, <3>1, <3>2, <3>3 DEF d
  <2>5. CASE Operands(m) = 2
    <3> DEFINE x == v[1]
               y == v[2]
               h == Tensor!Adds(g, a, x)
               f == Tensor!Adds(h, b, y)
    <3>1. /\ a \in Tensor!Ids /\ Tensor!Fits(tensors[a]) /\ x \in Vec(W(a))
          /\ b \in Tensor!Ids /\ Tensor!Fits(tensors[b]) /\ y \in Vec(W(b))
          /\ Dot(g[e], t, n) = Dot(x, T[a], W(a)) + Dot(y, T[b], W(b))
      BY <1>1, <1>d, <2>3, <2>5
    <3>2. Tensor!RunEntry(e, g) = f
      <4>1. m.op \in Tensor!Binary
        BY <2>5 DEF Operands
      <4>2. Len(m.in) = 2
        BY <1>1, <2>5
      <4>3. CASE m.op \in {"matmul", "cat"}
        BY <1>7, <4>2, <4>3 DEF Tensor!RunEntry
      <4>4. CASE m.op \in {"add", "sub", "mul"}
        <5>1. a # b
          BY <1>1, <4>4 DEF ElementWiseOps
        <5>2. Tensor!RunEntry(e, g) = [g EXCEPT ![a] = Tensor!Added(g, a, x), ![b] = Tensor!Added(g, b, y)]
          BY <1>7, <4>2, <4>4 DEF Tensor!RunEntry
        <5> HIDE DEF a, b, x, y, v, m
        <5>3. h = [g EXCEPT ![a] = Tensor!Added(g, a, x)] /\ f = [h EXCEPT ![b] = Tensor!Added(h, b, y)]
          BY DEF Tensor!Adds
        <5>4. h[b] = g[b]
          BY <3>1, <5>1, PairAdds
        <5>5. Tensor!Added(h, b, y) = Tensor!Added(g, b, y)
          <6>1. Tensor!Grown(h, b) = Tensor!Grown(g, b)
            BY <5>4 DEF Tensor!Grown
          <6> HIDE DEF h
          <6>. QED
            BY <6>1 DEF Tensor!Added
        <5> DEFINE p == Tensor!Added(g, a, x)
                   q == Tensor!Added(g, b, y)
        <5> HIDE DEF p, q
        <5>6. h = [g EXCEPT ![a] = p] /\ f = [h EXCEPT ![b] = q]
              /\ Tensor!RunEntry(e, g) = [g EXCEPT ![a] = p, ![b] = q]
          BY <5>2, <5>3, <5>5 DEF p, q
        <5> HIDE DEF h, f
        <5>. QED
          BY <5>6
      <4>. QED
        BY <4>1, <4>3, <4>4 DEF Tensor!Binary
    <3> HIDE DEF x, y, a, b, h, f
    <3>3. Graded(h) /\ Pair(h, T) = Pair(g, T) + Dot(x, T[a], W(a))
      BY <3>1, PairAdds DEF h
    <3>4. Graded(f) /\ Pair(f, T) = Pair(h, T) + Dot(y, T[b], W(b))
      BY <3>1, <3>3, PairAdds DEF f
    <3>5. /\ Pair(g, T) \in Int /\ Dot(x, T[a], W(a)) \in Int /\ Dot(y, T[b], W(b)) \in Int
      <4>1. T[a] \in Vec(W(a)) /\ T[b] \in Vec(W(b)) /\ W(a) \in Nat /\ W(b) \in Nat
        BY <3>1, KnownIds DEF Changing
      <4>2. Pair(g, T) \in Int
        BY TermInt, TotalInt, KnownIds DEF Pair
      <4>3. \A k \in Nat : \A r \in Vec(k) : \A s \in Vec(k) : Dot(r, s, k) \in Int
        <5> TAKE k \in Nat
        <5> TAKE r \in Vec(k)
        <5> TAKE s \in Vec(k)
        <5> DEFINE z == [j \in 1 .. k |-> r[j] * s[j]]
        <5>1. \A j \in 1 .. k : z[j] = r[j] * s[j]
          OBVIOUS
        <5> HIDE DEF z
        <5>. QED
          BY <5>1, DotIs
      <4>. QED
        BY <3>1, <4>1, <4>2, <4>3
    <3>6. Pair(f, T) = Pair(g, T) + (Dot(x, T[a], W(a)) + Dot(y, T[b], W(b)))
      BY <3>3, <3>4, <3>5
    <3>. QED
      BY <1>5, <2>1, <3>1, <3>2, <3>4, <3>6 DEF d
  <2>. QED
    BY <2>4, <2>5 DEF Operands
<1>. QED
  BY <1>6, <1>7

-----------------------------------------------------------------------------
(* What backward leaves, whatever is on the tape.                          *)

LEMMA ElementWiseBackVec ==
  ASSUME NEW m, Remembered(m), m.op \in ElementWiseOps, NEW out \in Vec(Length(m))
  PROVE  \A p \in 1 .. Operands(m) : Tensor!Back(m, out)[p] \in Vec(Size(m.seen[p]))
<1> DEFINE n == Tensor!Numel(ResultShape(m))
           N(p) == Size(m.seen[p])
           to(p) == [k \in 1 .. n |-> 1 + ((k - 1) % N(p))]
           part(p) == [k \in 1 .. n |-> out[k] * PartialAt(m, p, k)]
           b(p) == Tensor!Back(m, out)[p]
<1>0. /\ Operands(m) = 2
      /\ \A p \in 1 .. 2 : /\ N(p) \in Positive /\ m.seen[p].shape \in Shape
                           /\ m.seen[p].data \in Vec(N(p))
  <2>1. m.op \in Tensor!Binary
    BY DEF Tensor!Binary, ElementWiseOps
  <2>. QED
    BY <2>1, TwoSeen
<1>1. /\ ResultShape(m) \in Shape
      /\ \A p \in 1 .. 2 : Len(m.seen[p].shape) <= Len(ResultShape(m))
  BY <1>0, BroadcastIsShape DEF ResultShape
<1>2. n \in Nat /\ out \in Vec(n)
  <2>1. Length(m) = n
    BY DEF Length, ElementWiseOps, SingleOps, MoveOps
  <2>. QED
    BY <1>1, <2>1, NumelPositive DEF Positive
<1>3. b(1) = Tensor!Gathered(N(1), to(1), part(1)) /\ b(2) = Tensor!Gathered(N(2), to(2), part(2))
  <2>1. DOMAIN out = 1 .. n
    BY <1>2 DEF Vec
  <2>2. m.op \in {"add", "sub", "mul"}
    BY DEF ElementWiseOps
  <2>. QED
    BY <2>1, <2>2 DEF Tensor!Back, Tensor!ElementWiseBack, PartialAt, From, ResultShape, Size
<1>4. ASSUME NEW p \in 1 .. 2, NEW k \in 1 .. n PROVE m.seen[p].data[From(m, p, k) + 1] \in Int
  <2> DEFINE z == m.seen[p].shape
             s == ResultShape(m)
             i == k - 1
             f == Tensor!Spread(z, s, i)
  <2>1. i \in Nat
    BY <1>2
  <2>2. z \in Shape /\ s \in Shape /\ Len(z) <= Len(s) /\ N(p) = Tensor!Numel(z) /\ From(m, p, k) = f
    BY <1>0, <1>1 DEF From, Size
  <2>3. N(p) \in Positive
    BY <1>0
  <2>4. m.seen[p].data \in Vec(N(p))
    BY <1>0
  <2> HIDE DEF i, z, s, N
  <2>5. f \in 0 .. N(p) - 1
    BY <2>1, <2>2, SpreadWithin
  <2> HIDE DEF f
  <2>6. f + 1 \in 1 .. N(p)
    BY <2>3, <2>5 DEF Positive
  <2>. QED
    BY <2>2, <2>4, <2>6 DEF Vec
<1>5. ASSUME NEW p \in 1 .. 2, NEW k \in 1 .. n PROVE PartialAt(m, p, k) \in Int
  <2>1. m.seen[1].data[From(m, 1, k) + 1] \in Int /\ m.seen[2].data[From(m, 2, k) + 1] \in Int
    BY <1>4
  <2>. QED
    BY <2>1 DEF PartialAt, Tensor!At, Tensor!Partial, ElementWiseOps
<1>c. \A k \in 1 .. n : out[k] \in Int
  BY <1>2 DEF Vec
<1>6. ASSUME NEW p \in 1 .. 2 PROVE Tensor!Gathered(N(p), to(p), part(p)) \in Vec(N(p))
  <2> DEFINE q == part(p)
             w == to(p)
             v == N(p)
  <2>1. Ints(q, n) /\ q = [k \in 1 .. n |-> q[k]] /\ v \in Nat
    BY <1>0, <1>5, <1>c DEF Ints, Positive
  <2> HIDE DEF q, w, v, n
  <2>2. Tensor!Gathered(v, w, q) \in Vec(v)
    BY <1>2, <2>1, GatheredVec
  <2>. QED
    BY <2>2 DEF q, w, v
<1> HIDE DEF b, to, part, n, N
<1>7. b(1) \in Vec(N(1)) /\ b(2) \in Vec(N(2))
  BY <1>3, <1>6
<1>8. \A p \in 1 .. 2 : p = 1 \/ p = 2
  OBVIOUS
<1>9. \A p \in 1 .. 2 : b(p) \in Vec(N(p))
  BY <1>7, <1>8
<1>. QED
  BY <1>0, <1>9 DEF b, N

LEMMA EmbedBackVec ==
  ASSUME NEW m, Remembered(m), m.op = "embed", NEW out \in Vec(Length(m))
  PROVE  Tensor!Back(m, out)[1] \in Vec(Size(m.seen[1]))
<1> DEFINE s == m.seen[1].shape
           vocab == s[1]
           dim == s[2]
           row(k) == Tensor!At(m.arg, (k - 1) \div dim)
           n == Length(m)
           to == [k \in DOMAIN out |-> IF row(k) \in 0 .. vocab - 1
                                       THEN row(k) * dim + ((k - 1) % dim) + 1 ELSE 0]
<1>0. s \in Shape /\ Len(s) = 2
  <2>1. m.op \in Tensor!Unary
    BY DEF Tensor!Unary
  <2>2. s \in Shape /\ Tensor!Accepts(m.op, [p \in 1 .. 1 |-> m.seen[p].shape], m.arg)
    BY <2>1, OneSeen
  <2>. QED
    BY <2>2 DEF Tensor!Accepts
<1>1. vocab \in Positive /\ dim \in Positive /\ Size(m.seen[1]) = vocab * dim
  BY <1>0, NumelMatrix DEF Size
<1>2. n \in Nat
  BY ResultIs DEF LengthIs, Positive
<1>3. Tensor!Back(m, out) = <<Tensor!Gathered(vocab * dim, to, out)>>
  BY DEF Tensor!Back, Tensor!EmbedBack
<1>4. Ints(out, n) /\ out = [k \in 1 .. n |-> out[k]]
  BY DEF Vec, Ints
<1> DEFINE N == vocab * dim
<1>5. N \in Nat
  BY <1>1 DEF Positive
<1> HIDE DEF to, n, N, vocab, dim
<1>6. Tensor!Gathered(N, to, out) \in Vec(N)
  BY <1>2, <1>4, <1>5, GatheredVec
<1>. QED
  BY <1>1, <1>3, <1>6 DEF N

LEMMA CatBackVec ==
  ASSUME NEW m, Remembered(m), m.op = "cat", NEW n, NEW out \in Vec(n)
  PROVE  \A p \in 1 .. Operands(m) : Tensor!Back(m, out)[p] \in Vec(Size(m.seen[p]))
<1>1. Operands(m) = 2 /\ m.seen[1].data \in Vec(Size(m.seen[1])) /\ m.seen[2].data \in Vec(Size(m.seen[2]))
  <2>1. m.op \in Tensor!Binary
    BY DEF Tensor!Binary
  <2>2. Operands(m) = 2 /\ \A p \in 1 .. 2 : m.seen[p].data \in Vec(Size(m.seen[p]))
    BY <2>1, TwoSeen
  <2>. QED
    BY <2>2
<1> DEFINE a == Tensor!Back(m, out)[1]
           b == Tensor!Back(m, out)[2]
           l == Len(m.seen[1].data)
<1>2. /\ a = [k \in DOMAIN m.seen[1].data |-> IF 0 + k \in DOMAIN out THEN out[0 + k] ELSE 0]
      /\ b = [k \in DOMAIN m.seen[2].data |-> IF l + k \in DOMAIN out THEN out[l + k] ELSE 0]
  BY DEF Tensor!Back, Tensor!CatBack
<1>3. DOMAIN out = 1 .. n /\ \A k \in DOMAIN out : out[k] \in Int
  BY DEF Vec
<1> HIDE DEF a, b, l
<1>4. a \in Vec(Size(m.seen[1])) /\ b \in Vec(Size(m.seen[2]))
  <2> DEFINE A(k) == IF 0 + k \in DOMAIN out THEN out[0 + k] ELSE 0
             B(k) == IF l + k \in DOMAIN out THEN out[l + k] ELSE 0
  <2>1. \A k : A(k) \in Int /\ B(k) \in Int
    BY <1>3
  <2>2. DOMAIN m.seen[1].data = 1 .. Size(m.seen[1]) /\ DOMAIN m.seen[2].data = 1 .. Size(m.seen[2])
    BY <1>1 DEF Vec
  <2>3. a = [k \in 1 .. Size(m.seen[1]) |-> A(k)] /\ b = [k \in 1 .. Size(m.seen[2]) |-> B(k)]
    BY <1>2, <2>2
  <2> HIDE DEF A, B
  <2>. QED
    BY <2>1, <2>3 DEF Vec
<1>5. \A p \in 1 .. 2 : p = 1 \/ p = 2
  OBVIOUS
<1>. QED
  BY <1>1, <1>4, <1>5 DEF a, b

LEMMA BackVec ==
  ASSUME NEW m, Remembered(m), NEW n, m.op # "cat" => Length(m) = n, NEW out \in Vec(n)
  PROVE  \A p \in 1 .. Operands(m) : Tensor!Back(m, out)[p] \in Vec(Size(m.seen[p]))
<1>1. CASE m.op \in ElementWiseOps
  <2>1. Length(m) = n
    BY <1>1 DEF ElementWiseOps
  <2>. QED
    BY <1>1, <2>1, ElementWiseBackVec
<1>2. CASE m.op = "embed"
  <2>1. Length(m) = n /\ Operands(m) = 1
    BY <1>2 DEF Operands, Tensor!Binary
  <2>2. Tensor!Back(m, out)[1] \in Vec(Size(m.seen[1]))
    BY <1>2, <2>1, EmbedBackVec
  <2>3. \A p \in 1 .. 1 : p = 1
    OBVIOUS
  <2>. QED
    BY <2>1, <2>2, <2>3
<1>3. CASE m.op = "cat"
  BY <1>3, CatBackVec
<1>4. CASE m.op \notin ElementWiseOps /\ m.op # "embed" /\ m.op # "cat"
  <2> DEFINE d == [p \in 1 .. Operands(m) |-> [k \in 1 .. Size(m.seen[p]) |-> 0]]
  <2>1. Changes(m, d)
    BY DEF Changes, Vec
  <2>2. Usual(m)
    BY <1>4 DEF Usual
  <2>3. Length(m) = n
    BY <1>4
  <2> HIDE DEF d
  <2>4. Adjoint(m, out, d, n)
    BY <2>1, <2>2, <2>3, EntryAdjoint
  <2>. QED
    BY <2>4 DEF Adjoint
<1>. QED
  BY <1>1, <1>2, <1>3, <1>4

LEMMA MadeFacts ==
  ASSUME Known, NEW e \in Tensor!Ids, made[e].op # "leaf"
  PROVE  /\ Remembered(made[e]) /\ (made[e].op # "cat" => Length(made[e]) = W(e))
         /\ DOMAIN made[e].in = 1 .. Operands(made[e]) /\ Len(made[e].in) = Operands(made[e])
         /\ \A p \in 1 .. Operands(made[e]) :
              made[e].in[p] \in Tensor!Ids /\ Size(made[e].seen[p]) = W(made[e].in[p])
<1> DEFINE m == made[e]
<1>1. Made(e) /\ Tensor!Ids = 1 .. Len(tensors) /\ Len(tensors) \in Nat
  BY KnownIds
<1>2. /\ Remembered(m)
      /\ m.in = [p \in 1 .. Operands(m) |-> m.in[p]]
      /\ \A p \in 1 .. Operands(m) : /\ m.in[p] \in 1 .. e - 1
                                     /\ m.seen[p].shape = tensors[m.in[p]].shape
      /\ tensors[e].shape = Result(m).shape
  BY <1>1 DEF Made
<1>3. Operands(m) \in Nat
  BY DEF Operands
<1> HIDE DEF m
<1>4. m.op # "cat" => Length(m) = W(e)
  <2>1. LengthIs(m, Length(m), Result(m).shape, Result(m).data)
    BY <1>2, ResultIs
  <2>. QED
    BY <1>2, <2>1 DEF LengthIs, W
<1>5. DOMAIN m.in = 1 .. Operands(m) /\ Len(m.in) = Operands(m)
  BY <1>2, <1>3, SequenceOf
<1>6. \A p \in 1 .. Operands(m) : m.in[p] \in Tensor!Ids /\ Size(m.seen[p]) = W(m.in[p])
  BY <1>1, <1>2 DEF Size, W
<1>. QED
  BY <1>2, <1>4, <1>5, <1>6 DEF m

LEMMA AddedVec ==
  ASSUME Known, NEW g, Graded(g), NEW t \in Tensor!Ids, NEW v \in Vec(W(t))
  PROVE  Tensor!Added(g, t, v) \in Vec(W(t)) /\ Graded(Tensor!Adds(g, t, v))
<1> DEFINE u == Tensor!Grown(g, t)
           w == Tensor!Added(g, t, v)
<1>1. u \in Vec(W(t))
  BY GrownVec
<1>2. DOMAIN u = 1 .. W(t) /\ \A k \in 1 .. W(t) : u[k] \in Int /\ v[k] \in Int
  BY <1>1 DEF Vec
<1>3. w = [k \in DOMAIN u |-> u[k] + v[k]]
  BY DEF Tensor!Added
<1> HIDE DEF u, w
<1>4. w \in Vec(W(t))
  BY <1>2, <1>3 DEF Vec
<1>5. Graded([g EXCEPT ![t] = w])
  BY <1>4 DEF Graded
<1>. QED
  BY <1>4, <1>5 DEF Tensor!Adds, w

\* An entry leaves each gradient of the size of its tensor.
LEMMA EntryGrades ==
  ASSUME Known, NEW e \in Tensor!Ids, made[e].op # "leaf", NEW g, Graded(g)
  PROVE  Graded(Tensor!RunEntry(e, g))
<1> DEFINE m == made[e]
           v == Tensor!Back(m, g[e])
           a == m.in[1]
           b == m.in[2]
<1>1. /\ Remembered(m) /\ (m.op # "cat" => Length(m) = W(e))
      /\ Len(m.in) = Operands(m)
      /\ \A p \in 1 .. Operands(m) : m.in[p] \in Tensor!Ids /\ Size(m.seen[p]) = W(m.in[p])
  BY MadeFacts
<1>2. CASE g[e] = Tensor!NoGrad
  BY <1>2 DEF Tensor!RunEntry
<1>3. CASE g[e] # Tensor!NoGrad
  <2>1. g[e] \in Vec(W(e))
    BY <1>3 DEF Graded
  <2>2. \A p \in 1 .. Operands(m) : v[p] \in Vec(Size(m.seen[p]))
    BY <1>1, <2>1, BackVec
  <2>3. \A p \in 1 .. Operands(m) : m.in[p] \in Tensor!Ids /\ v[p] \in Vec(W(m.in[p]))
    BY <1>1, <2>2
  <2>4. CASE Operands(m) = 1
    <3> DEFINE x == v[1]
    <3>1. a \in Tensor!Ids /\ x \in Vec(W(a))
      BY <2>3, <2>4
    <3>2. Tensor!RunEntry(e, g) = Tensor!Adds(g, a, x)
      <4>1. Len(m.in) = 1 /\ m.op \notin {"add", "sub", "mul"} /\ m.op \notin {"matmul", "cat"}
        BY <1>1, <2>4 DEF Operands, Tensor!Binary
      <4>. QED
        BY <1>3, <4>1 DEF Tensor!RunEntry
    <3> HIDE DEF x, a
    <3>. QED
      BY <3>1, <3>2, AddedVec
  <2>5. CASE Operands(m) = 2
    <3> DEFINE x == v[1]
               y == v[2]
               h == Tensor!Adds(g, a, x)
               q == Tensor!Added(g, a, x)
               r == Tensor!Added(g, b, y)
    <3>1. a \in Tensor!Ids /\ x \in Vec(W(a)) /\ b \in Tensor!Ids /\ y \in Vec(W(b))
      BY <2>3, <2>5
    <3>2. m.op \in ElementWiseOps \/ m.op \in {"matmul", "cat"}
      BY <2>5 DEF Operands, Tensor!Binary, ElementWiseOps
    <3>3. Len(m.in) # 1
      BY <1>1, <2>5
    <3>4. CASE m.op \in {"matmul", "cat"}
      <4>1. Tensor!RunEntry(e, g) = Tensor!Adds(h, b, y)
        BY <1>3, <3>3, <3>4 DEF Tensor!RunEntry
      <4> HIDE DEF x, y, a, b
      <4>2. Graded(h)
        BY <3>1, AddedVec
      <4> HIDE DEF h
      <4>3. Graded(Tensor!Adds(h, b, y))
        BY <3>1, <4>2, AddedVec
      <4>. QED
        BY <4>1, <4>3
    <3>5. CASE m.op \in ElementWiseOps
      <4>1. Tensor!RunEntry(e, g) = [g EXCEPT ![a] = q, ![b] = r]
        BY <1>3, <3>3, <3>5 DEF Tensor!RunEntry, ElementWiseOps
      <4> HIDE DEF x, y, a, b
      <4>2. q \in Vec(W(a)) /\ r \in Vec(W(b))
        BY <3>1, AddedVec
      <4> HIDE DEF q, r
      <4>3. Graded([g EXCEPT ![a] = q, ![b] = r])
        <5>1. /\ g = [i \in Tensor!Ids |-> g[i]]
              /\ \A i \in Tensor!Ids : g[i] = Tensor!NoGrad \/ g[i] \in Vec(W(i))
          BY DEF Graded
        <5> DEFINE f == [g EXCEPT ![a] = q, ![b] = r]
        <5>2. f = [i \in Tensor!Ids |-> f[i]]
          BY <5>1
        <5>3. \A i \in Tensor!Ids : f[i] = IF i = b THEN r ELSE IF i = a THEN q ELSE g[i]
          BY <3>1, <5>1
        <5> HIDE DEF f
        <5>4. Graded(f)
          BY <4>2, <5>1, <5>2, <5>3 DEF Graded
        <5>. QED
          BY <5>4 DEF f
      <4>. QED
        BY <4>1, <4>3
    <3>. QED
      BY <3>2, <3>4, <3>5
  <2>. QED
    BY <2>4, <2>5 DEF Operands
<1>. QED
  BY <1>2, <1>3

\* A tape that backward differentiates.
Entries(ops) ==
  /\ ops \in Seq(Tensor!Ids)
  /\ \A i \in 1 .. Len(ops) : Entry(ops[i])
  /\ \A i, j \in 1 .. Len(ops) : i # j => ops[i] # ops[j]

\* A tape that backward runs.
Entered(ops) ==
  /\ ops \in Seq(Tensor!Ids)
  /\ \A i \in 1 .. Len(ops) : ops[i] \in Tensor!Ids /\ made[ops[i]].op # "leaf"

LEMMA EntriesEntered ==
  ASSUME NEW ops, Entries(ops)
  PROVE  Entered(ops)
BY DEF Entries, Entered, Entry

\* r[j] is the gradients once j entries have been run from the end of ops.
Runs(r, ops, g) ==
  r = [j \in 0 .. Len(ops) |->
         IF j = 0 THEN g ELSE Tensor!RunEntry(ops[Len(ops) + 1 - j], r[j - 1])]

\* t[j] is the changes that j entries from the front of ops make of a change
\* of element k of x.
Spreads(t, ops, x, k) ==
  t = [j \in 0 .. Len(ops) |->
         IF j = 0 THEN Tensor!Start(x, k)
         ELSE IF ops[j] <= x THEN t[j - 1]
         ELSE Tensor!Change(ops[j], t[j - 1])]

LEMMA AccruedIs ==
  ASSUME NEW ops, NEW g
  PROVE  Tensor!Accrued(ops, g) = (CHOOSE r : Runs(r, ops, g))[Len(ops)]
  BY DEF Tensor!Accrued, Runs

LEMMA DerivativeIs ==
  ASSUME NEW ops, NEW loss, NEW x, NEW k
  PROVE  Tensor!Derivative(loss, ops, x, k) = (CHOOSE t : Spreads(t, ops, x, k))[Len(ops)][loss][1]
  BY DEF Tensor!Derivative, Spreads

LEMMA StartIs ==
  ASSUME Known, NEW x, NEW k
  PROVE  /\ Changing(Tensor!Start(x, k))
         /\ \A i \in Tensor!Ids : \A j \in DOMAIN tensors[i].data :
              Tensor!Start(x, k)[i][j] = IF i = x /\ j = k THEN 1 ELSE 0
         /\ \A i \in Tensor!Ids : Tensor!Fits(tensors[i]) => DOMAIN tensors[i].data = 1 .. W(i)
<1> DEFINE z(i) == [j \in DOMAIN tensors[i].data |-> IF i = x /\ j = k THEN 1 ELSE 0]
<1>1. Tensor!Start(x, k) = [i \in Tensor!Ids |-> z(i)]
  BY DEF Tensor!Start
<1>2. ASSUME NEW i \in Tensor!Ids, Tensor!Fits(tensors[i]) PROVE DOMAIN tensors[i].data = 1 .. W(i)
  <2>1. tensors[i].data \in Seq(Int)
    BY KnownIds DEF Typed
  <2>2. DOMAIN tensors[i].data = 1 .. Len(tensors[i].data)
    BY <2>1, LenProperties
  <2>. QED
    BY <1>2, <2>2 DEF Tensor!Fits, W
<1>3. ASSUME NEW i \in Tensor!Ids, Tensor!Fits(tensors[i]) PROVE z(i) \in Vec(W(i))
  BY <1>2, <1>3 DEF Vec
<1>4. \A i \in Tensor!Ids : \A j \in DOMAIN tensors[i].data : z(i)[j] = IF i = x /\ j = k THEN 1 ELSE 0
  OBVIOUS
<1> HIDE DEF z
<1>. QED
  BY <1>1, <1>2, <1>3, <1>4 DEF Changing

LEMMA EntryChange ==
  ASSUME Known, NEW e, Entry(e), NEW T, Changing(T)
  PROVE  /\ Tensor!Change(e, T) = [T EXCEPT ![e] = Tensor!Tangent(made[e], Moves(made[e], T))]
         /\ Tensor!Tangent(made[e], Moves(made[e], T)) \in Vec(W(e))
         /\ Changing(Tensor!Change(e, T))
         /\ \A i \in Tensor!Ids \ {e} : Tensor!Change(e, T)[i] = T[i]
<1> DEFINE u == Tensor!Tangent(made[e], Moves(made[e], T))
           g == [i \in Tensor!Ids |-> Tensor!NoGrad]
           c == Tensor!Change(e, T)
<1>1. c = [T EXCEPT ![e] = u]
  BY DEF Tensor!Change, Moves
<1>2. Graded(g)
  BY DEF Graded
<1> HIDE DEF g
<1>3. u \in Vec(W(e))
  BY <1>2, EntryRuns
<1>4. T = [i \in Tensor!Ids |-> T[i]] /\ \A i \in Tensor!Ids : Tensor!Fits(tensors[i]) => T[i] \in Vec(W(i))
  BY DEF Changing
<1> HIDE DEF u, c
<1>5. Changing(c) /\ \A i \in Tensor!Ids \ {e} : c[i] = T[i]
  BY <1>1, <1>3, <1>4 DEF Changing
<1>. QED
  BY <1>1, <1>3, <1>5 DEF c, u

LEMMA RunsExist ==
  ASSUME Known, NEW ops, Entered(ops), NEW g, Graded(g)
  PROVE  \E r : Runs(r, ops, g)
<1> DEFINE n == Len(ops)
           Z == {Tensor!NoGrad} \cup UNION {Vec(W(i)) : i \in Tensor!Ids}
           V == {h \in [Tensor!Ids -> Z] : Graded(h)}
           step == [j \in 1 .. n |-> [h \in V |-> Tensor!RunEntry(ops[n + 1 - j], h)]]
<1>0. n \in Nat
  BY LenProperties DEF Entered
<1>1. ASSUME NEW h, Graded(h) PROVE h \in V
  <2>1. h = [i \in Tensor!Ids |-> h[i]] /\ \A i \in Tensor!Ids : h[i] = Tensor!NoGrad \/ h[i] \in Vec(W(i))
    BY <1>1 DEF Graded
  <2>2. \A i \in Tensor!Ids : h[i] \in Z
    BY <2>1
  <2> HIDE DEF Z
  <2>. QED
    BY <1>1, <2>1, <2>2
<1>2. \A h \in V : Graded(h)
  OBVIOUS
<1>3. \A j \in 1 .. n : \A h \in V : step[j][h] = Tensor!RunEntry(ops[n + 1 - j], h)
  OBVIOUS
<1> HIDE DEF V, Z, step, n
<1>4. ASSUME NEW j \in 1 .. n, NEW h \in V PROVE step[j][h] \in V
  <2>1. n + 1 - j \in 1 .. n
    BY <1>0
  <2>2. ops[n + 1 - j] \in Tensor!Ids /\ made[ops[n + 1 - j]].op # "leaf"
    BY <2>1 DEF Entered, n
  <2> DEFINE e == ops[n + 1 - j]
  <2>3. Graded(Tensor!RunEntry(ops[n + 1 - j], h))
    <3>1. Graded(h)
      BY <1>2
    <3>2. e \in Tensor!Ids /\ made[e].op # "leaf"
      BY <2>2
    <3> HIDE DEF e
    <3>3. Graded(Tensor!RunEntry(e, h))
      BY <3>1, <3>2, EntryGrades
    <3>. QED
      BY <3>3 DEF e
  <2>. QED
    BY <1>1, <1>3, <2>3
<1>5. g \in V
  BY <1>1
<1>6. PICK r \in [0 .. n -> V] : Folds(r, n, g, step)
  <2>1. \E r \in [0 .. n -> V] : Folds(r, n, g, step)
    BY <1>0, <1>4, <1>5, FoldsExist
  <2>. QED
    BY <2>1
<1>7. Runs(r, ops, g)
  <2> DEFINE e(j) == IF j = 0 THEN g ELSE step[j][r[j - 1]]
             d(j) == IF j = 0 THEN g ELSE Tensor!RunEntry(ops[n + 1 - j], r[j - 1])
  <2>1. ASSUME NEW j \in 0 .. n PROVE e(j) = d(j)
    <3>1. CASE j # 0
      <4>1. j \in 1 .. n /\ r[j - 1] \in V
        BY <1>0, <3>1
      <4>. QED
        BY <1>3, <4>1
    <3>. QED
      BY <3>1
  <2> HIDE DEF e, d
  <2>2. [j \in 0 .. n |-> e(j)] = [j \in 0 .. n |-> d(j)]
    BY <2>1
  <2>. QED
    BY <1>6, <2>2 DEF e, d, Folds, Runs, n
<1>. QED
  BY <1>7

LEMMA RunsGraded ==
  ASSUME Known, NEW ops, Entered(ops), NEW g, Graded(g), NEW r, Runs(r, ops, g)
  PROVE  Graded(r[Len(ops)])
<1> DEFINE n == Len(ops)
           S == {j \in Nat : j <= n => Graded(r[j])}
<1>0. n \in Nat
  BY LenProperties DEF Entered
<1>1. \A j \in 0 .. n : r[j] = IF j = 0 THEN g ELSE Tensor!RunEntry(ops[n + 1 - j], r[j - 1])
  BY DEF Runs
<1>2. \A j \in 1 .. n : ops[j] \in Tensor!Ids /\ made[ops[j]].op # "leaf"
  BY DEF Entered
<1> HIDE DEF n
<1>3. 0 \in S
  BY <1>0, <1>1
<1>4. ASSUME NEW j \in S PROVE j + 1 \in S
  <2>1. j \in Nat /\ (j <= n => Graded(r[j]))
    OBVIOUS
  <2>2. ASSUME j + 1 <= n PROVE Graded(r[j + 1])
    <3> DEFINE h == j + 1
               e == ops[n + 1 - h]
               q == r[h - 1]
    <3>1. j <= n /\ h \in 0 .. n /\ h # 0 /\ h - 1 = j /\ n + 1 - h \in 1 .. n
      BY <1>0, <2>1, <2>2
    <3>2. Graded(q) /\ e \in Tensor!Ids /\ made[e].op # "leaf"
      BY <1>2, <2>1, <3>1
    <3>3. r[h] = Tensor!RunEntry(e, q)
      BY <1>1, <3>1
    <3> HIDE DEF e, q
    <3>. QED
      BY <3>2, <3>3, EntryGrades
  <2>. QED
    BY <2>1, <2>2
<1>5. S = Nat
  <2>1. S \subseteq Nat
    OBVIOUS
  <2> HIDE DEF S
  <2>. QED
    BY <1>3, <1>4, <2>1, InductiveSet
<1>. QED
  BY <1>0, <1>5 DEF n

LEMMA AccruedGraded ==
  ASSUME Known, NEW ops, Entered(ops), NEW g, Graded(g)
  PROVE  Graded(Tensor!Accrued(ops, g))
<1> DEFINE r == CHOOSE q : Runs(q, ops, g)
<1>1. Runs(r, ops, g)
  BY RunsExist
<1>2. Tensor!Accrued(ops, g) = r[Len(ops)]
  BY AccruedIs
<1> HIDE DEF r
<1>. QED
  BY <1>1, <1>2, RunsGraded

LEMMA SpreadsExist ==
  ASSUME Known, NEW ops, Entries(ops), NEW x, NEW k
  PROVE  \E t : Spreads(t, ops, x, k)
<1> DEFINE n == Len(ops)
           s == Tensor!Start(x, k)
           Z == {s[i] : i \in Tensor!Ids} \cup UNION {Vec(W(i)) : i \in Tensor!Ids}
           V == {h \in [Tensor!Ids -> Z] : Changing(h)}
           step == [j \in 1 .. n |-> [h \in V |-> IF ops[j] <= x THEN h ELSE Tensor!Change(ops[j], h)]]
<1>0. n \in Nat
  BY LenProperties DEF Entries
<1>1. s \in V
  <2>1. Changing(s)
    BY StartIs
  <2>2. s = [i \in Tensor!Ids |-> s[i]]
    BY <2>1 DEF Changing
  <2> HIDE DEF s
  <2>. QED
    BY <2>1, <2>2
<1>2. ASSUME NEW h \in V, NEW e, Entry(e) PROVE Tensor!Change(e, h) \in V
  <2> DEFINE u == Tensor!Tangent(made[e], Moves(made[e], h))
             c == Tensor!Change(e, h)
  <2>1. c = [h EXCEPT ![e] = u] /\ u \in Vec(W(e)) /\ Changing(c) /\ e \in Tensor!Ids
    BY <1>2, EntryChange DEF Entry
  <2>2. h \in [Tensor!Ids -> Z]
    OBVIOUS
  <2>3. u \in Z
    BY <2>1
  <2> HIDE DEF u, c, Z, s
  <2>4. c \in [Tensor!Ids -> Z]
    BY <2>1, <2>2, <2>3
  <2>. QED
    BY <2>1, <2>4 DEF c
<1>3. \A j \in 1 .. n : \A h \in V :
        step[j][h] = IF ops[j] <= x THEN h ELSE Tensor!Change(ops[j], h)
  OBVIOUS
<1> HIDE DEF V, Z, step, n, s
<1>4. ASSUME NEW j \in 1 .. n, NEW h \in V PROVE step[j][h] \in V
  <2>1. Entry(ops[j])
    BY DEF Entries, n
  <2>2. Tensor!Change(ops[j], h) \in V
    BY <1>2, <2>1
  <2>. QED
    BY <1>3, <2>2
<1>6. PICK r \in [0 .. n -> V] : Folds(r, n, s, step)
  <2>1. \E r \in [0 .. n -> V] : Folds(r, n, s, step)
    BY <1>0, <1>1, <1>4, FoldsExist
  <2>. QED
    BY <2>1
<1>7. Spreads(r, ops, x, k)
  <2> DEFINE e(j) == IF j = 0 THEN s ELSE step[j][r[j - 1]]
             d(j) == IF j = 0 THEN s ELSE IF ops[j] <= x THEN r[j - 1] ELSE Tensor!Change(ops[j], r[j - 1])
  <2>1. ASSUME NEW j \in 0 .. n PROVE e(j) = d(j)
    <3>1. CASE j # 0
      <4>1. j \in 1 .. n /\ r[j - 1] \in V
        BY <1>0, <3>1
      <4>. QED
        BY <1>3, <4>1
    <3>. QED
      BY <3>1
  <2> HIDE DEF e, d
  <2>2. [j \in 0 .. n |-> e(j)] = [j \in 0 .. n |-> d(j)]
    BY <2>1
  <2>. QED
    BY <1>6, <2>2 DEF e, d, Folds, Spreads, n, s
<1>. QED
  BY <1>7

\* Operands that do not change make no change.
LEMMA EntryStill ==
  ASSUME Known, NEW e, Entry(e), NEW g, Graded(g), NEW T, Changing(T),
         \A p \in 1 .. Operands(made[e]) : \A k \in 1 .. W(made[e].in[p]) : T[made[e].in[p]][k] = 0
  PROVE  Dot(Tensor!Grown(g, e), Tensor!Tangent(made[e], Moves(made[e], T)), W(e)) = 0
<1> DEFINE m == made[e]
           d == Moves(m, T)
           n == W(e)
           o == Tensor!Grown(g, e)
           t == Tensor!Tangent(m, d)
           v == Tensor!Back(m, o)
<1>1. /\ Remembered(m) /\ Usual(m) /\ Length(m) = n
      /\ DOMAIN m.in = 1 .. Operands(m)
      /\ \A p \in 1 .. Operands(m) : /\ m.in[p] \in Tensor!Ids
                                     /\ Tensor!Fits(tensors[m.in[p]])
                                     /\ Size(m.seen[p]) = W(m.in[p])
  BY EntryFacts
<1>2. o \in Vec(n)
  BY GrownVec DEF Entry
<1>3. \A p \in 1 .. Operands(m) : /\ d[p] \in Vec(Size(m.seen[p])) /\ Size(m.seen[p]) \in Nat
                                  /\ \A k \in 1 .. Size(m.seen[p]) : d[p][k] = 0
  <2>1. ASSUME NEW p \in 1 .. Operands(m)
        PROVE  /\ d[p] \in Vec(Size(m.seen[p])) /\ Size(m.seen[p]) \in Nat
               /\ \A k \in 1 .. Size(m.seen[p]) : d[p][k] = 0
    <3>1. d[p] = T[m.in[p]]
      BY <1>1 DEF Moves
    <3>2. T[m.in[p]] \in Vec(W(m.in[p])) /\ W(m.in[p]) \in Nat
      BY <1>1, KnownIds DEF Changing
    <3>3. \A k \in 1 .. W(m.in[p]) : T[m.in[p]][k] = 0
      OBVIOUS
    <3>. QED
      BY <1>1, <3>1, <3>2, <3>3
  <2>. QED
    BY <2>1
<1>4. Changes(m, d)
  BY <1>3 DEF Changes
<1> HIDE DEF d, m, o, n
<1>5. Adjoint(m, o, d, n)
  BY <1>1, <1>2, <1>4, EntryAdjoint
<1>6. /\ \A p \in 1 .. Operands(m) : v[p] \in Vec(Size(m.seen[p]))
      /\ Dot(o, t, n) = IF Operands(m) = 1 THEN Dot(v[1], d[1], Size(m.seen[1]))
                        ELSE Dot(v[1], d[1], Size(m.seen[1])) + Dot(v[2], d[2], Size(m.seen[2]))
  BY <1>5 DEF Adjoint
<1> HIDE DEF v, t
<1>7. \A p \in 1 .. Operands(m) : Dot(v[p], d[p], Size(m.seen[p])) = 0
  <2>1. ASSUME NEW p \in 1 .. Operands(m) PROVE Dot(v[p], d[p], Size(m.seen[p])) = 0
    <3> DEFINE z == Size(m.seen[p])
               x == d[p]
               y == v[p]
    <3>1. z \in Nat /\ x \in Vec(z) /\ y \in Vec(z) /\ \A k \in 1 .. z : x[k] = 0
      BY <1>3, <1>6
    <3> HIDE DEF x, y, z
    <3>2. Dot(y, x, z) = 0
      BY <3>1, DotZero
    <3>. QED
      BY <3>2 DEF x, y, z
  <2>. QED
    BY <2>1
<1>8. Operands(m) = 1 \/ Operands(m) = 2
  BY DEF Operands
<1>9. Dot(o, t, n) = 0
  BY <1>6, <1>7, <1>8
<1>. QED
  BY <1>9 DEF o, t, n, m, d

LEMMA SpreadsKeep ==
  ASSUME Known, NEW ops, Entries(ops), NEW x \in Tensor!Ids, NEW k, NEW t, Spreads(t, ops, x, k)
  PROVE  \A j \in 0 .. Len(ops) :
           /\ Changing(t[j])
           /\ \A i \in Tensor!Ids :
                (i <= x \/ \A l \in 1 .. j : ops[l] # i) => t[j][i] = Tensor!Start(x, k)[i]
<1> DEFINE n == Len(ops)
           s == Tensor!Start(x, k)
           Q(j) == /\ Changing(t[j])
                   /\ \A i \in Tensor!Ids :
                        (i <= x \/ \A l \in 1 .. j : ops[l] # i) => t[j][i] = s[i]
           S == {j \in Nat : j <= n => Q(j)}
<1>0. n \in Nat /\ \A j \in 1 .. n : Entry(ops[j]) /\ ops[j] \in Tensor!Ids
  BY LenProperties DEF Entries, Entry
<1>1. \A j \in 0 .. n : t[j] = IF j = 0 THEN s ELSE IF ops[j] <= x THEN t[j - 1]
                               ELSE Tensor!Change(ops[j], t[j - 1])
  BY DEF Spreads
<1>2. Changing(s)
  BY StartIs
<1> HIDE DEF n, s, Q
<1>3. 0 \in S
  <2>1. t[0] = s
    BY <1>0, <1>1
  <2>. QED
    BY <1>2, <2>1 DEF Q
<1>4. ASSUME NEW j \in S PROVE j + 1 \in S
  <2>1. j \in Nat /\ (j + 1) - 1 = j
    OBVIOUS
  <2>2. ASSUME j + 1 <= n PROVE Q(j + 1)
    <3> DEFINE h == j + 1
               e == ops[h]
               T == t[j]
    <3>1. h \in 1 .. n /\ h \in 0 .. n /\ h # 0 /\ h - 1 = j /\ 1 .. h = (1 .. j) \cup {h}
      BY <2>1, <2>2
    <3>2. Changing(T) /\ \A i \in Tensor!Ids : (i <= x \/ \A l \in 1 .. j : ops[l] # i) => T[i] = s[i]
      <4>1. Q(j)
        <5>1. j <= n => Q(j)
          OBVIOUS
        <5>2. j <= n
          BY <1>0, <2>1, <2>2
        <5>. QED
          BY <5>1, <5>2
      <4>. QED
        BY <4>1 DEF Q
    <3>3. Entry(e) /\ e \in Tensor!Ids
      BY <1>0, <3>1
    <3>4. t[h] = IF e <= x THEN T ELSE Tensor!Change(e, T)
      BY <1>1, <3>1
    <3> HIDE DEF e, T, S, h
    <3>5. CASE e <= x
      <4>1. t[h] = T
        BY <3>4, <3>5
      <4>2. \A i \in Tensor!Ids : (i <= x \/ \A l \in 1 .. h : ops[l] # i) => t[h][i] = s[i]
        BY <3>1, <3>2, <4>1
      <4>. QED
        BY <3>2, <4>1, <4>2 DEF h, Q
    <3>6. CASE ~(e <= x)
      <4>1. t[h] = Tensor!Change(e, T)
        BY <3>4, <3>6
      <4>2. Changing(t[h]) /\ \A i \in Tensor!Ids \ {e} : t[h][i] = T[i]
        BY <3>2, <3>3, <4>1, EntryChange
      <4>3. ASSUME NEW i \in Tensor!Ids, i <= x \/ \A l \in 1 .. h : ops[l] # i
            PROVE  t[h][i] = s[i]
        <5>1. i # e
          BY <3>1, <3>6, <4>3 DEF e
        <5>2. i <= x \/ \A l \in 1 .. j : ops[l] # i
          BY <3>1, <4>3
        <5>. QED
          BY <3>2, <4>2, <5>1, <5>2
      <4>. QED
        BY <4>2, <4>3 DEF h, Q
    <3>. QED
      BY <3>5, <3>6
  <2>. QED
    BY <2>1, <2>2
<1>5. S = Nat
  <2>1. S \subseteq Nat
    OBVIOUS
  <2> HIDE DEF S
  <2>. QED
    BY <1>3, <1>4, <2>1, InductiveSet
<1>6. \A j \in 0 .. n : Q(j)
  BY <1>0, <1>5
<1>. QED
  BY <1>6 DEF n, s, Q

\* Run from its end, the tape weighs the change of x as, from its front, it
\* weighs what that change makes.
LEMMA PairKeeps ==
  ASSUME Known, NEW ops, Entries(ops), NEW x \in Tensor!Ids, NEW k, NEW t, Spreads(t, ops, x, k),
         NEW g, Graded(g), NEW r, Runs(r, ops, g)
  PROVE  /\ Graded(r[Len(ops)])
         /\ Pair(r[Len(ops)], t[0]) = Pair(g, t[Len(ops)])
<1> DEFINE n == Len(ops)
           s == Tensor!Start(x, k)
           Q(j) == Graded(r[j]) /\ Pair(r[j], t[n - j]) = Pair(g, t[n])
           S == {j \in Nat : j <= n => Q(j)}
<1>0. n \in Nat /\ \A j \in 1 .. n : Entry(ops[j]) /\ ops[j] \in Tensor!Ids
  BY LenProperties DEF Entries, Entry
<1>a. \A i, j \in 1 .. n : i # j => ops[i] # ops[j]
  BY DEF Entries
<1>1. \A j \in 0 .. n : t[j] = IF j = 0 THEN s ELSE IF ops[j] <= x THEN t[j - 1]
                               ELSE Tensor!Change(ops[j], t[j - 1])
  BY DEF Spreads
<1>2. \A j \in 0 .. n : r[j] = IF j = 0 THEN g ELSE Tensor!RunEntry(ops[n + 1 - j], r[j - 1])
  BY DEF Runs
<1>3. \A j \in 0 .. n :
           /\ Changing(t[j])
           /\ \A i \in Tensor!Ids :
                (i <= x \/ \A l \in 1 .. j : ops[l] # i) => t[j][i] = s[i]
  BY SpreadsKeep
<1>4. ASSUME NEW i \in Tensor!Ids, i # x, Tensor!Fits(tensors[i]) PROVE \A c \in 1 .. W(i) : s[i][c] = 0
  <2>1. DOMAIN tensors[i].data = 1 .. W(i)
    BY <1>4, StartIs
  <2>2. \A c \in DOMAIN tensors[i].data : s[i][c] = IF i = x /\ c = k THEN 1 ELSE 0
    BY StartIs
  <2>. QED
    BY <1>4, <2>1, <2>2
<1>i. Tensor!Ids \subseteq Int
  BY KnownIds
<1> HIDE DEF n, s, Q
<1>5. 0 \in S
  <2>1. r[0] = g /\ n - 0 = n
    BY <1>0, <1>2
  <2>. QED
    BY <2>1 DEF Q
<1>6. ASSUME NEW j \in S PROVE j + 1 \in S
  <2>1. j \in Nat /\ (j + 1) - 1 = j
    OBVIOUS
  <2>2. ASSUME j + 1 <= n PROVE Q(j + 1)
    <3> DEFINE h == j + 1
               c == n - j
               q == n - h
               e == ops[c]
               T == t[q]
               G == r[j]
               u == Tensor!Tangent(made[e], Moves(made[e], T))
    <3>1. /\ h \in 0 .. n /\ h # 0 /\ h - 1 = j /\ n + 1 - h = c
          /\ c \in 1 .. n /\ c \in 0 .. n /\ c # 0 /\ c - 1 = q /\ q \in 0 .. n
          /\ \A l \in 1 .. q : l \in 1 .. n /\ l # c
      BY <1>0, <2>1, <2>2
    <3>2. Graded(G) /\ Pair(G, t[c]) = Pair(g, t[n])
      <4>1. Q(j)
        <5>1. j <= n => Q(j)
          OBVIOUS
        <5>2. j <= n
          BY <1>0, <2>1, <2>2
        <5>. QED
          BY <5>1, <5>2
      <4>. QED
        BY <4>1 DEF Q
    <3>3. Entry(e) /\ e \in Tensor!Ids
      BY <1>0, <3>1
    <3>4. r[h] = Tensor!RunEntry(e, G)
      BY <1>2, <3>1
    <3>5. t[c] = IF e <= x THEN T ELSE Tensor!Change(e, T)
      BY <1>1, <3>1
    <3>6. Changing(T) /\ \A i \in Tensor!Ids : (i <= x \/ \A l \in 1 .. q : ops[l] # i) => T[i] = s[i]
      BY <1>3, <3>1
    <3>7. \A l \in 1 .. q : ops[l] # e
      BY <1>a, <3>1
    <3> HIDE DEF e, T, S, G, h, c, q
    <3>8. /\ Graded(r[h]) /\ u \in Vec(W(e))
          /\ Pair(r[h], T) = Pair(G, T) + Dot(Tensor!Grown(G, e), u, W(e))
      BY <3>2, <3>3, <3>4, <3>6, EntryRuns
    <3>9. Tensor!Fits(tensors[e])
      BY <3>3, EntryFacts
    <3>10. Pair(G, T) \in Int
      BY <3>2, <3>6, TermInt, TotalInt, KnownIds DEF Pair
    <3>13. Q(j + 1) <=> Graded(r[h]) /\ Pair(r[h], t[q]) = Pair(g, t[n])
      BY DEF Q, h, q
    <3>11. CASE e <= x
      <4>1. ASSUME NEW p \in 1 .. Operands(made[e])
            PROVE  \A b \in 1 .. W(made[e].in[p]) : T[made[e].in[p]][b] = 0
        <5> DEFINE i == made[e].in[p]
        <5>1. i \in Tensor!Ids /\ i < e /\ Tensor!Fits(tensors[i])
          BY <3>3, EntryFacts
        <5> HIDE DEF i
        <5>2. i <= x /\ i # x
          BY <1>i, <3>3, <3>11, <5>1
        <5>3. T[i] = s[i]
          BY <3>6, <5>1, <5>2
        <5>4. \A b \in 1 .. W(i) : s[i][b] = 0
          BY <1>4, <5>1, <5>2
        <5>. QED
          BY <5>3, <5>4 DEF i
      <4>2. Dot(Tensor!Grown(G, e), u, W(e)) = 0
        BY <3>2, <3>3, <3>6, <4>1, EntryStill
      <4>3. Pair(r[h], T) = Pair(G, T)
        BY <3>8, <3>10, <4>2
      <4>4. t[c] = T
        BY <3>5, <3>11
      <4>. QED
        BY <3>2, <3>8, <3>13, <4>3, <4>4 DEF T
    <3>12. CASE ~(e <= x)
      <4>1. T[e] = s[e] /\ e # x
        BY <1>i, <3>3, <3>6, <3>7, <3>12
      <4>2. \A b \in 1 .. W(e) : T[e][b] = 0
        BY <1>4, <3>3, <3>9, <4>1
      <4>3. t[c] = [T EXCEPT ![e] = u]
        BY <3>3, <3>5, <3>6, <3>12, EntryChange
      <4> HIDE DEF u
      <4>4. Pair(G, t[c]) = Pair(G, T) + Dot(Tensor!Grown(G, e), u, W(e))
        BY <3>2, <3>3, <3>6, <3>8, <3>9, <4>2, <4>3, PairChange
      <4>. QED
        BY <3>2, <3>8, <3>13, <4>4 DEF T
    <3>. QED
      BY <3>11, <3>12
  <2>. QED
    BY <2>1, <2>2
<1>7. S = Nat
  <2>1. S \subseteq Nat
    OBVIOUS
  <2> HIDE DEF S
  <2>. QED
    BY <1>5, <1>6, <2>1, InductiveSet
<1>8. Q(n) /\ n - n = 0
  BY <1>0, <1>7
<1>. QED
  BY <1>8 DEF n, Q

LEMMA SeededIs ==
  ASSUME Known, NEW g, Graded(g), NEW loss \in Tensor!Ids
  PROVE  /\ Graded(Tensor!Seeded(g, loss))
         /\ \A i \in Tensor!Ids \ {loss} : Tensor!Seeded(g, loss)[i] = g[i]
         /\ \A k \in 1 .. W(loss) :
              Tensor!Grown(Tensor!Seeded(g, loss), loss)[k] = IF k = 1 THEN 1 ELSE Tensor!Grown(g, loss)[k]
<1> DEFINE u == Tensor!Grown(g, loss)
           w == [u EXCEPT ![1] = 1]
           h == Tensor!Seeded(g, loss)
<1>0. W(loss) \in Nat /\ W(loss) \in Positive
  BY KnownIds
<1>1. u \in Vec(W(loss))
  BY GrownVec
<1>2. h = [g EXCEPT ![loss] = w]
  BY DEF Tensor!Seeded
<1> HIDE DEF u
<1>3. w \in Vec(W(loss)) /\ \A k \in 1 .. W(loss) : w[k] = IF k = 1 THEN 1 ELSE u[k]
  <2>1. w \in Vec(W(loss))
    <3>1. u \in [1 .. W(loss) -> Int] /\ 1 \in Int
      BY <1>1 DEF Vec
    <3>2. w \in [1 .. W(loss) -> Int]
      BY <3>1
    <3>. QED
      BY <3>2 DEF Vec
  <2>2. DOMAIN u = 1 .. W(loss)
    BY <1>1 DEF Vec
  <2>. QED
    BY <2>1, <2>2
<1>4. w # Tensor!NoGrad
  <2>1. 1 \in DOMAIN w
    BY <1>0, <1>3 DEF Vec, Positive
  <2>2. DOMAIN Tensor!NoGrad = {}
    BY DEF Tensor!NoGrad
  <2> HIDE DEF w
  <2>. QED
    BY <2>1, <2>2
<1> HIDE DEF w, h
<1>5. g = [i \in Tensor!Ids |-> g[i]] /\ \A i \in Tensor!Ids : g[i] = Tensor!NoGrad \/ g[i] \in Vec(W(i))
  BY DEF Graded
<1>6. h[loss] = w /\ \A i \in Tensor!Ids \ {loss} : h[i] = g[i]
  BY <1>2, <1>5
<1>7. h = [i \in Tensor!Ids |-> h[i]]
  BY <1>2, <1>5
<1>8. Graded(h)
  BY <1>3, <1>5, <1>6, <1>7 DEF Graded
<1>9. Tensor!Grown(h, loss) = w
  BY <1>4, <1>6 DEF Tensor!Grown
<1>. QED
  BY <1>3, <1>6, <1>8, <1>9 DEF h, u

\* A change of one element weighs what its gradient is.
LEMMA PairStart ==
  ASSUME Known, NEW g, Graded(g), NEW x \in Tensor!Ids, Tensor!Fits(tensors[x]), NEW k \in 1 .. W(x)
  PROVE  Pair(g, Tensor!Start(x, k)) = Tensor!Grown(g, x)[k]
<1> DEFINE s == Tensor!Start(x, k)
           N == Len(tensors)
           f == Term(g, s)
<1>0. N \in Nat /\ Tensor!Ids = 1 .. N /\ \A i \in Tensor!Ids : W(i) \in Nat
  BY KnownIds
<1>1. /\ Changing(s)
      /\ \A i \in Tensor!Ids : \A j \in DOMAIN tensors[i].data :
           s[i][j] = IF i = x /\ j = k THEN 1 ELSE 0
      /\ \A i \in Tensor!Ids : Tensor!Fits(tensors[i]) => DOMAIN tensors[i].data = 1 .. W(i)
  BY StartIs
<1> HIDE DEF s
<1>2. \A i \in Tensor!Ids : f[i] = IF Tensor!Fits(tensors[i]) THEN Dot(Tensor!Grown(g, i), s[i], W(i)) ELSE 0
  BY DEF Term
<1>3. Ints(f, N)
  BY <1>1, TermInt
<1>4. \A i \in Tensor!Ids : Tensor!Fits(tensors[i]) =>
        s[i] \in Vec(W(i)) /\ \A j \in 1 .. W(i) : s[i][j] = IF i = x /\ j = k THEN 1 ELSE 0
  BY <1>1 DEF Changing
<1> HIDE DEF f, N
<1>5. ASSUME NEW i \in 1 .. N, i # x PROVE f[i] = 0
  <2>1. CASE Tensor!Fits(tensors[i])
    <3> DEFINE u == Tensor!Grown(g, i)
               y == s[i]
               n == W(i)
    <3>1. n \in Nat /\ u \in Vec(n) /\ y \in Vec(n) /\ \A j \in 1 .. n : y[j] = 0
      BY <1>0, <1>4, <1>5, <2>1, GrownVec
    <3>2. f[i] = Dot(u, y, n)
      BY <1>0, <1>2, <2>1
    <3> HIDE DEF u, y, n
    <3>. QED
      BY <3>1, <3>2, DotZero
  <2>. QED
    BY <1>0, <1>2, <2>1
<1>6. f[x] = Tensor!Grown(g, x)[k]
  <2> DEFINE u == Tensor!Grown(g, x)
             y == s[x]
             n == W(x)
  <2>1. n \in Nat /\ u \in Vec(n) /\ y \in Vec(n) /\ k \in 1 .. n /\ \A j \in 1 .. n : y[j] = IF j = k THEN 1 ELSE 0
    BY <1>0, <1>4, GrownVec
  <2>2. f[x] = Dot(u, y, n)
    BY <1>0, <1>2
  <2> HIDE DEF u, y, n
  <2>3. Dot(u, y, n) = u[k]
    BY <2>1, DotUnit
  <2>. QED
    BY <2>2, <2>3 DEF u
<1>7. Tensor!Total(f, N) = f[x]
  BY <1>0, <1>3, <1>5, TotalSingle
<1>. QED
  BY <1>6, <1>7 DEF Pair, f, N, s

\* Terms that are 0 but for two tensors.
LEMMA TotalPair ==
  ASSUME NEW f, NEW n \in Nat, Ints(f, n), NEW x \in 1 .. n, NEW y \in 1 .. n, x # y,
         \A i \in 1 .. n : i # x /\ i # y => f[i] = 0
  PROVE  Tensor!Total(f, n) = f[x] + f[y]
<1> DEFINE g == [i \in 1 .. n |-> IF i = x THEN 0 ELSE f[i]]
<1>1. Ints(g, n) /\ \A i \in 1 .. n : i # y => g[i] = 0
  BY DEF Ints
<1>2. g[y] = f[y] /\ g[x] = 0 /\ \A i \in 1 .. n : i # x => f[i] = g[i]
  OBVIOUS
<1>3. f[x] \in Int /\ f[y] \in Int
  BY DEF Ints
<1> HIDE DEF g
<1>4. Tensor!Total(g, n) = g[y]
  BY <1>1, TotalSingle
<1>5. Tensor!Total(f, n) = Tensor!Total(g, n) + (f[x] - g[x])
  BY <1>1, <1>2, <1>3, TotalExcept
<1>. QED
  BY <1>2, <1>3, <1>4, <1>5

LEMMA ValueIs ==
  ASSUME Known, NEW g, Graded(g), NEW x \in Tensor!Ids, NEW k \in 1 .. W(x)
  PROVE  Tensor!Value(g[x], k) = Tensor!Grown(g, x)[k] /\ Tensor!Value(g[x], k) \in Int
<1>1. /\ Tensor!Grown(g, x) \in Vec(W(x))
      /\ g[x] = Tensor!NoGrad => Tensor!Grown(g, x)[k] = 0
      /\ g[x] # Tensor!NoGrad => Tensor!Grown(g, x) = g[x]
  BY GrownVec
<1>2. Tensor!Grown(g, x)[k] \in Int
  BY <1>1 DEF Vec
<1>. QED
  BY <1>1, <1>2 DEF Tensor!Value

\* Every tensor has an element.
LEMMA FirstElement ==
  ASSUME Known, NEW i \in Tensor!Ids
  PROVE  1 \in DOMAIN tensors[i].data
<1> DEFINE m == made[i]
<1>1. Typed(i) /\ Made(i) /\ W(i) \in Positive
  BY KnownIds
<1>2. tensors[i].data \in Seq(Int)
  BY <1>1 DEF Typed
<1>3. Len(tensors[i].data) \in Positive
  <2>1. CASE m.op = "leaf"
    BY <1>1, <2>1 DEF Made, Tensor!Fits, W
  <2>2. CASE m.op # "leaf"
    <3>1. Remembered(m) /\ Len(tensors[i].data) = Length(m)
      BY <1>1, <2>2 DEF Made
    <3>2. LengthIs(m, Length(m), Result(m).shape, Result(m).data)
      BY <3>1, ResultIs
    <3>. QED
      BY <3>1, <3>2 DEF LengthIs
  <2>. QED
    BY <2>1, <2>2
<1>4. DOMAIN tensors[i].data = 1 .. Len(tensors[i].data)
  BY <1>2, LenProperties
<1>. QED
  BY <1>3, <1>4 DEF Positive

\* At the end of the tape, the seed weighs the change of the loss, and what
\* was there before the change of x itself.
LEMMA PairEnd ==
  ASSUME Known, NEW ops, Entries(ops), NEW x \in Tensor!Ids, Tensor!Fits(tensors[x]), NEW k \in 1 .. W(x),
         NEW t, Spreads(t, ops, x, k),
         NEW g, Graded(g), \A j \in 1 .. Len(ops) : g[ops[j]] = Tensor!NoGrad,
         NEW loss \in Tensor!Ids
  PROVE  Pair(Tensor!Seeded(g, loss), t[Len(ops)])
           = IF x = loss /\ k = 1 THEN 1 ELSE Tensor!Grown(g, x)[k] + t[Len(ops)][loss][1]
<1> DEFINE s == Tensor!Start(x, k)
           N == Len(tensors)
           n == Len(ops)
           T == t[n]
           h == Tensor!Seeded(g, loss)
           f == Term(h, T)
<1>0. N \in Nat /\ Tensor!Ids = 1 .. N /\ \A i \in Tensor!Ids : W(i) \in Nat /\ W(i) \in Positive
  BY KnownIds
<1>1. n \in Nat /\ n \in 0 .. n /\ \A j \in 1 .. n : Entry(ops[j])
  BY LenProperties DEF Entries
<1>2. /\ Changing(s)
      /\ \A i \in Tensor!Ids : \A j \in DOMAIN tensors[i].data :
           s[i][j] = IF i = x /\ j = k THEN 1 ELSE 0
      /\ \A i \in Tensor!Ids : Tensor!Fits(tensors[i]) => DOMAIN tensors[i].data = 1 .. W(i)
  BY StartIs
<1>3. /\ Changing(T)
      /\ \A i \in Tensor!Ids : (i <= x \/ \A l \in 1 .. n : ops[l] # i) => T[i] = s[i]
  BY <1>1, SpreadsKeep
<1>4. /\ Graded(h)
      /\ \A i \in Tensor!Ids \ {loss} : h[i] = g[i]
      /\ \A c \in 1 .. W(loss) : Tensor!Grown(h, loss)[c] = IF c = 1 THEN 1 ELSE Tensor!Grown(g, loss)[c]
  BY SeededIs
<1>a. \A l \in 1 .. n : g[ops[l]] = Tensor!NoGrad
  OBVIOUS
<1> HIDE DEF s, T, h
<1>5. \A i \in Tensor!Ids : f[i] = IF Tensor!Fits(tensors[i]) THEN Dot(Tensor!Grown(h, i), T[i], W(i)) ELSE 0
  BY DEF Term
<1>6. Ints(f, N)
  BY <1>3, <1>4, TermInt
<1>7. \A i \in Tensor!Ids : Tensor!Fits(tensors[i]) =>
        /\ s[i] \in Vec(W(i)) /\ T[i] \in Vec(W(i))
        /\ \A j \in 1 .. W(i) : s[i][j] = IF i = x /\ j = k THEN 1 ELSE 0
  BY <1>2, <1>3 DEF Changing
<1>8. \A i \in Tensor!Ids : /\ Tensor!Grown(h, i) \in Vec(W(i))
                            /\ h[i] = Tensor!NoGrad => \A c \in 1 .. W(i) : Tensor!Grown(h, i)[c] = 0
  BY <1>4, GrownVec
<1> HIDE DEF f, N, n
<1>9. ASSUME NEW i \in 1 .. N, i # x, i # loss PROVE f[i] = 0
  <2>1. CASE Tensor!Fits(tensors[i])
    <3> DEFINE u == Tensor!Grown(h, i)
               y == T[i]
               w == W(i)
    <3>1. w \in Nat /\ u \in Vec(w) /\ y \in Vec(w)
      BY <1>0, <1>7, <1>8, <2>1
    <3>2. (\A c \in 1 .. w : u[c] = 0) \/ (\A c \in 1 .. w : y[c] = 0)
      <4>1. CASE \A l \in 1 .. n : ops[l] # i
        <5>1. T[i] = s[i]
          BY <1>0, <1>3, <4>1
        <5>2. \A j \in 1 .. W(i) : s[i][j] = 0
          BY <1>0, <1>7, <1>9, <2>1
        <5>. QED
          BY <5>1, <5>2
      <4>2. CASE \E l \in 1 .. n : ops[l] = i
        <5>1. g[i] = Tensor!NoGrad
          BY <1>a, <4>2
        <5>2. h[i] = Tensor!NoGrad
          BY <1>0, <1>4, <1>9, <5>1
        <5>. QED
          BY <1>0, <1>8, <5>2
      <4>. QED
        BY <4>1, <4>2
    <3>3. f[i] = Dot(u, y, w)
      BY <1>0, <1>5, <2>1
    <3> HIDE DEF u, y, w
    <3>. QED
      BY <3>1, <3>2, <3>3, DotZero
  <2>. QED
    BY <1>0, <1>5, <2>1
<1>10. T[x] = s[x]
  BY <1>0, <1>3
<1>11. f[x] = Tensor!Grown(h, x)[k]
  <2> DEFINE u == Tensor!Grown(h, x)
             y == T[x]
             w == W(x)
  <2>1. w \in Nat /\ u \in Vec(w) /\ y \in Vec(w) /\ k \in 1 .. w /\ \A j \in 1 .. w : y[j] = IF j = k THEN 1 ELSE 0
    BY <1>0, <1>7, <1>8, <1>10
  <2>2. f[x] = Dot(u, y, w)
    BY <1>0, <1>5
  <2> HIDE DEF u, y, w
  <2>3. Dot(u, y, w) = u[k]
    BY <2>1, DotUnit
  <2>. QED
    BY <2>2, <2>3 DEF u
<1>12. 1 \in DOMAIN tensors[loss].data /\ 1 \in 1 .. W(loss)
  BY <1>0, FirstElement DEF Positive
<1>13. CASE x = loss
  <2>1. Tensor!Total(f, N) = f[x]
    BY <1>0, <1>6, <1>9, <1>13, TotalSingle
  <2>2. f[x] = IF k = 1 THEN 1 ELSE Tensor!Grown(g, x)[k]
    BY <1>4, <1>11, <1>13
  <2>3. k # 1 => T[loss][1] = 0
    BY <1>2, <1>10, <1>12, <1>13
  <2>4. Tensor!Grown(g, x)[k] \in Int
    BY ValueIs
  <2>5. Tensor!Total(f, N) = IF x = loss /\ k = 1 THEN 1 ELSE Tensor!Grown(g, x)[k] + T[loss][1]
    BY <1>13, <2>1, <2>2, <2>3, <2>4
  <2>. QED
    BY <2>5 DEF Pair, f, N, h, T, n
<1>14. CASE x # loss
  <2>1. Tensor!Total(f, N) = f[x] + f[loss]
    BY <1>0, <1>6, <1>9, <1>14, TotalPair
  <2>2. Tensor!Grown(h, x) = Tensor!Grown(g, x)
    BY <1>4, <1>14 DEF Tensor!Grown
  <2>3. f[loss] = T[loss][1]
    <3> DEFINE u == Tensor!Grown(h, loss)
               y == T[loss]
               w == W(loss)
    <3>a. \A j \in DOMAIN tensors[loss].data : s[loss][j] = 0
      BY <1>2, <1>14
    <3>1. CASE Tensor!Fits(tensors[loss]) /\ \E l \in 1 .. n : ops[l] = loss
      <4>1. Tensor!Grown(g, loss) \in Vec(w) /\ \A c \in 1 .. w : Tensor!Grown(g, loss)[c] = 0
        BY <1>a, <3>1, GrownVec
      <4>2. /\ w \in Nat /\ u \in Vec(w) /\ y \in Vec(w) /\ 1 \in 1 .. w
            /\ \A c \in 1 .. w : u[c] = IF c = 1 THEN 1 ELSE 0
        BY <1>0, <1>4, <1>7, <1>8, <1>12, <3>1, <4>1
      <4>3. f[loss] = Dot(u, y, w)
        BY <1>0, <1>5, <3>1
      <4> HIDE DEF u, y, w
      <4>4. Dot(y, u, w) = y[1]
        BY <4>2, DotUnit
      <4>5. \A c \in 1 .. w : u[c] * y[c] = y[c] * u[c]
        <5>1. ASSUME NEW c \in 1 .. w PROVE u[c] * y[c] = y[c] * u[c]
          <6>1. u[c] \in Int /\ y[c] \in Int
            BY <4>2 DEF Vec
          <6>. QED
            BY <6>1
        <5>. QED
          BY <5>1
      <4>6. Dot(u, y, w) = Dot(y, u, w)
        BY <4>2, <4>5, DotSame
      <4>. QED
        BY <4>3, <4>4, <4>6 DEF y
    <3>2. CASE Tensor!Fits(tensors[loss]) /\ \A l \in 1 .. n : ops[l] # loss
      <4>1. T[loss] = s[loss] /\ DOMAIN tensors[loss].data = 1 .. W(loss)
        BY <1>2, <1>3, <3>2
      <4>2. w \in Nat /\ u \in Vec(w) /\ y \in Vec(w) /\ \A c \in 1 .. w : y[c] = 0
        BY <1>0, <1>7, <1>8, <3>2, <3>a, <4>1
      <4>3. f[loss] = Dot(u, y, w)
        BY <1>0, <1>5, <3>2
      <4>5. T[loss][1] = 0
        BY <1>12, <3>a, <4>1
      <4> HIDE DEF u, y, w
      <4>4. Dot(u, y, w) = 0
        BY <4>2, DotZero
      <4>. QED
        BY <4>3, <4>4, <4>5
    <3>3. CASE ~Tensor!Fits(tensors[loss])
      <4>1. \A l \in 1 .. n : ops[l] # loss
        BY <1>1, <3>3, EntryFacts
      <4>2. T[loss] = s[loss]
        BY <1>3, <4>1
      <4>. QED
        BY <1>0, <1>5, <1>12, <3>3, <3>a, <4>2
    <3>. QED
      BY <3>1, <3>2, <3>3
  <2>4. Tensor!Total(f, N) = Tensor!Grown(g, x)[k] + T[loss][1]
    BY <1>11, <2>1, <2>2, <2>3
  <2>. QED
    BY <1>14, <2>4 DEF Pair, f, N, h, T, n
<1>. QED
  BY <1>13, <1>14

\* What backward makes of gradients g.
LEMMA Pulled ==
  ASSUME Known, NEW ops, Entries(ops), NEW g, Graded(g),
         \A j \in 1 .. Len(ops) : g[ops[j]] = Tensor!NoGrad,
         NEW loss \in Tensor!Ids, NEW x \in Tensor!Ids, Tensor!Fits(tensors[x]), NEW k \in 1 .. W(x)
  PROVE  Tensor!Value(Tensor!Accrued(ops, Tensor!Seeded(g, loss))[x], k)
           = IF x = loss /\ k = 1 THEN 1
             ELSE Tensor!Value(g[x], k) + Tensor!Derivative(loss, ops, x, k)
<1> DEFINE n == Len(ops)
           h == Tensor!Seeded(g, loss)
           r == CHOOSE q : Runs(q, ops, h)
           t == CHOOSE q : Spreads(q, ops, x, k)
<1>1. Graded(h)
  BY SeededIs
<1>2. Runs(r, ops, h)
  BY <1>1, RunsExist, EntriesEntered
<1>3. Spreads(t, ops, x, k)
  BY SpreadsExist
<1>4. Tensor!Accrued(ops, h) = r[n] /\ Tensor!Derivative(loss, ops, x, k) = t[n][loss][1]
  BY AccruedIs, DerivativeIs
<1> HIDE DEF h, r, t
<1>5. Graded(r[n]) /\ Pair(r[n], t[0]) = Pair(h, t[n])
  BY <1>1, <1>2, <1>3, PairKeeps
<1>6. t[0] = Tensor!Start(x, k)
  <2>1. n \in Nat
    BY LenProperties DEF Entries
  <2>. QED
    BY <1>3, <2>1 DEF Spreads
<1>7. Pair(h, t[n]) = IF x = loss /\ k = 1 THEN 1 ELSE Tensor!Grown(g, x)[k] + t[n][loss][1]
  BY <1>3, PairEnd DEF h
<1> DEFINE R == r[n]
<1>b. Graded(R) /\ Pair(R, Tensor!Start(x, k)) = Pair(h, t[n])
  BY <1>5, <1>6
<1> HIDE DEF R
<1>8. Pair(R, Tensor!Start(x, k)) = Tensor!Grown(R, x)[k]
  BY <1>b, PairStart
<1>9. Tensor!Value(R[x], k) = Tensor!Grown(R, x)[k] /\ Tensor!Value(g[x], k) = Tensor!Grown(g, x)[k]
  BY <1>b, ValueIs
<1>10. Tensor!Value(Tensor!Accrued(ops, h)[x], k) = Tensor!Value(R[x], k)
  BY <1>4 DEF R
<1>. QED
  BY <1>4, <1>7, <1>8, <1>9, <1>10, <1>b DEF h

-----------------------------------------------------------------------------
(* What is known of the tensors holds in every reachable state.            *)

LeavesFirst == \A i \in 1 .. Len(Leaves) : i <= Len(tensors) /\ made[i].op = "leaf"

\* The tape is one that backward runs, with no entry twice.
TapeEntered ==
  /\ Entered(tape)
  /\ \A i, j \in 1 .. Len(tape) : i # j => tape[i] # tape[j]

Recorded ==
  /\ Taped /\ Known /\ LeavesFirst /\ TapeEntered
  /\ made = [i \in 1 .. Len(tensors) |-> made[i]]

LEMMA KnownKept ==
  ASSUME Known, Shaped', Len(tensors') = Len(tensors), made' = made,
         \A i \in 1 .. Len(tensors) :
           /\ tensors'[i].shape = tensors[i].shape
           /\ tensors'[i].data \in Seq(Int) /\ Len(tensors'[i].data) = Len(tensors[i].data)
           /\ tensors'[i].grad = Tensor!NoGrad \/ tensors'[i].grad \in Vec(W(i))
  PROVE  Known'
<1>0. \A i \in 1 .. Len(tensors) : Typed(i) /\ Made(i)
  BY DEF Known
<1>1. ASSUME NEW i \in 1 .. Len(tensors)
      PROVE  Tensor!Fits(tensors'[i]) <=> Tensor!Fits(tensors[i])
  BY DEF Tensor!Fits
<1>2. ASSUME NEW i \in 1 .. Len(tensors) PROVE Typed(i)'
  BY <1>0 DEF Typed, W
<1>3. ASSUME NEW i \in 1 .. Len(tensors) PROVE Made(i)'
  <2>1. CASE made[i].op = "leaf"
    BY <1>0, <1>1, <2>1 DEF Made
  <2>2. CASE made[i].op # "leaf"
    <3> DEFINE m == made[i]
    <3>1. /\ Remembered(m)
          /\ m.in = [p \in 1 .. Operands(m) |-> m.in[p]]
          /\ \A p \in 1 .. Operands(m) : /\ m.in[p] \in 1 .. i - 1
                                         /\ Tensor!Fits(tensors[m.in[p]])
                                         /\ m.seen[p].shape = tensors[m.in[p]].shape
          /\ tensors[i].shape = Result(m).shape /\ Len(tensors[i].data) = Length(m)
      BY <1>0, <2>2 DEF Made
    <3>2. Len(tensors) \in Nat
      BY DEF Known, Shaped
    <3>3. \A p \in 1 .. Operands(m) : m.in[p] \in 1 .. Len(tensors)
      BY <3>1, <3>2
    <3>4. \A p \in 1 .. Operands(m) : /\ Tensor!Fits(tensors'[m.in[p]])
                                      /\ m.seen[p].shape = tensors'[m.in[p]].shape
      BY <1>1, <3>1, <3>3
    <3>. QED
      BY <2>2, <3>1, <3>4 DEF Made
  <2>. QED
    BY <2>1, <2>2
<1>. QED
  BY <1>2, <1>3 DEF Known

\* A step that makes no tensor keeps all that is recorded of those there are.
LEMMA RecordedKept ==
  ASSUME Recorded, Taped', Len(tensors') = Len(tensors), made' = made, tape' \in {tape, <<>>},
         \A i \in 1 .. Len(tensors) :
           /\ tensors'[i].shape = tensors[i].shape
           /\ tensors'[i].data \in Seq(Int) /\ Len(tensors'[i].data) = Len(tensors[i].data)
           /\ tensors'[i].grad = Tensor!NoGrad \/ tensors'[i].grad \in Vec(W(i))
  PROVE  Recorded'
<1>1. Known'
  BY KnownKept DEF Recorded, Taped
<1>2. LeavesFirst'
  BY DEF LeavesFirst, Recorded
<1>3. TapeEntered'
  <2>1. CASE tape' = tape
    BY <2>1 DEF Recorded, TapeEntered, Entered, Tensor!Ids
  <2>2. CASE tape' = <<>>
    <3>1. tape' \in Seq(Tensor!Ids') /\ Len(tape') = 0
      BY <2>2, EmptySeq
    <3>2. 1 .. Len(tape') = {}
      BY <3>1
    <3>. QED
      BY <3>1, <3>2 DEF TapeEntered, Entered
  <2>. QED
    BY <2>1, <2>2
<1>. QED
  BY <1>1, <1>2, <1>3 DEF Recorded

LEMMA GradsGraded ==
  ASSUME Known
  PROVE  Graded(Tensor!Grads) /\ \A i \in Tensor!Ids : Tensor!Grads[i] = tensors[i].grad
BY KnownIds DEF Tensor!Grads, Graded, Typed

LEMMA BackwardRecords ==
  ASSUME Recorded, NEW loss \in Tensor!Ids, Tensor!Backward(loss)
  PROVE  /\ Recorded' /\ Len(tensors') = Len(tensors)
         /\ \A i \in 1 .. Len(tensors) :
              /\ tensors'[i].shape = tensors[i].shape /\ tensors'[i].data = tensors[i].data
              /\ tensors'[i].grad = Tensor!Accrued(tape, Tensor!Seeded(Tensor!Grads, loss))[i]
<1> DEFINE after == Tensor!Accrued(tape, Tensor!Seeded(Tensor!Grads, loss))
           f == [i \in 1 .. Len(tensors) |-> [tensors[i] EXCEPT !.grad = after[i]]]
<1>0. Taped /\ Known /\ Entered(tape)
  BY DEF Recorded, TapeEntered
<1>1. Graded(after)
  <2> DEFINE g == Tensor!Grads
             h == Tensor!Seeded(g, loss)
  <2>1. Graded(g)
    BY <1>0, GradsGraded
  <2> HIDE DEF g
  <2>2. Graded(h)
    BY <1>0, <2>1, SeededIs
  <2>3. after = Tensor!Accrued(tape, h)
    BY DEF g
  <2> HIDE DEF h, after
  <2>. QED
    BY <1>0, <2>2, <2>3, AccruedGraded
<1>2. tensors' = [i \in 1 .. Len(tensors) |-> f[i]] /\ tape' = <<>> /\ made' = made
  BY DEF Tensor!Backward, Tensor!Ids
<1> HIDE DEF after
<1>3. \A i \in 1 .. Len(tensors) :
        /\ DOMAIN f[i] = Fields /\ f[i].shape = tensors[i].shape /\ f[i].data = tensors[i].data
        /\ f[i].grad = after[i]
  BY <1>0 DEF Taped, Shaped, Fields
<1> HIDE DEF f
<1>4. Len(tensors') = Len(tensors)
  BY <1>0, <1>2, <1>3, SameTensors
<1>5. \A i \in 1 .. Len(tensors) :
        /\ tensors'[i].shape = tensors[i].shape /\ tensors'[i].data = tensors[i].data
        /\ tensors'[i].grad = after[i]
  BY <1>2, <1>3
<1>6. Taped'
  BY <1>0, BackwardTapes
<1>7. \A i \in 1 .. Len(tensors) : /\ tensors[i].data \in Seq(Int)
                                   /\ after[i] = Tensor!NoGrad \/ after[i] \in Vec(W(i))
  BY <1>0, <1>1, KnownIds DEF Typed, Graded
<1>8. Recorded'
  BY <1>2, <1>4, <1>5, <1>6, <1>7, RecordedKept
<1>. QED
  BY <1>4, <1>5, <1>8 DEF after

LEMMA ZeroGradRecords ==
  ASSUME Recorded, NEW S, Tensor!ZeroGrad(S)
  PROVE  Recorded'
<1> DEFINE f == [i \in 1 .. Len(tensors) |->
                   IF i \in S THEN [tensors[i] EXCEPT !.grad = Tensor!NoGrad] ELSE tensors[i]]
<1>0. Taped /\ Known
  BY DEF Recorded
<1>1. tensors' = [i \in 1 .. Len(tensors) |-> f[i]] /\ tape' = tape /\ made' = made
  BY DEF Tensor!ZeroGrad, Tensor!Ids
<1>2. \A i \in 1 .. Len(tensors) :
        /\ DOMAIN f[i] = Fields /\ f[i].shape = tensors[i].shape /\ f[i].data = tensors[i].data
        /\ f[i].grad \in {tensors[i].grad, Tensor!NoGrad}
  BY <1>0 DEF Taped, Shaped, Fields
<1> HIDE DEF f
<1>3. Len(tensors') = Len(tensors)
  BY <1>0, <1>1, <1>2, SameTensors
<1>4. Taped'
  BY <1>0, ZeroGradTapes
<1>5. \A i \in 1 .. Len(tensors) : /\ tensors[i].data \in Seq(Int)
                                   /\ tensors[i].grad = Tensor!NoGrad \/ tensors[i].grad \in Vec(W(i))
  BY <1>0, KnownIds DEF Typed
<1>. QED
  BY <1>1, <1>2, <1>3, <1>4, <1>5, RecordedKept

\* step_adam keeps the length of the data of the parameters, which fit.
LEMMA StepAdamRecords ==
  ASSUME Recorded, Tensor!StepAdam(Tensor!Parameters)
  PROVE  Recorded'
<1> DEFINE d(i) == [k \in DOMAIN tensors[i].data |-> tensors[i].data[k] - tensors[i].grad[k]]
           f == [i \in 1 .. Len(tensors) |->
                   IF i \in Tensor!Parameters /\ tensors[i].grad # Tensor!NoGrad
                   THEN [tensors[i] EXCEPT !.data = d(i)] ELSE tensors[i]]
<1>0. Taped /\ Known /\ LeavesFirst
  BY DEF Recorded
<1>1. tensors' = [i \in 1 .. Len(tensors) |-> f[i]] /\ tape' = tape /\ made' = made
  BY DEF Tensor!StepAdam, Tensor!Ids
<1>2. \A i \in 1 .. Len(tensors) : /\ tensors[i].data \in Seq(Int)
                                   /\ tensors[i].grad = Tensor!NoGrad \/ tensors[i].grad \in Vec(W(i))
  BY <1>0, KnownIds DEF Typed
<1>3. ASSUME NEW i \in 1 .. Len(tensors), i \in Tensor!Parameters, tensors[i].grad # Tensor!NoGrad
      PROVE  d(i) \in Seq(Int) /\ Len(d(i)) = Len(tensors[i].data)
  <2> DEFINE n == W(i)
             a == tensors[i].data
             b == tensors[i].grad
             e == d(i)
  <2>1. made[i].op = "leaf"
    BY <1>0, <1>3 DEF LeavesFirst, Tensor!Parameters
  <2>2. Tensor!Fits(tensors[i]) /\ n \in Nat
    BY <1>0, <2>1, KnownIds DEF Made
  <2>3. a \in Seq(Int) /\ Len(a) = n /\ b \in Vec(n)
    BY <1>2, <1>3, <2>2 DEF Tensor!Fits, W
  <2>4. DOMAIN a = 1 .. n /\ \A k \in 1 .. n : a[k] \in Int /\ b[k] \in Int
    BY <2>3, LenProperties, ElementOfSeq DEF Vec
  <2>5. e = [k \in DOMAIN a |-> a[k] - b[k]]
    OBVIOUS
  <2> HIDE DEF e, a, b, n
  <2>6. e \in [1 .. n -> Int] /\ e = [k \in 1 .. n |-> e[k]]
    BY <2>4, <2>5
  <2>7. \A k \in Nat : \A v \in [1 .. k -> Int] : v \in Seq(Int)
    BY SeqDef
  <2>8. e \in Seq(Int) /\ Len(e) = n
    BY <2>2, <2>6, <2>7, SequenceOf
  <2>. QED
    BY <2>3, <2>8 DEF e, a
<1> HIDE DEF d
<1>a. \A i \in 1 .. Len(tensors) :
        f[i] = IF i \in Tensor!Parameters /\ tensors[i].grad # Tensor!NoGrad
               THEN [tensors[i] EXCEPT !.data = d(i)] ELSE tensors[i]
  OBVIOUS
<1> HIDE DEF f
<1>4. ASSUME NEW i \in 1 .. Len(tensors)
      PROVE  /\ DOMAIN f[i] = Fields /\ f[i].shape = tensors[i].shape /\ f[i].grad = tensors[i].grad
             /\ \/ f[i].data = tensors[i].data
                \/ i \in Tensor!Parameters /\ tensors[i].grad # Tensor!NoGrad /\ f[i].data = d(i)
  <2>1. DOMAIN tensors[i] = Fields
    BY <1>0 DEF Taped, Shaped
  <2>2. CASE i \in Tensor!Parameters /\ tensors[i].grad # Tensor!NoGrad
    <3>1. f[i] = [tensors[i] EXCEPT !.data = d(i)]
      BY <1>a, <2>2
    <3>. QED
      BY <2>1, <2>2, <3>1 DEF Fields
  <2>3. CASE ~(i \in Tensor!Parameters /\ tensors[i].grad # Tensor!NoGrad)
    <3>1. f[i] = tensors[i]
      BY <1>a, <2>3
    <3>. QED
      BY <2>1, <3>1
  <2>. QED
    BY <2>2, <2>3
<1>5. Len(tensors') = Len(tensors)
  BY <1>0, <1>1, <1>4, SameTensors
<1>6. Taped'
  BY <1>0, StepAdamTapes
<1>7. \A i \in 1 .. Len(tensors) : f[i].data \in Seq(Int) /\ Len(f[i].data) = Len(tensors[i].data)
  BY <1>2, <1>3, <1>4
<1>. QED
  BY <1>1, <1>2, <1>4, <1>5, <1>6, <1>7, RecordedKept

\* What an operation remembers of its operands.
Operates(m) ==
  /\ m.op \in Tensor!Binary \cup Tensor!Unary
  /\ m.in \in Tensor!Operands(m.op) /\ m.arg \in Tensor!Args(m.op)
  /\ m.seen = [p \in DOMAIN m.in |-> Tensor!Operand(m.in[p])]
  /\ \A p \in DOMAIN m.in : Tensor!Fits(tensors[m.in[p]])
  /\ Tensor!Accepts(m.op, [p \in DOMAIN m.in |-> tensors[m.in[p]].shape], m.arg)

LEMMA OperationRemembered ==
  ASSUME Known, NEW m, Operates(m)
  PROVE  /\ Remembered(m) /\ m.in = [p \in 1 .. Operands(m) |-> m.in[p]]
         /\ \A p \in 1 .. Operands(m) : /\ m.in[p] \in Tensor!Ids /\ Tensor!Fits(tensors[m.in[p]])
                                        /\ m.seen[p].shape = tensors[m.in[p]].shape
<1> DEFINE c == Operands(m)
           in == m.in
           kind == m.op
<1>1. /\ kind \in Tensor!Binary \cup Tensor!Unary
      /\ in \in Tensor!Operands(kind) /\ m.arg \in Tensor!Args(kind)
      /\ m.seen = [p \in DOMAIN in |-> Tensor!Operand(in[p])]
      /\ \A p \in DOMAIN in : Tensor!Fits(tensors[in[p]])
      /\ Tensor!Accepts(kind, [p \in DOMAIN in |-> tensors[in[p]].shape], m.arg)
  BY DEF Operates
<1>2. in = [p \in 1 .. c |-> in[p]] /\ DOMAIN in = 1 .. c /\ \A p \in 1 .. c : in[p] \in Tensor!Ids
  <2>1. CASE kind \in Tensor!Binary
    <3>1. PICK i \in Tensor!Ids, j \in Tensor!Ids : in = <<i, j>>
      BY <1>1, <2>1 DEF Tensor!Operands
    <3>2. c = 2
      BY <1>1, <2>1 DEF Operands
    <3> HIDE DEF c
    <3>. QED
      BY <3>1, <3>2
  <2>2. CASE kind \notin Tensor!Binary
    <3>1. PICK i \in Tensor!Ids : in = <<i>>
      BY <1>1, <2>2 DEF Tensor!Operands
    <3>2. c = 1
      BY <1>1, <2>2 DEF Operands
    <3> HIDE DEF c
    <3>. QED
      BY <3>1, <3>2
  <2>. QED
    BY <2>1, <2>2
<1>c. DOMAIN in = 1 .. c
  BY <1>2
<1> HIDE DEF c
<1>a. Tensor!Accepts(kind, [p \in 1 .. c |-> tensors[in[p]].shape], m.arg)
  BY <1>1, <1>c
<1>b. \A p \in 1 .. c : Tensor!Fits(tensors[in[p]])
  BY <1>1, <1>c
<1>3. ASSUME NEW p \in 1 .. c
      PROVE  /\ m.seen[p] = Tensor!Operand(in[p]) /\ m.seen[p].shape = tensors[in[p]].shape
             /\ Whole(m.seen[p])
  <2> DEFINE i == in[p]
             s == tensors[i].shape
             a == tensors[i].data
  <2>1. m.seen[p] = Tensor!Operand(i)
    BY <1>1, <1>2
  <2>2. s \in Shape /\ a \in Seq(Int) /\ Tensor!Fits(tensors[i])
    BY <1>2, <1>b, KnownIds DEF Typed
  <2>3. Len(a) = Tensor!Numel(s)
    BY <2>2 DEF Tensor!Fits
  <2>4. Tensor!Operand(i) = [shape |-> s, data |-> a]
    BY DEF Tensor!Operand
  <2> HIDE DEF s, a, i
  <2>5. a \in Vec(Tensor!Numel(s))
    BY <2>2, <2>3, LenProperties, ElementOfSeq DEF Vec
  <2>6. Whole([shape |-> s, data |-> a])
    BY <2>2, <2>5 DEF Whole, Size
  <2>. QED
    BY <2>1, <2>4, <2>6 DEF i, s
<1>4. [p \in 1 .. c |-> m.seen[p].shape] = [p \in 1 .. c |-> tensors[in[p]].shape]
  BY <1>3
<1>5. m.seen = [p \in 1 .. c |-> m.seen[p]]
  BY <1>1, <1>2
<1>7. Tensor!Accepts(m.op, [p \in 1 .. c |-> m.seen[p].shape], m.arg)
  BY <1>4, <1>a
<1>8. m.op \in Tensor!Binary \cup Tensor!Unary /\ m.arg \in Tensor!Args(m.op)
  BY <1>1
<1>9. m.in = [p \in 1 .. c |-> m.in[p]] /\ \A p \in 1 .. c : m.in[p] \in Tensor!Ids
  BY <1>2
<1>10. \A p \in 1 .. c : Tensor!Fits(tensors[m.in[p]]) /\ m.seen[p].shape = tensors[m.in[p]].shape
  BY <1>3, <1>b
<1>6. Remembered(m)
  BY <1>3, <1>5, <1>7, <1>8 DEF Remembered, c
<1>. QED
  BY <1>6, <1>9, <1>10 DEF c

LEMMA OperateRecords ==
  ASSUME Recorded, NEW kind \in Tensor!Binary \cup Tensor!Unary,
         NEW in \in Tensor!Operands(kind), NEW arg \in Tensor!Args(kind),
         Tensor!Operate(kind, in, arg)
  PROVE  Recorded'
<1> DEFINE n == Len(tensors)
           seen == [p \in DOMAIN in |-> Tensor!Operand(in[p])]
           m == [op |-> kind, in |-> in, arg |-> arg, seen |-> seen]
           l == Tensor!Leaf(Result(m))
<1>0. /\ Taped /\ Known /\ LeavesFirst /\ TapeEntered /\ Shaped
      /\ made = [i \in 1 .. n |-> made[i]] /\ n \in Nat
      /\ tensors = [i \in 1 .. n |-> tensors[i]] /\ Tensor!Ids = 1 .. n
  BY KnownIds DEF Recorded, Known, Shaped
<1>1. /\ tensors' = Append(tensors, l) /\ made' = Append(made, m)
      /\ tape' = tape \/ tape' = Append(tape, n + 1)
  BY DEF Tensor!Operate, Result
<1>2. /\ \A p \in DOMAIN in : Tensor!Fits(tensors[in[p]])
      /\ Tensor!Accepts(kind, [p \in DOMAIN in |-> tensors[in[p]].shape], arg)
  BY DEF Tensor!Operate
<1>3. /\ Remembered(m) /\ m.in = [p \in 1 .. Operands(m) |-> m.in[p]]
      /\ \A p \in 1 .. Operands(m) : /\ m.in[p] \in 1 .. n /\ Tensor!Fits(tensors[m.in[p]])
                                     /\ m.seen[p].shape = tensors[m.in[p]].shape
  <2>1. /\ Remembered(m) /\ m.in = [p \in 1 .. Operands(m) |-> m.in[p]]
        /\ \A p \in 1 .. Operands(m) : /\ m.in[p] \in Tensor!Ids /\ Tensor!Fits(tensors[m.in[p]])
                                       /\ m.seen[p].shape = tensors[m.in[p]].shape
    <3>1. m.op = kind /\ m.in = in /\ m.arg = arg /\ m.seen = [p \in DOMAIN in |-> Tensor!Operand(in[p])]
      OBVIOUS
    <3> HIDE DEF m, seen
    <3>2. Operates(m)
      BY <1>2, <3>1 DEF Operates
    <3>. QED
      BY <1>0, <3>2, OperationRemembered
  <2> HIDE DEF m
  <2>. QED
    BY <1>0, <2>1
<1>4. m.op # "leaf"
  <2>1. m.op = kind
    OBVIOUS
  <2>. QED
    BY <2>1 DEF Tensor!Binary, Tensor!Unary
<1>5. LengthIs(m, Length(m), Result(m).shape, Result(m).data)
  BY <1>3, ResultIs
<1> HIDE DEF m, n, seen
<1>6. /\ l.shape = Result(m).shape /\ l.data = Result(m).data /\ l.grad = Tensor!NoGrad
  BY DEF Tensor!Leaf
<1> HIDE DEF l
<1>7. /\ Len(tensors') = n + 1 /\ \A i \in 1 .. n : tensors'[i] = tensors[i]
      /\ tensors'[n + 1] = l
  BY <1>0, <1>1, SequenceOf
<1>8. /\ made' = [i \in 1 .. n + 1 |-> made'[i]] /\ \A i \in 1 .. n : made'[i] = made[i]
      /\ made'[n + 1] = m
  BY <1>0, <1>1, SequenceOf
<1>9. Taped'
  BY <1>0, OperateTapes
<1>10. \A i \in 1 .. n : Typed(i) /\ Made(i)
  BY <1>0 DEF Known, n
<1>11. \A i \in 1 .. n : Typed(i)'
  BY <1>7, <1>10 DEF Typed, W
<1>12. ASSUME NEW i \in 1 .. n PROVE Made(i)'
  <2>1. CASE made[i].op = "leaf"
    BY <1>7, <1>8, <1>10, <2>1 DEF Made
  <2>2. CASE made[i].op # "leaf"
    <3> DEFINE o == made[i]
    <3>1. /\ Remembered(o)
          /\ o.in = [p \in 1 .. Operands(o) |-> o.in[p]]
          /\ \A p \in 1 .. Operands(o) : /\ o.in[p] \in 1 .. i - 1
                                         /\ Tensor!Fits(tensors[o.in[p]])
                                         /\ o.seen[p].shape = tensors[o.in[p]].shape
          /\ tensors[i].shape = Result(o).shape /\ Len(tensors[i].data) = Length(o)
      BY <1>10, <2>2 DEF Made
    <3>2. made'[i] = o /\ tensors'[i] = tensors[i]
      BY <1>7, <1>8
    <3>3. \A p \in 1 .. Operands(o) : tensors'[o.in[p]] = tensors[o.in[p]]
      BY <1>0, <1>7, <3>1
    <3>. QED
      BY <2>2, <3>1, <3>2, <3>3 DEF Made
  <2>. QED
    BY <2>1, <2>2
<1>13. /\ l.shape \in Shape /\ l.data \in Vec(Length(m)) /\ Length(m) \in Nat
  BY <1>5, <1>6 DEF LengthIs, Positive
<1>14. l.data \in Seq(Int) /\ Len(l.data) = Length(m)
  <2> DEFINE a == l.data
             k == Length(m)
  <2>1. a \in [1 .. k -> Int] /\ k \in Nat /\ a = [i \in 1 .. k |-> a[i]]
    BY <1>13 DEF Vec
  <2>2. \A j \in Nat : \A v \in [1 .. j -> Int] : v \in Seq(Int)
    BY SeqDef
  <2> HIDE DEF a, k
  <2>3. a \in Seq(Int) /\ Len(a) = k
    BY <2>1, <2>2, SequenceOf
  <2>. QED
    BY <2>3 DEF a, k
<1>15. ASSUME NEW i, i = n + 1 PROVE Typed(i)'
  BY <1>6, <1>7, <1>13, <1>14, <1>15 DEF Typed
<1>16. ASSUME NEW i, i = n + 1 PROVE Made(i)'
  <2>1. i - 1 = n /\ made'[i] = m /\ tensors'[i] = l
    BY <1>0, <1>7, <1>8, <1>16
  <2>2. \A p \in 1 .. Operands(m) : m.in[p] \in 1 .. i - 1 /\ tensors'[m.in[p]] = tensors[m.in[p]]
    BY <1>3, <1>7, <2>1
  <2>. QED
    BY <1>3, <1>4, <1>6, <1>14, <2>1, <2>2 DEF Made
<1>17. 1 .. n + 1 = (1 .. n) \cup {n + 1}
  BY <1>0
<1>18. Known'
  <2>1. ASSUME NEW i \in 1 .. Len(tensors') PROVE Typed(i)' /\ Made(i)'
    <3>1. i \in 1 .. n \/ i = n + 1
      BY <1>7, <1>17
    <3>. QED
      BY <1>11, <1>12, <1>15, <1>16, <3>1
  <2>. QED
    BY <1>9, <2>1 DEF Known, Taped
<1>19. LeavesFirst'
  <2>1. \A i \in 1 .. Len(Leaves) : i <= n /\ made[i].op = "leaf"
    BY <1>0 DEF LeavesFirst, n
  <2>2. \A i \in 1 .. Len(Leaves) : i \in 1 .. n
    <3>1. Leaves \in Seq([shape : Seq(Nat \ {0}), data : Seq(Int)])
      BY TapeAssumption DEF Tensor!Script
    <3>2. Len(Leaves) \in Nat
      BY <3>1, LenProperties
    <3>3. ASSUME NEW i \in 1 .. Len(Leaves) PROVE i \in 1 .. n
      <4>1. i \in Nat /\ 1 <= i
        BY <3>2
      <4>2. i <= n
        BY <2>1
      <4>. QED
        BY <1>0, <4>1, <4>2
    <3>. QED
      BY <3>3
  <2>3. \A i \in 1 .. Len(Leaves) : i <= n + 1 /\ made'[i].op = "leaf"
    <3> SUFFICES ASSUME NEW i \in 1 .. Len(Leaves) PROVE i <= n + 1 /\ made'[i].op = "leaf"
      OBVIOUS
    <3>1. i \in 1 .. n /\ made[i].op = "leaf"
      BY <2>1, <2>2
    <3>. QED
      BY <1>0, <1>8, <3>1
  <2>. QED
    BY <1>7, <2>3 DEF LeavesFirst
<1>20. TapeEntered'
  <2>1. /\ tape \in Seq(1 .. n) /\ Len(tape) \in Nat
        /\ \A i \in 1 .. Len(tape) : tape[i] \in 1 .. n /\ made[tape[i]].op # "leaf"
        /\ \A i, j \in 1 .. Len(tape) : i # j => tape[i] # tape[j]
    BY <1>0, LenProperties DEF TapeEntered, Entered
  <2>2. tape \in Seq(1 .. n + 1) /\ n + 1 \in 1 .. n + 1
    BY <1>0, <2>1, SeqMonotonic
  <2>3. Tensor!Ids' = 1 .. n + 1
    BY <1>7 DEF Tensor!Ids
  <2>4. CASE tape' = tape
    BY <1>8, <1>17, <2>1, <2>2, <2>3, <2>4 DEF TapeEntered, Entered
  <2>5. CASE tape' = Append(tape, n + 1)
    <3>1. /\ tape' \in Seq(1 .. n + 1) /\ Len(tape') = Len(tape) + 1
          /\ \A i \in 1 .. Len(tape) : tape'[i] = tape[i]
          /\ tape'[Len(tape) + 1] = n + 1
      BY <2>2, <2>5, AppendProperties
    <3>2. \A i \in 1 .. Len(tape') : i \in 1 .. Len(tape) \/ i = Len(tape) + 1
      BY <2>1, <3>1
    <3>3. n + 1 \notin 1 .. n
      BY <1>0
    <3>4. \A i \in 1 .. Len(tape') : tape'[i] \in 1 .. n + 1 /\ made'[tape'[i]].op # "leaf"
      BY <1>4, <1>8, <1>17, <2>1, <3>1, <3>2
    <3>5. \A i, j \in 1 .. Len(tape') : i # j => tape'[i] # tape'[j]
      BY <2>1, <3>1, <3>2, <3>3
    <3>. QED
      BY <2>3, <3>1, <3>4, <3>5 DEF TapeEntered, Entered
  <2>. QED
    BY <1>1, <2>4, <2>5
<1>. QED
  BY <1>7, <1>8, <1>9, <1>18, <1>19, <1>20 DEF Recorded

LEMMA RecordedInit == Tensor!Init => Recorded
<1>1. SUFFICES ASSUME Tensor!Init PROVE Recorded
  OBVIOUS
<1> DEFINE n == Len(Leaves)
<1>2. Leaves \in Seq([shape : Seq(Nat \ {0}), data : Seq(Int)]) /\ \A i \in DOMAIN Leaves : Tensor!Fits(Leaves[i])
  BY TapeAssumption DEF Tensor!Script
<1>3. n \in Nat /\ DOMAIN Leaves = 1 .. n
  BY <1>2, LenProperties
<1>4. ASSUME NEW i \in 1 .. n
      PROVE  /\ Leaves[i].shape \in Shape /\ Leaves[i].data \in Seq(Int)
             /\ Tensor!Fits(Leaves[i])
  <2>1. Leaves[i] \in [shape : Seq(Nat \ {0}), data : Seq(Int)]
    BY <1>2, <1>3, ElementOfSeq
  <2>. QED
    BY <1>2, <1>3, <2>1 DEF Shape, Positive
<1>5. /\ tensors = [i \in 1 .. n |-> Tensor!Leaf(Leaves[i])] /\ made = [i \in 1 .. n |-> Tensor!LeafMade]
      /\ tape = <<>>
  BY <1>1 DEF Tensor!Init
<1> HIDE DEF n
<1>6. Len(tensors) = n
  <2>1. tensors = [i \in 1 .. n |-> tensors[i]]
    BY <1>5
  <2>. QED
    BY <1>3, <2>1, SequenceOf
<1>7. Taped
  BY <1>1, TapedInit
<1>8. ASSUME NEW i \in 1 .. n PROVE Typed(i) /\ Made(i) /\ made[i].op = "leaf"
  <2>1. /\ tensors[i].shape = Leaves[i].shape /\ tensors[i].data = Leaves[i].data
        /\ tensors[i].grad = Tensor!NoGrad
    BY <1>5 DEF Tensor!Leaf
  <2>2. made[i].op = "leaf"
    BY <1>5 DEF Tensor!LeafMade
  <2>3. Typed(i)
    BY <1>4, <2>1 DEF Typed
  <2>4. Tensor!Fits(tensors[i])
    BY <1>4, <2>1 DEF Tensor!Fits
  <2>. QED
    BY <2>2, <2>3, <2>4 DEF Made
<1>9. Known
  BY <1>6, <1>7, <1>8 DEF Known, Taped
<1>10. LeavesFirst
  BY <1>3, <1>6, <1>8 DEF LeavesFirst, n
<1>11. TapeEntered
  <2>1. tape \in Seq(Tensor!Ids) /\ Len(tape) = 0
    BY <1>5, EmptySeq
  <2>2. 1 .. Len(tape) = {}
    BY <2>1
  <2>. QED
    BY <2>1, <2>2 DEF TapeEntered, Entered
<1>12. made = [i \in 1 .. n |-> made[i]]
  BY <1>5
<1>. QED
  BY <1>6, <1>7, <1>9, <1>10, <1>11, <1>12 DEF Recorded

LEMMA RecordedNext == Recorded /\ [Tensor!Next]_(Tensor!vars) => Recorded'
<1> SUFFICES ASSUME Recorded, [Tensor!Next]_(Tensor!vars) PROVE Recorded'
  OBVIOUS
<1>0. Taped /\ Known
  BY DEF Recorded
<1>t. Taped'
  BY <1>0, TapedNext
<1>f. \A i \in 1 .. Len(tensors) : /\ tensors[i].data \in Seq(Int)
                                   /\ tensors[i].grad = Tensor!NoGrad \/ tensors[i].grad \in Vec(W(i))
  BY <1>0, KnownIds DEF Typed
<1>1. ASSUME NEW kind \in Tensor!Binary \cup Tensor!Unary, NEW in \in Tensor!Operands(kind),
             NEW arg \in Tensor!Args(kind), Tensor!Operate(kind, in, arg)
      PROVE  Recorded'
  BY <1>1, OperateRecords
<1>2. ASSUME NEW on \in BOOLEAN, Tensor!SetGrad(on) PROVE Recorded'
  <2>1. tensors' = tensors /\ made' = made /\ tape' = <<>>
    BY <1>2 DEF Tensor!SetGrad
  <2>. QED
    BY <1>t, <1>f, <2>1, RecordedKept
<1>3. CASE Tensor!ZeroGrad(Tensor!Parameters)
  BY <1>3, ZeroGradRecords
<1>4. ASSUME NEW loss \in Tensor!Ids, Tensor!Backward(loss) PROVE Recorded'
  BY <1>4, BackwardRecords
<1>5. CASE Tensor!StepAdam(Tensor!Parameters)
  BY <1>5, StepAdamRecords
<1>6. CASE UNCHANGED Tensor!vars
  <2>1. tensors' = tensors /\ made' = made /\ tape' = tape
    BY <1>6 DEF Tensor!vars
  <2>. QED
    BY <1>t, <1>f, <2>1, RecordedKept
<1>. QED
  BY <1>1, <1>2, <1>3, <1>4, <1>5, <1>6 DEF Tensor!Next

\* The derivative, from the changes that it starts with.
DerivativeFrom(s, mk, loss, ops, x, k) ==
  LET run[j \in 0 .. Len(ops)] ==
        IF j = 0 THEN s
        ELSE IF ops[j] <= x THEN run[j - 1]
        ELSE [run[j - 1] EXCEPT ![ops[j]] =
                Tensor!Tangent(mk[ops[j]], [p \in DOMAIN mk[ops[j]].in |-> run[j - 1][mk[ops[j]].in[p]]])]
  IN run[Len(ops)][loss][1]

\* backward changes neither what was made nor what is plain, nor derivatives.
LEMMA DerivativeKept ==
  ASSUME made' = made, Len(tensors') = Len(tensors),
         \A i \in 1 .. Len(tensors) : tensors'[i].shape = tensors[i].shape /\ tensors'[i].data = tensors[i].data
  PROVE  \A x, k : Tensor!Derivative(last.loss, last.tape, x, k)'
                     = Tensor!Derivative(last'.loss, last'.tape, x, k)
<1> SUFFICES ASSUME NEW x, NEW k
             PROVE  Tensor!Derivative(last.loss, last.tape, x, k)'
                      = Tensor!Derivative(last'.loss, last'.tape, x, k)
  OBVIOUS
<1>1. Tensor!Start(x, k)' = Tensor!Start(x, k)
  BY DEF Tensor!Start, Tensor!Ids
<1>2. Tensor!Derivative(last.loss, last.tape, x, k)'
        = DerivativeFrom(Tensor!Start(x, k)', made', last'.loss, last'.tape, x, k)
  BY DEF Tensor!Derivative, DerivativeFrom, Tensor!Change
<1>3. Tensor!Derivative(last'.loss, last'.tape, x, k)
        = DerivativeFrom(Tensor!Start(x, k), made, last'.loss, last'.tape, x, k)
  BY DEF Tensor!Derivative, DerivativeFrom, Tensor!Change
<1>. QED
  BY <1>1, <1>2, <1>3

LEMMA BackwardDerives ==
  ASSUME Recorded, NEW loss \in Tensor!Ids, Tensor!Backward(loss)
  PROVE  GradientIsDerivative'
<1> DEFINE g == Tensor!Grads
<1>0. Taped /\ Known /\ Tensor!TapeIsFresh /\ TapeEntered /\ Entered(tape) /\ Tensor!Ids = 1 .. Len(tensors)
  BY KnownIds DEF Recorded, Taped, TapeEntered
<1>1. /\ last'.loss = loss /\ last'.tape = tape /\ last'.before = g /\ made' = made
  BY DEF Tensor!Backward
<1>2. /\ Recorded' /\ Len(tensors') = Len(tensors)
      /\ \A i \in 1 .. Len(tensors) :
           /\ tensors'[i].shape = tensors[i].shape /\ tensors'[i].data = tensors[i].data
           /\ tensors'[i].grad = Tensor!Accrued(tape, Tensor!Seeded(g, loss))[i]
  BY BackwardRecords
<1>3. Graded(g) /\ \A i \in Tensor!Ids : g[i] = tensors[i].grad
  BY <1>0, GradsGraded
<1>4. tape \in Seq(Tensor!Ids) /\ DOMAIN tape = 1 .. Len(tape)
      /\ \A j \in 1 .. Len(tape) : tape[j] \in Tensor!Ids /\ made[tape[j]].op # "leaf"
  BY <1>0, LenProperties DEF Entered
<1>5. \A j \in 1 .. Len(tape) : g[tape[j]] = Tensor!NoGrad
  BY <1>0, <1>3, <1>4 DEF Tensor!TapeIsFresh
<1> SUFFICES ASSUME (\A i \in DOMAIN last.tape : Tensor!Plain(last.tape[i]))'
             PROVE  Tensor!Follows'
  BY DEF GradientIsDerivative, Tensor!GradientIsDerivative
<1>6. \A j \in 1 .. Len(tape) : Tensor!Plain(tape[j])
  <2> SUFFICES ASSUME NEW j \in 1 .. Len(tape) PROVE Tensor!Plain(tape[j])
    OBVIOUS
  <2> DEFINE e == tape[j]
  <2>1. Tensor!Plain(last.tape[j])' /\ last'.tape[j] = e /\ e \in Tensor!Ids
    BY <1>1, <1>4
  <2>2. tensors'[e].shape = tensors[e].shape /\ tensors'[e].data = tensors[e].data
    BY <1>0, <1>2, <2>1
  <2> HIDE DEF e
  <2>3. Tensor!Plain(e)
    BY <1>1, <2>1, <2>2 DEF Tensor!Plain, Tensor!Fits
  <2>. QED
    BY <2>3 DEF e
<1>7. Entries(tape)
  BY <1>0, <1>4, <1>6 DEF Entries, Entry, TapeEntered
<1> HIDE DEF g
<1>8. ASSUME NEW x \in Tensor!Ids', Tensor!Fits(tensors'[x]), NEW k \in DOMAIN tensors'[x].data
      PROVE  Tensor!Value(tensors'[x].grad, k) =
               IF x = last'.loss /\ k = 1 THEN 1
               ELSE Tensor!Value(last'.before[x], k) + Tensor!Derivative(last.loss, last.tape, x, k)'
  <2>1. /\ x \in Tensor!Ids /\ x \in 1 .. Len(tensors)
        /\ tensors'[x].shape = tensors[x].shape /\ tensors'[x].data = tensors[x].data
    BY <1>0, <1>2 DEF Tensor!Ids
  <2>2. Tensor!Fits(tensors[x])
    BY <1>8, <2>1 DEF Tensor!Fits
  <2>3. k \in 1 .. W(x)
    BY <1>0, <1>8, <2>1, <2>2, StartIs
  <2>4. Tensor!Value(Tensor!Accrued(tape, Tensor!Seeded(g, loss))[x], k)
          = IF x = loss /\ k = 1 THEN 1
            ELSE Tensor!Value(g[x], k) + Tensor!Derivative(loss, tape, x, k)
    BY <1>0, <1>3, <1>5, <1>7, <2>1, <2>2, <2>3, Pulled
  <2>5. Tensor!Derivative(last.loss, last.tape, x, k)' = Tensor!Derivative(loss, tape, x, k)
    BY <1>1, <1>2, DerivativeKept
  <2>. QED
    BY <1>1, <1>2, <2>1, <2>4, <2>5
<1>. QED
  BY <1>8 DEF Tensor!Follows

\* The invariant: what is recorded, and the derivatives.
Derived == Recorded /\ GradientIsDerivative

LEMMA DerivedNext == Derived /\ [Tensor!Next]_(Tensor!vars) => Derived'
<1> SUFFICES ASSUME Derived, [Tensor!Next]_(Tensor!vars) PROVE Derived'
  OBVIOUS
<1>1. Recorded'
  BY RecordedNext DEF Derived
<1>2. CASE \E loss \in Tensor!Ids : Tensor!Backward(loss)
  BY <1>1, <1>2, BackwardDerives DEF Derived
<1>3. CASE UNCHANGED Tensor!vars
  <2>1. GradientIsDerivative'
    <3>1. tensors' = tensors /\ made' = made /\ last' = last
      BY <1>3 DEF Tensor!vars
    <3> SUFFICES ASSUME last.loss # 0, (\A i \in DOMAIN last.tape : Tensor!Plain(last.tape[i]))'
                 PROVE  Tensor!Follows'
      BY <3>1 DEF GradientIsDerivative, Tensor!GradientIsDerivative
    <3>2. ASSUME NEW i \in DOMAIN last.tape PROVE Tensor!Plain(last.tape[i])
      <4>1. Tensor!Plain(last.tape[i])' /\ last.tape' = last.tape
        BY <3>1
      <4>2. Tensor!Plain(last.tape[i])' = Tensor!Plain(last.tape[i])
        BY <3>1, <4>1 DEF Tensor!Plain, Tensor!Fits
      <4>. QED
        BY <4>1, <4>2
    <3>3. Tensor!Follows
      BY <3>2 DEF Derived, GradientIsDerivative, Tensor!GradientIsDerivative
    <3>4. \A x, k : Tensor!Derivative(last.loss, last.tape, x, k)' = Tensor!Derivative(last.loss, last.tape, x, k)
      BY <3>1, DerivativeKept
    <3>. QED
      BY <3>1, <3>3, <3>4 DEF Tensor!Follows, Tensor!Ids
  <2>. QED
    BY <1>1, <2>1 DEF Derived
<1>4. CASE last' = Tensor!Backward0
  <2>1. GradientIsDerivative'
    BY <1>4 DEF Tensor!Backward0, GradientIsDerivative, Tensor!GradientIsDerivative
  <2>. QED
    BY <1>1, <2>1 DEF Derived
<1>. QED
  BY <1>2, <1>3, <1>4
  DEF Tensor!Next, Tensor!Operate, Tensor!SetGrad, Tensor!ZeroGrad, Tensor!StepAdam

\* backward leaves in every tensor what was there and the derivative of the
\* loss by it: one, if the tensor is the loss.  The entries of the tape are as
\* Plain has them; how many there are, and how often the script ran backward or
\* stepped the parameters before, does not matter.
THEOREM BackwardDifferentiates == AllSpec => []GradientIsDerivative
<1>1. AllInit => Derived
  <2>1. Tensor!Init => GradientIsDerivative
    BY DEF Tensor!Init, Tensor!Backward0, GradientIsDerivative, Tensor!GradientIsDerivative
  <2>. QED
    BY <2>1, RecordedInit DEF AllInit, Derived
<1>2. Derived /\ [AllNext]_allVars => Derived'
  <2>1. [AllNext]_allVars => [Tensor!Next]_(Tensor!vars)
    BY DEF AllNext, TasksMove, TensorsMove, allVars, tapeVars, Tensor!vars
  <2>. QED
    BY <2>1, DerivedNext
<1>3. Derived => GradientIsDerivative
  BY DEF Derived
<1>. QED
  BY <1>1, <1>2, <1>3, PTL DEF AllSpec
=============================================================================
