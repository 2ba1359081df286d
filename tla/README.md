# Verification of gltk in TLA+

gltk is a scripting language for binary tooling: a compiler that translates
scripts (`.glk`) into register bytecode, a virtual machine (GLVM) that runs it,
a library of native functions written in Go (files, network, GUI, goroutine
tasks, a proxy, readers of binary formats), and a command line around them.
This directory holds TLA+ models of the language from its text to its machine, and
of the native functions in which the order of events decides what happens, the TLC
configurations that check them on small instances, and TLAPS proofs of the most
important results for instances of every size.

    tlc -config GlvmFrames_control.cfg MCGlvmFrames     # one run
    tlapm GlvmFrames_proofs.tla                         # one proof module

`PROJECT.json` lists the runs, maps every definition to the source lines that it
models, and gives for each property a mistake in the code that the run would
catch. Those mistakes are the operators commented `Mistake:`.

## 1. Inventory

| Component | Source | State it keeps | Operations | What must be right | Module |
|---|---|---|---|---|---|
| GLVM interpreter: frames, calls, errors, callbacks | `internal/vm/vm.go` | `vm.frames` with registers, captures and try handlers; globals; files; `Ops` | `Run`, `execute` (one case per opcode), `doCall`, `doReturn`, `handleTry`, `CallClosure`, `Release` | calls come back to their callers, errors reach the newest handler once, callbacks leave suspended frames alone, captures persist, `MaxOps` ends every run | `GlvmFrames`, `CallStack` |
| Async tasks, futures, handles | `internal/vm/async.go`, `internal/native/async.go` | futures of each VM, process-wide `handles` | `spawn`, `await`, `await_all`, `ready`, `parallel`, `drop` | registries and the handle table are exact, waits end, a task that is done has closed its files | `AsyncTasks` |
| Async channels | same files | `Channel{ch, closed}` and its handle | `send`, `recv` with three kinds of timeout, `close`, `drop` | a bounded queue: nothing lost, nothing twice, in order; a true answer; no panic | `AsyncChannel`, `BoundedQueue` |
| Mutexes and wait groups | same files | handles over `sync.Mutex`, `sync.WaitGroup` | `lock`, `unlock`, `wg_add`, `wg_done`, `wg_wait` | what Go promises of them | none |
| GLVM values and data instructions | `internal/vm/value.go`, `vm.go` | values; the storage they share | arithmetic, comparison, indexing, byte windows, slices | the value that the text means, whatever storage is shared | `GlvmValues`, `ValueStore` |
| Bytes and buffers | `internal/native/bin.go`, `native.go` | the table of mutable buffers under `mbufMu` | `zeros`, `slice`, `write_at`, `fill`, `u16le`, ..., `mbuf`, `mset`, `mfill`, `mbytes`; `push`, `pop`, `clone` | a number is found where it was written; sharing shows in no value | `ByteOps`, `ValueStore` |
| Lexer, parser, AST | `internal/lexer`, `parser`, `ast` | position in the text | one function per token and rule | the tree of a text is the one it was written from | `Lexer`, `Parser`, `SourceText` |
| Compiler | `internal/compiler/compiler.go` | scopes, register allocator, loop stacks, protos | one function per statement and expression | a live register is not handed out twice; the code does what the body means | `RegisterAllocator`, `CodeGen`, `Language` |
| Module loader | `internal/module/loader.go` | import stack, compiled files | `CompileFile`, `compileUnit`, `resolve`, `mergeSetups`, search paths | a circle is an error, each file is there once, an alias means the file that the entry's import names, the first place wins | `ModuleLoader`, `Sources` |
| Bytecode container | `internal/bytecode` | none | encode, decode | decoding inverts encoding, and nothing shorter decodes | `Container` |
| Packer, obfuscator | `internal/packer`, `obfus` | none | expansion, permutation, sealing, the executable | what comes out does what went in; it opens behind its own stub, and not behind one whose first MiB is another | `Obfuscator`, `Container` |
| Clash proxy | `internal/native/clash_vless.go` | process-wide `clashRT`: listener, node, running flag, counters | `start`, `stop`, accept loop, SOCKS5 handshake, VLESS dial, relay | one accept loop per start, the node of the port connected to, nothing lost, relays end | `ClashProxy`, `ClashWire` |
| net, ws and file handles | `internal/native/net.go`, `ws.go`, `io.go` | tables from numbers to connections, listeners, files | open, accept, read, write, close | what is closed is what was opened, a number is not drawn twice | `HostHandles` |
| Tensors | `internal/native/tensor.go` | process-wide tape and flag; `data` and `grad` of each tensor | operations, `enable_grad`, `backward`, `zero_grad`, `step_adam` | gradients are derivatives; no entry is run twice | `TensorTape` |
| Tokenizer | same file | none | `bpe_train`, `bpe_encode`, `bpe_decode` | tokens expand to their text | `Tokenizer` |
| wxapkg and asar packages | `internal/wxapkg`, `native/asar.go` | none | decrypt, index, unpack; list, read, extract | the files that were put in come out | `Packages` |
| Other analysis formats | `internal/dotnet`, `upx`, `vmp`, `ahpk2`, `native/pe*.go`, `elf.go`, `lua*.go`, ... | none | read and write one file format each | pure functions of their input | none |
| GUI natives | `internal/native/gui*.go` | widgets, event queues, closures | message loop calling closures | callbacks are nested activations of the VM | as `CallClosure` |
| Command line | `internal/cli`, `cmd` | none | run, build, pack | argument handling | none |
| Script guard, toolkit | `internal/scriptguard`, `toolkit` | none | rewriting text, scaffolding | pure functions | none |
| Vendored GUI toolkit | `third_party/cui` | | | third-party code, left aside | none |

How they interact. The command line loads a program with the module loader,
which drives lexer, parser and compiler, and merges everything into one chunk.
The chunk is encoded, may be obfuscated, and may be sealed into an executable. A VM
runs the chunk. `OpCALL` on a native calls Go; a native may call back with
`CallClosure`, which nests an `execute()` inside the Go call, or start a goroutine
with `SpawnClosure`, which clones the VM: the chunk and the modules are shared, the
globals are copied, the files are not shared. Tasks meet again through the
process-wide handle table, and through the arrays, maps and buffers that the copied
globals still share. Natives that keep tables of their own (net, ws, buffers, proxy,
tensors) share them among all VMs of the process.

What is hard in this code, with the lines, is the list `hazards` of
`PROJECT.json`. In short: the unwinding of errors across nested activations; a
slice shared by a closure and its frames; a goroutine that reads its parent
while the parent runs; a channel looked at under a mutex and used after it is
given up; waits that race `drop`; natives that return early and leave tasks
behind; bytes and 16-bit fields for registers and jumps in the compiler;
handlers left behind by `break`; operands that are distances, when code is moved; an
alias table that keeps one of two; a proxy restarted while its old accept loop and
its relays live; a buffered reader beside a raw copy; a number looked up under a
lock and used after it; values that share storage; one tape for all tensors.

## 2. What is modelled

### GlvmFrames: the interpreter's control state

`GlvmFrames.tla` is `execute()`, `doCall`, `doReturn`, `handleTry`,
`CallClosure`, `Run` and `Release`.

| State | Code |
|---|---|
| `frames`, `heap` | `vm.frames` is a slice of pointers; `heap` is what they point to: registers, capture slice, `retReg`, `tryStack`, and whether `releaseFrame` has set `proto = nil` |
| `saved` | the local variable `saved` of every `CallClosure` on the Go stack |
| `natives` | the `doCall`s on the Go stack that wait for a Go function: each has read `fr` and will write `fr.regs[retReg]` |
| `upvals` | the capture slices. A frame and its closure hold the same slice, as `newFrame(..., fn.Fn.Upvals, ...)` does |
| `pc`, `outcome` | whether Go is in `execute()`, in a native, or back in the host, and with what |
| `ops`, `tries` | `vm.Ops`; the number of `TRY` executed, which bounds the run and stamps handlers |
| `awaits`, `capture`, `returned`, `caught` | history, read by properties only |

An action is one class of instruction with all that it calls: `Return` is
`OpRET` with `doReturn`, `releaseFrame` and, at the last frame of an activation,
the return from `execute()` into `CallClosure` with its deferred restore. The
instruction is chosen nondeterministically, so the model covers every program
the machine can be given, not only those the compiler emits. Instruction pointers
are left out for that reason; a handler is known by its stamp. A register holds
a data value, null, or the string bound by a catch.

`CallStack.tla` is the promise: one stack for the whole VM on which script calls
and natives nest, where an error unwinds to the nearest handler and never past a
native. `MCGlvmFrames` maps the saved and running slices to that stack.

### AsyncTasks: tasks, futures and handles

`AsyncTasks.tla` is `SpawnClosure`, `CloneForAsync`, `settle`, `forget`, `Release`
and the natives `spawn`, `await`, `await_all`, `drop`, `parallel`. The status of a
task is the line its goroutine is at: registered and started, cloning, running,
`CallClosure` returned, released, settled, forgotten. A native is cut wherever
the Go code gives up `handlesMu` or waits, so that two natives interleave exactly
there: `async.await` is `Await` (getHandle) and `AwaitDone` (Wait returned and
delHandle). Ids come from atomic counters and are never reused, so a future and
its handle are named by the task. Scripts may pass handles on, so every running
task may use every handle that `spawn` has returned. An early return that
changes nothing (a handle that is not there) is no step.

What a closure does between two natives is the business of `GlvmFrames`; here a
running task may open and close a file, assign a global, call a native, return,
or do nothing for ever. `ready` and `sleep` change nothing and are left out.
`crashed` is the end of the process by the Go runtime.

### AsyncChannel: one channel

`AsyncChannel.tla` is `Send`, `Recv` and `Close`, with the natives over them, for
one channel and the tasks that know its handle. `Send` is two steps, because the
code looks at `closed` under the mutex and sends after giving it up. A timed
operation is a `select` with a timer, which may choose the timer even when the
other case is ready. The Go channel (marked external in the map) is modelled by
the language's rules: direct hand-over to a waiting receiver, a waiting sender's
value moving up when room is made, panic of senders when it is closed. Values are
numbered by their sends, so losses, duplicates and reordering show.

`BoundedQueue.tla` is the promise: a first-in first-out queue of bounded length
that takes nothing once closed and loses nothing by closing.

### RegisterAllocator: registers of a function being compiled

`RegisterAllocator.tla` is the part of `compiler.go` that decides which register
holds what: `alloc`, `free`, the blocks of registers that `compileCall` and array
literals reserve, `compileBlock` with its scopes, and the registers that
`compileFuncExpr` moves captures to.

| State | Code |
|---|---|
| `locals`, `nextReg`, `freeRegs` | the fields of `funcCompiler` with these names |
| `calls` | the compile functions on the Go stack: what each has left to do, the registers in its Go variables (`slot`), its `dest`, and for a block or a bound name what it will restore |
| `failed` | `errors` of the compiler is not empty |

A compile function is written down as the list of the things it does to
registers in the order of the code (`ForInStmt`, `SwitchStmt`, `CallExpr`, ...); an
action does the first thing on the list of the innermost function. Which
statement or expression comes next is chosen each time, so every source text up
to the bounds is covered. What the emitted code computes is not part of the
model. A function with captures is compiled by a `funcCompiler` of its own, so
here only its list of captures matters. `Freed` is a recursive function, where a
selection from a sequence would do, because the prover can unfold it.

### CodeGen, Language, GlvmValues: what the code does

`CodeGen.tla` has the compiler's functions as operators from a `funcCompiler` to the
next one (`CompileExpr`, `CompileIf`, `CompileForIn`, `CompileSwitch`, `CompileTry`, ...),
which emit the instructions that the code emits, with its registers and its
distances; and the machine that runs them, one action per class of instruction.
`GlvmValues.tla` says what an instruction computes of its operands, errors included;
integers wrap at a small width. `Language.tla` is the other side: the value of an
expression and the effect of a statement on environments with block scopes, from
`docs/language.md`, without registers, jumps or handlers. The initial states are the
bodies of the instance, each compiled, and some of them packed as well. Calls and
closures are left out here: control of calls is `GlvmFrames`.

### From the text to the chunk

* `Lexer.tla` and `Parser.tla` are the scanner and the recursive descent, on texts made
  of atoms (a letter or word, a digit, a character of punctuation). Errors are
  counted as in the code. Positions are left out.
* `SourceText.tla` writes trees as texts in two styles; it has one table of precedences,
  where the parser has a chain of functions.
* `ModuleLoader.tla` is `compileUnit` with `resolve`, the default search paths, the
  numbering of functions, exports, and the aliases that `main` binds first. A disk is a
  function from paths to files.
* `Container.tla` is the chunk with its constants, the encoding byte by byte, the
  reader with its errors, the permutation and the padding of constants, and the
  executable with its trailer. Cipher and hash are external: a sealed text opens with
  its key only, and different bytes have different hashes. `StubHash` takes the first
  `HashedLength` bytes of the stub, as the code does.
* `Obfuscator.tla` is `expandProto`; what it draws at random is the parameter `plan`.
* `Sources.tla` makes the texts, a construct at a time, and the sets of files; `Formats.tla`
  makes the chunks, bytes, configurations and packages. `MCSequential` puts them beside
  the register allocator.

### The natives

* `ClashProxy.tla`: `clashStart` and `clashStop`, the accept loop and one handler per client.
  The loop is cut where it gives the mutex up, waits or looks: `LoopTop` reads listener
  and node under the mutex, `Accept` waits, `AcceptFails` and `LoopStill` look at what
  became of `running` and the listener, `Spawn` starts the handler. The handler goes
  through the handshake (a `bufio.Reader` that may hold more than the request), the
  dial, and the two copies of the relay. Start and its loop are named by the listener.
* `ClashWire.tla`: the choice and the fields of the node from the configuration (a
  value; YAML is external), the VLESS request, and the response taken off a stream of
  websocket messages.
* `HostHandles.tla`: four kinds of handles in the tables of the process and of each VM.
  A native is cut between looking a number up and using what it found.
* `ValueStore.tla`: blocks of cells, and values that are a part of a block, as Go slices
  are; `meant` is what each value would hold if nothing were shared. `mfill` and `mbytes`
  are one step per byte; `mfill` holds the lock and `mbytes` has given it up.
* `ByteOps.tla`: what the operations on bytes compute.
* `TensorTape.tla`: tensors with data and gradient, the tape, `backward` from its end.
  Elements are integers, so the derivative is exact. The reference is the derivative by
  tangents. `step_adam` moves the data by the gradient; its moments are left out. What a
  script starts with and passes (`Leaves`, `Shapes`, `Slices`, `Lookups`) are constants. `cat` can
  make a tensor whose data do not fit its shape, which the code does not test; the model
  makes it and no operation takes it.
* `Tokenizer.tla`: training, encoding and decoding of byte pairs.
* `Packages.tla`: wxapkg and asar read from bytes; the other programs that write
  them are external.

The modules of one group share no state of the program, so `MCServices`, `MCNatives` and
`MCSequential` let one of them move in each behaviour: a run of each is all runs of its
members, not their product.

## 3. What is checked

| Run | Instance | Shows |
|---|---|---|
| `frames_control` | 4 frames, 1 register, 3 handlers, no closures | `CallChain`: each waiting frame expects its result in the register in which it will come. `NoFrameReuse`: no frame that was taken apart runs again. `CatchOnce`, `NewestHandlerCatches`: errors. `SuspendedUntouched`: callbacks. `ImplementsCallStack`: refinement of `CallStack` |
| `frames_bounded` | 3 frames, 1 closure with 1 capture, 2 handlers, `MaxOps` 6 | `CapturesUntilReturn`: until a call of a closure has returned its captures are what was captured, whatever is abandoned. `WatchdogEnds`: with a limit, every run ends |
| `frames_captures` | 2 frames, 2 closures | violation, see section 6 |
| `natives` | main and 2 tasks, which open files, lists of up to 2 futures; 2 tensors and up to 2 more, up to 3 calls of `backward` and `step_adam` | `RegistryExact`, `FilesClosedWhenReady`, `ConsumedHandlesGone`; `GradientIsDerivative`: what `backward` adds is the derivative of the loss, also after a step of the parameters. `TapeIsFresh`: no entry is run twice |
| `tasks_waits` | main and 2 tasks, lists of 1 | `WaitEnds`, `ReturnedIsForgotten`: liveness |
| `channel` | 3 tasks, capacities 0 and 1, 2 sends | `AnswersTrue`, `NoIdleWait`, `ClosedIsFinal`, `ImplementsQueue`, and the liveness `ClosedEnds`, `TimedEnds` |
| `channel_panic` | 2 tasks, capacity 1, 2 sends | violation, see section 6 |
| `services` | proxy: 2 starts, 2 nodes (one over websocket), 1 client with 1 item of payload; handles: 2 tasks, 3 objects of 4 kinds; values: 2 tasks, 3 values in 3 blocks of up to 2 cells | `NodeOfItsListener`, `KeepsAccepting`, `ConnsCounted`, `NothingLost`, `StopEndsLoops`, `RelayFinishes`; `OwnObject`, `TablesExact`; `StorageMeans` |
| `codegen` | some nineteen thousand bodies, a part of them also packed | `CodeMeansBody`: the value or error is that of the body. `CodeEnds`: the code ends when the body does |
| `codegen_handlers`, `codegen_packed` | the same | violations, see section 6 |
| `sequential` | registers: 2 names, 5 registers, 1 argument, 1 capture, 3 levels; texts of 2 expressions around a leaf in 2 statements; programs of 4 files; the subjects of `Formats` | `NoSharing`: a register has one owner, a temporary of a construct in progress or a local of a scope that is or will be in force. `FreeAreFree`: a free register is listed once and is nobody's. `LinksRight`: the chunk is the program that the imports name; of two imports under one alias, the entry's own wins against the libraries below it. `ReadsBack`: what one part writes, another reads |

What `ReadsBack` says of each subject:

| Subject | Statement |
|---|---|
| texts | a program written from a tree, in either style, is parsed to that tree without errors |
| chunks | decoding an encoded chunk gives it back and no proper prefix decodes; packed, it opens behind its own stub and behind none whose hashed part was changed; a change beyond that part is not noticed |
| obfuscated code | with each choice of options, permutation and padding, the unfolding of every function (operations and constants along each branch) is the same |
| tokens | encoding the text that the rules were trained on ends where training ended, and any text comes back from its tokens |
| bytes | a number written at an offset is read there, its neighbours stay, slices read as their source does; swaps invert themselves; searches find |
| configuration | the node started is the first proxy, over tcp (`Documented`); beyond that document, the first that is wanted and can be carried, as comments in the code say (`FirstThatFits`); each field is from the first key that holds one |
| request, response | the server's reading of the request leaves the payload; the relay gets the data and nothing else, however messages are cut |
| packages | all files are unpacked under their names, or their own when names repeat, encrypted or not; archives list and read what lies in them; what is cut is an error |

The bounds and why they are enough to be interesting:

* Four frames hold a call inside a callback inside a call, with one frame to
  spare for a second call after one was dropped. Three handlers make the cases of
  two in one frame with one below, and of one in each of three frames, across a
  native. One register is enough for control; what a wrong register would do is
  `CallChain`, stated on `retReg`. The properties of `frames_control` do not
  read captured values, so that run has no closures.
* `MaxOps` 6 lets a program install both handlers, make a closure, call it, call a
  native and fail before the limit; the callbacks that the watchdog itself ends come
  after it. Three frames have a closure called from a callback and both abandoned by
  one error.
* Two tasks beside main make a child with a child of its own, two children of
  one parent, and two waiters for one future. Lists of two have a failing first
  element and a rest; `await_all` may be given one future twice. With lists of one
  the liveness run still has `parallel` and `await_all`.
* Capacity 0 is the rendezvous, 1 the buffer with both full and empty next to each
  other; three tasks make two waiters on one side and one on the other, or a
  closer beside a sender and a receiver. Two sends show order.
* Two starts make every meeting of an old accept loop or relay with a new start. The
  client has to be one of the first or of the second; its payload may be written
  before the reply, after it, or not at all.
* Three objects are one closed, one opened after it, and one beside both.
* Three values in blocks of two cells: a value, one that shares with it, and one
  that is written. Two tasks, since a lock matters to two.
* A matrix, a row that spreads over it, and two operations: every operation as the
  first and as the second, of leaves and of a result. `MaxSteps` bounds operations and
  runs together: two operations and two runs, or one and three, which is a backward, a
  step and a backward.
* `IntHalf` 8 makes integers of four bits, so sums and quotients wrap. `Fuel` 9 is more than
  the rounds that a loop of the bodies needs; a body that loops for ever is one whose
  meaning is lost, and it promises nothing. Bodies are every nesting of two compound
  statements around the leaves `break`, `continue`, `throw`, `return`, a failing operation
  and a count, in a loop or a try, and every expression of depth two over two locals.
* Five registers are what a `for` needs, which holds most. The code does not bound
  `nextReg`; the run does, below the number of bytes (`MaxNext`), because beyond it
  `NoSharing` promises nothing. `MaxDepth` bounds blocks and statements in each other,
  `MaxExpr` the same with the expressions in them. Arrays of two elements, switches of
  one case and maps of one entry have the allocation pattern that longer ones repeat.
* Texts: each construct inside each position of each other, on leaves that are hard to
  write (a word that looks like an exponent, strings with quotes, escapes and `$`).
* Files: four, so that there are circles, diamonds, one library under two aliases and
  one alias for two, in the entry, below it and beside it. Stubs: up to one byte more
  than is hashed, with each byte changed in turn. Search: the toolkit lies above its program, above the working
  directory or nowhere, with and without `GLTK_LIB`.
* Packages: names that repeat, that look like the replacement of a repeated one, that
  start with a slash, name a directory of another, or leave the directory.

Deadlock is not checked (`CHECK_DEADLOCK FALSE`): a program, a compilation and a text
end, and scripts may wait for each other for ever, which no document promises to detect.
Symmetry is used only in runs without liveness.

### Fairness

* `GlvmFrames!FairSpec`: `execute()` is a loop in one goroutine, so it is weakly
  fair. A Go function may call back any number of times (the GUI message loop);
  that it returns in the end is strong fairness of `NativeEnds`. Nothing in
  `vm.go` interrupts a native, so without that assumption no limit on
  instructions can end a run. No script is assumed to return: ending a loop is
  what the watchdog is for.
* `AsyncTasks!FairSpec`: the Go scheduler runs each goroutine that can run, so the
  steps that the Go code takes by itself (`Proceed`) are weakly fair for each
  task. What a script does is not fair: a task may run for ever.
* `AsyncChannel!FairSpec`: the same, and timers fire. A call without a timeout on
  an open channel may wait for ever.
* `ClashProxy!Fairness`: goroutines run, an `Accept` on a closed listener returns, and a
  peer that has been told the end of the other's data closes in its turn, as TCP
  programs do. That a client connects, writes or closes by itself is not assumed, nor
  that a handshake or a dial ends: the code sets no deadline on what it reads there.
* `CodeGen!Spec`: the machine takes its next instruction.

## 4. What is proved

Eight modules hold proofs. Every safety property and every refinement that a run checks
follows for every value of the constants, except the three named at the end of this
section. The constants are restricted by the named assumptions only: numbers are
numbers, values that stand for "nothing" are not among the rest, sets that are counted
are finite (`FramesAssumption`, `TasksAssumption`, `ChannelAssumption`,
`ServicesAssumption`, `RegisterAssumption`). A script may start with any tensors and any
shapes, slices and rows that are not empty, as long as the data fit the shapes (`TapeAssumption`).

| Module | Theorem | Statement |
|---|---|---|
| `GlvmFrames_proofs` | `TypeCorrect` | `Spec => []TypeOK` |
| | `HandlersCatchOnce` | `Spec => []CatchOnce` |
| `GlvmStack_proofs` | `FramesRunOnce` | `Spec => []NoFrameReuse` |
| | `ResultsGoHome` | `Spec => []CallChain` |
| | `CallbacksTouchNothing` | `Spec => SuspendedUntouched` |
| | `NewestCatches` | `Spec => NewestHandlerCatches` |
| | `CapturesLast` | `Spec => []CapturesUntilReturn` |
| | `FramesAreOneStack` | `Spec => ImplementsCallStack` |
| `Natives_proofs` | `TypeCorrect` | `Spec => []TypeOK` (of `AsyncTasks`, like the next three) |
| | `RegistriesExact` | `Spec => []RegistryExact` |
| | `FilesClosed` | `Spec => []FilesClosedWhenReady` |
| | `ConsumedGone` | `Spec => []ConsumedHandlesGone` |
| | `OperationsRunOnce` | `AllSpec => []TapeIsFresh` (of `MCNatives`, like the next) |
| | `BackwardDifferentiates` | `AllSpec => []GradientIsDerivative` |
| `AsyncChannel_proofs` | `TypeCorrect` | `Spec => []TypeOK` |
| | `SendsTellTheTruth` | `Spec => []AnswersTrue` |
| | `NobodyWaitsInVain` | `Spec => []NoIdleWait` |
| | `FirstInFirstOut` | `Spec => []Fifo` |
| | `ClosedForGood` | `Spec => ClosedIsFinal` |
| | `ChannelIsQueue` | `Spec => ImplementsQueue` |
| `HostHandles_proofs` | `NativesFindTheirObject` | `Spec => []OwnObject` |
| | `NothingLeaks` | `Spec => []TablesExact` |
| `ClashProxy_proofs` | `RightNode` | `Spec => []NodeOfItsListener` |
| | `LoopLives` | `Spec => []KeepsAccepting` |
| | `RelayLosesNothing` | `Spec => []NothingLost` |
| | `StatusCounts` | `Spec => []ConnsCounted` |
| `ValueStore_proofs` | `SharingShowsInNoValue` | `Spec => []StorageMeans` |
| | `TypeCorrect` | `Spec => []TypeOK` of all services, from `ProxyTypes`, `HandleTypes` and `StoreTypes` |
| | `NumbersReadBack` | for all bytes, offsets and numbers: `NumberReadBack` of `ByteOps` |
| | `SwapsUndone` | for all bytes and sizes of groups: two `Swap`s change nothing, one turns each group around |
| `RegisterAllocator_proofs` | `TypeCorrect` | `Spec => []TypeOK` |
| | `RegistersHaveOneOwner` | `Spec => []NoSharing` |
| | `FreeListIsSound` | `Spec => []FreeAreFree` |

The `Spec` of the modules `HostHandles_proofs`, `ClashProxy_proofs` and `ValueStore_proofs` is
that of `MCServices`, in which one of three independent services moves; that of `Natives_proofs`
is `AsyncTasks`' own but for the tape.

Few of the properties are inductive. What each argument adds:

* **Frames, types.** `Shape`: an activation has a frame while it is executing or in a
  native, the Go stack has one waiting `doCall` per saved slice and one more in a
  native. Without it `Last(frames)` and `Last(saved)` in `execute` and `CallClosure`
  might be of an empty sequence.
* **Frames, errors.** `CatchOnce` says nothing of installed handlers. `HandlersFresh`
  adds that they have caught nothing, that a stamp names one handler in one frame, and
  that stamps are handed out in order. Every operation on frames leaves a handler stack
  alone, shortens it from the top, or pushes one fresh stamp. `NewestCatches` needs
  `Sorted` besides: up all the stacks of all activations, handlers are ever newer.
* **Frames, calls.** `NoFrameReuse` and `CallChain` are proved together (`SInv`). Each step
  either only takes away from the top (`Falls`) and keeps what stays (`Kept`), or puts one
  new frame on top (`Grows`); two lemmas say that each shape keeps the invariant, and one
  lemma per action says which shape it has. `CapturesUntilReturn` is inductive
  with the types, since only a return clears captures and lists the closure.
* **Frames, refinement.** The one stack is what waits below (`Waiting`, a flattening of the
  saved slices, each ended by its native) followed by the running frames. One lemma per action maps it
  to a push, a pop, an unwinding or a stutter of `CallStack`.
* **Tasks.** Types need `OpShape`: a native about to take its next future has one.
  `FilesClosedWhenReady` follows from `FilesClosedWhenOver`: a released VM has no open
  file. `ConsumedHandlesGone` needs `PutsAreFresh` (until `putHandle` has run nobody knows the
  handle, and no two spawns hold the same one) and `UsesAreIssued` (natives work on
  handles that were issued): otherwise a late `putHandle` could bring a handle back.
* **Tape.** `Shaped` (tensors are a sequence with their fields) and `TapeWithin` (entries are
  tensors that exist); then what `backward` takes off cannot return.
* **Tape, derivatives.** `GradientIsDerivative` compares two runs over the tape: gradients go
  from its end to its start, a small change of one element from its start to its end.
  For each operation, what it sends back and what it passes on are adjoint: the gradient
  of its result times the change of its result is the sum, over its operands, of what
  it adds to their gradients times their changes (`EntryAdjoint`, one lemma per group of
  operations, which rest on exchanging, splitting and regrouping finite sums). So the sum
  over all tensors of gradient times change is the same whether an entry is run back
  on the gradients or run forward on the change (`PairKeeps`, by induction along the tape);
  at one end of the tape it is the gradient of the one element, at the other the
  change of the loss. All of that needs to know of every tensor, in every reachable state, what
  its entry remembers: `Recorded` (operands older than the result, with the shapes that the
  operation accepted and data that fitted them; as many elements in a gradient as in
  the tensor; leaves first; no entry twice on the tape). `step_adam` changes data and not
  what entries remember, and that is why it keeps `Recorded`.
* **Channel.** `SendsOpen`: each send in progress has a value that is its own and
  unanswered. `ParkedKinds`: only sends and receives wait. `Fifo`: what was accepted is
  what was received, then the buffer. `ToldIsEmpty`: after a receiver was told, nothing
  is left. Every step of the goroutines is one of four moves of the queue: `Put`, `Take`,
  `PutAndTake` (a rendezvous, or a waiting sender that moves up) and `CloseQueue`, or
  leaves it alone (`Unmoved`); the refinement is one case per move.
* **Handles.** `CountersExact` (a counter has counted the handles drawn from it),
  `NumbersDrawn` (no number twice, none above its counter), `TablesMean` (an entry is an
  object whose handle names this entry) and `OpsSound` (a native works for a handle that
  exists; a connection just accepted belongs to one task).
* **Proxy.** `Served`: the runtime names an open listener with its node, a loop that has
  looked at it holds both, an accepted client is in one loop's hands. `Measured`,
  `Prepared`, `Carried`: where each item that the client wrote is, at each step of the
  handshake and the relay. `Counted`: the counter is the size of `Relaying` less that of
  `Overstayed`, which makes `ConnsCounted` a statement about the cardinalities of two sets
  that every step changes by at most one element.
* **Values.** `Inside` (a value lies within its block), `Owned` (what is written in place has
  its block for itself), and for a buffer operation in progress `BusySound`.
* **Registers.** What a construct will free must be what it holds. `Plan(todo, H, p)` says
  that the rest of a construct is well formed from the variables `H` on to its end, where it
  holds nothing; it is proved for each construct's list and kept by each action.
  `Fits` is the ownership of registers by temporaries, names and the free list. It has to
  hold now and also, for each block in progress, for the scope, the empty free list and
  the `nextReg` that its end restores (`AllFit`). `BoundIn` and `Resumes` say
  the same of a name that a `for` or a `catch` has bound: it alone differs from the scope
  before, and means a register of its own, so that unbinding gives that
  register back to the construct.

* **Bytes.** A window is its source read from an offset on (`WindowShows`), a write is the
  patch where it lies and the old bytes or zeros beside it (`WrittenAt`). A swap reads each place
  from its mirror image in its group, and the mirror image of that is the place.

None of these proofs uses the fairness of a `Spec`.

Only model-checked, and why:

* Every liveness property (`WatchdogEnds`, `WaitEnds`, `ReturnedIsForgotten`, `ClosedEnds`,
  `TimedEnds`, `StopEndsLoops`, `RelayFinishes`, `CodeEnds`): fairness and ENABLED are beyond
  the prover.
* `CodeMeansBody`, `ReadsBack`, `LinksRight`: they say what RECURSIVE operators compute for
  every input (`Lexer`, `Parser`, `SourceText`, `CodeGen`, `Language`, `ModuleLoader`, `Tokenizer`,
  `Packages` and what writes or reads beside them). In a module that reaches such an
  operator the prover has no arithmetic, and no installed prover can use the
  library's induction over the trees and texts they take. (The inductions of `Natives_proofs` are over
  numbers only: a set of numbers that has 0 and with each number the next is `Nat`.)
* What the counterexamples of section 6 show: runs find them.

## 5. Abstractions to keep in mind

* The frame stack has no limit in the code; the model ends it with `FrameIds`. A
  frame that is dropped is free for reuse at once, as with a garbage collector
  that is always early, which is why `NoFrameReuse` is stated.
* `MaxOps = 0` is "no limit", and the counter is then not kept.
* `Drop` clears the abandoned frame's record so that equal states are equal; the
  code leaves the object to the collector as it is. The captures stay untouched,
  which is what matters.
* In `handleTry` the case of an error register that is out of range is left out:
  `OpTRY` has grown the frame to that register when it pushed the handler.
* After main has returned and been released, tasks run on in the model, as they do
  when a host embeds the VM; the command line ends the process instead.
* `StoreGlobal` says of the unlocked map what the Go runtime may make of it:
  nothing, or the end of the process. A torn copy is not modelled.
* The registers that `CodeGen` and `RegisterAllocator` hand out are the same ones by two
  translations of the same code; nothing connects the modules.
* Go's cipher, hash, JSON and YAML, AES and the network are external: they are modelled by
  what their callers rely on.
* `HashedLength` is 2 in `Container`, where the code hashes 2^20 bytes of a stub: a stub may
  have fewer, as many or more.
* `Block` is 4 in `Packages`, where the code opens 1024 bytes; nothing depends on the length
  but that the last byte of the block is not kept.

## 6. Disagreements between the code and what is said of it

Four runs are expected to fail. Each checks one sentence of the repository.

1. `frames_captures`, `CapturesPersist`. `docs/language.md:58` says that captures
   are copied when the closure is created. `releaseFrame` (`vm.go:202`) sets every
   element of the frame's capture slice to null, and the frame shares that slice
   with its closure: from its second call on the closure reads null.
   `CapturesUntilReturn` is the part of the sentence that does hold.
2. `channel_panic`, `NoPanic`. `async.go:44` calls a channel thread-safe. A send that
   has passed the check of `closed`, or that waits, panics when another task
   closes or drops the channel.
3. `codegen_handlers`, `HandlerIsNearest`. `vm.go:898` says that errors go to the nearest
   try handler. `break` and `continue` jump out of a try without `ENDTRY`
   (`compiler.go:409`), the handler stays, and a later error goes to it.
4. `codegen_packed`, `PackedMeansBody`. `obfus.go:192` says that relative jumps are
   rewritten. `TRY` holds a distance too and is not: in a packed function an error
   resumes at another instruction than the catch block.

`CodeMeansBody` leaves the bodies of 3 and 4 out, and a third kind: an assignment that
writes its target before its value is there (`a = b && a`, `m = {k: m}`; `compiler.go:956`).

Stated in a module, false, and not run:

* `CloneIsSafe` (`AsyncTasks`). The comment of `CloneForAsync` (`async.go:166`) says that clones
  run in parallel safely. The clone is made in the new goroutine from the parent's
  globals, without a lock, while the parent may execute `STOREG`.
* `CapturesHaveRoom` (`RegisterAllocator`). `compiler.go:830-831` says that the registers behind
  the destination of a closure are made available for its captures. `compileFuncExpr` only
  raises `nextReg` if they lie beyond it. In `let x = 1; let y = 2; x = fn() { return x }`
  the capture of `x` is moved over `y`.
* `RegistersFit` (`RegisterAllocator`). `compiler.go:274` wants headroom below 255. `compileCall`
  raises `nextReg` at every call without that check and cuts the number to a byte, so a
  block of 256 calls comes back to the registers of its locals. `NoSharing` is what holds
  below that point.

Where a document or a comment says one thing, and the code with other comments another, the
properties say which they follow, or say nothing:

* `docs/CLASH_VLESS.md:14` denies websockets, and line 16 says that only `proxies[0]` is used. The
  comments at `clash_vless.go:26` and 253 and the message at 281 have websockets,
  `proxy-index`, `proxy-name` and the first proxy that can be carried, and so does the
  code. `ConfigRead` names the two cases: `Documented`, on which all agree, and
  `FirstThatFits`, which the document contradicts.
* `docs/language.md:38-43` and the comment above `DefaultSearchPaths` have the working directory
  last; `resolve` tries it second, as the comment inside it says. `FoundInOrder` says that
  a library which lies only there is found, and nothing of its turn.
* The comment at `loader.go:233` says of two imports under one alias "(entry wins)". The one
  met last wins: an entry that imports `a` and then a library which imports another file
  as `a` gets that other file. `LinksRight` says that the entry's import wins unless one
  that is met later takes the alias over (`NotTakenOver`); without that condition TLC
  finds the three files. In a library, an alias may mean another file than the one it
  was compiled against, and `LinksRight` leaves that out (`Ambiguous`).

Seen while modelling, and left out of the properties as their comments say:

* `bin.slice` and `BSLICE` with an end below 0 panic in Go instead of failing.
* `mbytes` and `mget` read a buffer after they have given the lock up: a copy may mix the bytes
  before and after a fill.
* A flat configuration uses the node's `port` as the local port as well.
* A client that sends payload before it has the reply of the proxy loses what the
  handshake's reader had already taken (`NothingLost` leaves `early` out).
* Element-wise operations of one tensor with itself, or with one that spreads along other than
  leading dimensions, give gradients that are not the derivative (`Plain`), and so does a look-up
  from the end.
* The moments of `step_adam` are kept under the address of a map for ever.
* wxapkg: equal names are told apart before the leading slash is removed, so `/a` and `a` are one
  file; an index cut in the last offset and size unpacks an empty file without an error.

Not a disagreement, but worth knowing: `await_all` and `parallel` return at the
first error. The handles behind it stay in the table until they are dropped, and the
tasks run on; `RegistryExact` and `ReturnedIsForgotten` hold nevertheless.

## 7. Plan, and what is not modelled

Modelled: everything of the inventory with a module. Proved: every safety property and refinement
of the models whose state changes by steps, but for `CodeMeansBody` (section 4). Of the
pure parts, what `ByteOps` says of numbers, slices and swaps needs no recursion and is proved;
that a search finds the first place and that a checksum adds up is checked. `Container`
and `ClashWire` are recursive and stay with TLC.

What could still be modelled: calls and closures in `CodeGen`, so that captures and the code of
calls are compared with the language too; floats in `GlvmValues`.

Not modelled, and why:

* Mutexes and wait groups of scripts are the Go primitives behind a handle; the code adds nothing
  to them that could be wrong.
* Readers of PE, ELF, .NET, Lua, Python, zip and the scanners are sequential functions of one
  file each, with no second part of the program that writes or reads the same thing.
* Softmax, cross entropy, attention and the other operations on real numbers: TLC has none.
* The message loops and widgets of the GUI belong to the operating system and to the vendored
  toolkit; what they do to the machine is `CallClosure`.
* The command line, script guard and toolkit handle arguments and text.
