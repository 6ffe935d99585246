# Tersun in TLA+

Tersun (also called Setun or STN in its sources) is a programming language in
C++: a compiler from `.stn` text to bytecode, LLVM IR or quantum bytecode, a
stack VM with a garbage collector and a two-tier x64 JIT, and a small
concurrent runtime. All paths below are under `src/Compiler/Code/`. This
directory holds TLA+ models of the parts whose correctness depends on the order
of many steps, the TLC configurations that check them, and TLAPS proofs.

## 1. The system

| Component | State it keeps | Operations | Interacts with | What makes it correct |
|---|---|---|---|---|
| Lock-free rings, `include/runtime/lockfree_queue.hpp` | cells, atomic cursors, a sequence number per cell, cached cursors | `push`, `pop` | scheduler, mailboxes | no data race on a cell, no loss, no duplicate, order |
| Task scheduler, `async_scheduler.hpp` | three queues, `running_`, `active_tasks_`, worker threads | `spawn`, `worker_loop`, `wait_all`, `stop` | rings, task bodies that call `spawn` | counter exact, `wait_all`/`stop` cover what they should, every task runs |
| Actors, `actor_system.hpp` | a mailbox per actor, `running_actors_` | `send`, `process_one`, `schedule_actor`, `wait_all` | rings, scheduler, handlers that send | no lost wake-up, every message handled |
| Garbage collector, `vm/gc_*` | headers with colour and flags, regions, free lists, worklist, threshold | `allocate`, `collect_garbage`, `recycle_small`, write barrier, handles | VM stack, locals, globals, JIT frames | a reachable object is never recycled, a dead one eventually is |
| VM, `vm/vm.cpp`, `fixed_frame_arena.hpp` | call frames, locals, operand stack, try frames | call, return, try, throw, closures, four interpreter loops | GC safepoints, JIT, emitter | frames, locals and operands are balanced on every path, unwinding included |
| Top-of-stack cache, `vm/tos_cache.hpp` | two slots and a depth in front of the stack | push, pop, flush, materialise | VM, GC roots | behaves as the plain stack |
| JIT tiering, `vm/jit_manager.cpp`, `jit_deopt.cpp`, `inline_cache.hpp`, `type_feedback.hpp` | per-function tier, counters, native entry, code objects | compile, OSR, deoptimise, invalidate | VM calls and loops | a call or a loop enters its own code, no retired code is entered |
| JIT code generation, `machine_ir`, `mir_optimizer`, `linear_scan`, `x64_assembler` | per compilation | passes | JIT tiering | semantics of the bytecode |
| Front end, `compiler/lexer`, `parser`, `type_checker`, ... | tokens, trees | one pass after another | optimiser, emitter | the tree is the program's |
| Optimiser and IR, `tree_canonicalize`, `tree_optimizer`, `opt_ir`, `cfg`, `ir_optimizer`, `ir_to_bytecode` | tree; IR; a graph per function; code | rewriting rounds, lowering, passes, flattening, emission | emitter's chunk format, VM | no stage changes what the program prints |
| Translation to optimised bytecode, `opt_bytecode.hpp`, `superinstruction.cpp` | translated code, relocation table, cache sites, frame sizes | fuse, relocate, check frames | `run_optimized` | the translation does what the original does |
| Back ends, `emitter`, `llvm_emitter`, `q_emitter` | output text or bytes | one traversal | VM, LLVM, QVM | semantics of the program |
| Ternary arithmetic `tafpu/`, QVM `qvm/` | values, registers, amplitudes | arithmetic, gates | VM | agreement with the mathematics |
| Microkernel, `kernel/` | pages, tasks, tick quotas | map, check access, spawn, tick | nothing in the tree | permissions, fair shares |
| Graphics, game, FFI, Verilog, tools, `main.cpp`, `stdtaf/` | I/O | I/O | users | not a protocol |

The program is a pipeline (lexer, parser, type checker, tree passes, IR passes,
emission) that ends in one of three executors. The compiler is sequential,
but its passes rewrite each other's output, and a step of one is only right if
the invariants of the others still hold. The hard behaviours are:

* **concurrency**: producers and consumers of the rings stopped at any
  instruction; workers, clients and task bodies of the scheduler; handlers that
  send while `wait_all` polls two counters;
* **reentrancy and staleness in the VM**: a collection at any allocation, a
  compile in the middle of a loop whose caller holds a pointer to the old code,
  an exception that unwinds through frames another loop pushed;
* **code that rewrites code**: fusing instructions that a jump enters in the
  middle, quickening an instruction and taking it back, an inline cache filled
  for one class and used for another, a block merged away from under a fall
  through, a register renamed across a use;
* **limits**: a full ring, a full mailbox, a region with no room, a call depth
  of 2048.

Nothing is persisted and there is no network, so there are no crash-recovery or
message-loss behaviours.

## 2. Modules

```
BoundedFIFO          abstract bounded queue
LockFreeQueue        the cells both rings have
SPSCQueue            implements BoundedFIFO         RingProofs
MPMCQueue            implements BoundedFIFO         RingProofs
TriPriorityScheduler the task pool, over rings      TriPrioritySchedulerProofs
ActorSystem          mailboxes over the task pool       ActorSystemProofs
ManagedHeap          abstract garbage-collected heap
GCHeap               implements ManagedHeap         GCHeapProofs
TersunVM             the interpreter                TersunVMProofs
BytecodeEmitter      syntax trees to its bytecode
SourceSemantics      what a syntax tree means
CompiledProgram      the three composed: TersunVM runs what BytecodeEmitter
                     made and is compared with SourceSemantics
Bytecode             canonical instructions as bytes, and what they do
OptBytecodeOptimizer their translation to fused, relocated instructions
TosCache             the operand stack with two registers on top
                                                    OptimizerProofs
OptimizedVM          run_optimized over translated code: registers, inline
                     caches, quickening, deoptimisation
                                                    OptimizerProofs,
                                                    CanonicalCodeProofs
JITTiering           which native code a call or a back edge is sent to
                                                    JITTieringProofs
TreeOptimizer        the passes over the tree
IR, IRBuilder        the intermediate representation, and lowering to it
ControlFlowGraph     its graphs
IROptimizer          the passes over them           OptimizerProofs
IRToBytecode         graphs to bytecode
IRSemantics          what a module of the IR means
CompilerPipeline     all of the compiler composed with TersunVM and compared
                     with SourceSemantics after every stage
MC<module>           constants of <module> for TLC
```

The right column names the module that holds the proofs; `OptimizerProofs` is
one module with three parts, for `IROptimizer`, `TosCache` and `OptimizedVM`, and
`CanonicalCodeProofs` goes on from the last.

### SPSCQueue and MPMCQueue (`lockfree_queue.hpp`)

Every atomic load, store and compare-exchange is a step of its own, and so is
every access to the plain `data` of a cell, so that two threads *in* a cell at
once is a state. `SPSCQueue` has the two cursors, the private stale copy each
side keeps of the other's cursor, and the reload that happens only when the copy
says "full" or "empty". `MPMCQueue` is Vyukov's ring: a thread keeps its
position across the sequence load, the exchange, the access to the data and the
store that hands the cell to the next half lap. Positions are unbounded
naturals where the code has `size_t`; a wrap needs 2^64 pushes. The signed
difference `diff` is modelled as the comparison it decides. `size()`, a
statistic, is left out. `RingProofs` is about both at once, so the names of the
smaller model begin with `SPSC` or say which side a step belongs to.

The memory orders in the code (acquire loads, release stores around the data)
make the data accesses ordered as the model's interleaving has them.
`BoundedFIFO` is what both promise: an item enters at the linearisation point
of `push` (the claim) and leaves at that of `pop`, in order and at most
`Capacity` at a time. Answers of "full" and "empty" are not part of it: `pop` of
the MPMC ring may say "empty" while a later position is already published.

### TriPriorityScheduler (`async_scheduler.hpp`)

A thread in `spawn` raises `active_tasks_`, claims a position of its queue
(spinning while it is full) and publishes it: the ring is used at the grain
`MPMCQueue` justifies, including "empty" at an unpublished position. A worker
tests `running_` and `active_tasks_` in two steps, polls the three queues in
order (the high core does not poll LOW), runs the body and lowers the counter. A
body may spawn. `promised` is a history variable: what a `wait_all()` or
`stop()` covers, extended by the children spawned while it waits. The
`pending_*` counters and identifiers are statistics and are left out.

### ActorSystem (`actor_system.hpp`)

`send` (claim, then publish) and `schedule_actor` (count, then spawn) by a
client or from inside a handler, the drain task a worker runs, and the two
successive polls of `wait_all`. The pool is taken as `TriPriorityScheduler`
shows it: a spawned task is counted, run once, and counted off after its body.
The registry is written and never read, and is left out.

### GCHeap (`vm/gc_heap`, `gc_engine`, `gc_roots`)

A small object is a slot: carved from a region (`AllocateBump`), recycled by the
sweep (`SweepDead`) onto the free list of its size class, taken from there again
(`AllocateFromList`). A large object comes from the arena and is in no list. The
program stops during a collection, and tracing one object and sweeping one slot
are steps, so the invariants are seen half way. The mutator is any caller: it
holds roots (operand stack, locals, globals, JIT frames and native handles are
one set) and reads or writes references only through what it holds. The colours,
`GC_FLAG_FREE`, the grey worklist, `bytes_live_` and the threshold are kept as
they are; payloads, ages and the padding of sizes are not.

`ManagedHeap` is what a collected heap promises: a collection removes exactly the
objects no chain of references from a root reaches. The refinement mapping takes
a collection to happen at `MarkEnd`, and calls a white slot the sweep has not come
to as good as gone. `Immortal` is the one concession to the code: a large object
is never removed.

### TersunVM (`vm/vm.cpp`, `fixed_frame_arena.hpp`)

An action is one instruction. The variables are the members of `VM`: `stack_`
(`operands`), `locals_` (its size, and the cells that were written),
`local_top_`, `call_stack_`, `try_stack_`, `globals_`. `mode` chooses between
the two families of loops, which differ where it matters: `run_optimized`
inlines calls outside every `try` of C++, moves `local_top_` above a store that
lies outside the frame, and restores `local_top_` when it catches; the portable
loops do none of the three. `Raise` is the whole landing: handler popped,
operands, frames and locals cut, message pushed. `Enter` is the whole call, the
growth of `locals_` and the limit of the arena included, in the order of the
code. Fast frames are on and the compiled tiers off. Of the families of
operators there is a sample; objects, arrays, strings and methods are left out.
A native that reads the outside world (`setun2d_is_running`) is an `Input`.

### BytecodeEmitter, SourceSemantics, CompiledProgram (`compiler/emitter.cpp`)

The emitter's members are the fields of a record that each emit operator takes
and returns; jumps are written with a placeholder and patched as in the code.
Addresses count instructions, not bytes. `bodies` is a history field: which
`OP_TRY` a `Throw` is lexically inside of. What a lambda captures is given with
the tree (`uses`); the walk that computes it is left out.

`SourceSemantics` is not a model of code but the reference: an interpreter of
trees with scopes, a store and structured outcomes, without slots, jumps, frames
or handlers. `CompiledProgram` says that a run of the VM over the emitted code
shows what the reference computes, and (`CodeBracketed`) that each chunk's
instructions can be labelled with the try blocks open there, computed by walking
the chunk: the condition the proofs about the interpreter start from. The programs are built by `MCCompiledProgram`:
three constructs nested around a statement that may leave them, with output
before and after each, so that any wrong landing, slot or operand shows.

### Bytecode, OptBytecodeOptimizer, TosCache, OptimizedVM (`opcode.hpp`, `superinstruction.cpp`, `opt_bytecode.hpp`, `vm.cpp`)

Here code is bytes, because what can go wrong is about offsets: an instruction
fused across the target of a jump, a relocation table that misses an entry, a
distance that no longer fits. `Bytecode` is the machine without any rewriting
(what `OptFlags::baseline_v3()` runs). `OptBytecodeOptimizer` is the translation
with every flag on: the patterns of `superinstruction.cpp`, the cache sites, the
targets and function entries relocated, frame sizes inferred where the chunk
has none. `OptimizedVM` runs the translated code, one instruction to an action.
Its variables are the code, which it rewrites (`warmup` counts towards
quickening; an operand of another kind turns an instruction back), the inline
caches, and the machine with its operand stack held as a `TosCache`: memory and
at most two registers. Handlers differ in whether they spill first, and a raise
and a call spill; all of that is in the actions.

`StepsAsCanonical` is the refinement: the canonical machine of `Bytecode` is
carried along in the mapping, and every step of the optimised machine is the
canonical instructions it was made from. `Departs` names the three states in
which that is not so (section 5); no program of the run reaches one. Objects have their fields in a shape;
texts and doubles are left out, and an integer past `MaxImmediate` stands for
one that is boxed.

`run_optimized` checks nothing it runs: a slot beyond its frame is read all the
same, and the head of a function trusts the frame size the translation gave it.
`Verified` says of a translated chunk what a bytecode verifier would: its
instructions can be labelled with the operands on the stack, the local slots
there is room for and the try blocks open there, the labels agree along every
edge, slots lie in the room, operands name strings, functions and sites that
exist. It is what the proofs about `OptimizedVM` start from, for code of any
origin. `Faithful` says in the same way that each instruction has the operands of
the canonical ones at its origin, and that both go on at the same places; the
translation cannot promise it, since its scans may take an operand for an opcode.
`MCOptimizedVM` *assumes* both of every program it runs
(`ProgramsVerified`, with the labels computed by `Labelling`), so TLC evaluates
them before the run.

The classes of `tos_cache.cpp` and `vm_execution_state.cpp`,
which describe the same cache and which no loop uses, are left out.

### The default compiler (`tree_*.cpp`, `opt_ir.cpp`, `cfg.cpp`, `ir_optimizer.cpp`, `ir_to_bytecode.cpp`)

`CompilerPipeline` follows `main.cpp`: canonical form, rounds of the tree
optimiser, lowering, the graph passes, emission, and a run by `TersunVM` in
either family of loops. One action is one stage (`Canonicalize`, `Simplify`,
`Lower`, `EmitTop`, `EmitFunction`, `Load` or `Refuse`, an unresolved label) or
one step of the optimiser, which is fine-grained: `IROptimizer` has an action
per pass, per merge of two blocks and per sweep of the reachability search, so
the graph between two passes is a state. Edges are kept twice, as in the code.
`meant` is a history variable: what the source means, computed once.
`IRSemantics` runs the *graph*, following its edges; where the code of a block
lies matters only when the graph is flattened.

Differences in grain: `local_cse` runs on all blocks before `copy_propagate`
does, where the code alternates block by block (neither looks outside its
block). The loop detection and the induction tags only set hints that nothing
reads, and are left out. In `TreeOptimizer` the operators `min` and `max` are
`&&` and `||`, as the emitter writes them. `DivideByZero` of `TersunVM` is what
the division raises, which `run_optimized` throws as a C++ exception outside
every handler of the program. A `Folded` constant never arises in the graph
passes for the programs here: the builder loads every literal into a register
and propagation is of registers.

### JITTiering (`jit_manager.cpp`, `runtime_metadata.cpp`, `inline_cache.hpp`, `vm.cpp`, `main.cpp`)

`cache` is `code_cache_`, code objects by bytecode address; `hot` and `lhot` are
the two slot tables; `view` is what the VM keeps of the first, its size for the
mask and whether its pointer still points at it; `ic` and `mega` are the method
call sites. A program is where its functions and loops lie, before and after the
translation to optimised bytecode, and which loops each compiler gives an entry.
`PreArm` compiles a function before the run, `Bind` is `set_jit_manager` and the
head of the run loop; a call or a back edge either enters native code
(`CallNative`, `InvokeNative`, `BackEdgeNative`) or is interpreted, counts, and
when its slot is hot runs the whole coordinator in the same step (`PromoteCall`,
`PromoteLoop`): baseline first, then the optimising compiler, which writes two
slots. An address of code is a record of the object, whose code it is and where
it enters; `entered` records the last one used and what it was used for.

The code promises nothing about which programs this works for. `WellPlaced` says
which: the functions' addresses lie between their number and the size of the
table, no loops share low bits, and no unit whose address is kept anywhere is
built twice. Under it the two invariants hold. Programs of ordinary size are
often outside it: `jit_slot_aliasing` is one with the sizes of the code, and a
hot loop at top level that the baseline compiler refuses puts the top level's
code in the slot of function 0.

## 3. What TLC checks

| Run | Shows | Bounds |
|---|---|---|
| `spsc_ring` | races, refinement of `BoundedFIFO` (order and loss included), delivery | 2 cells, enough pushes for two laps |
| `mpmc_ring` | cell ownership, the inductive invariant (capacity and order included), half-lap handover, refinement, delivery | 2 threads that both push and pop, 2 cells, 4 pushes: every cell goes through two laps while a delayed thread keeps an old position |
| `scheduler` | `wait_all`, `stop`, the inductive invariant (the counter included), every task runs, the calls return | 2 workers (one the high core), 2 clients, a HIGH task that spawns a LOW one |
| `actors` | wake-ups, what `wait_all` waits for, every message handled | 1 client, 2 workers, 2 actors, 5 messages, mailboxes of 2 |
| `gc_heap` | no use after free, exact free lists, exact `bytes_live_`, the inductive invariant, refinement of `ManagedHeap`, a collection ends | 3 slots, 2 size classes, 1 large object without references, 1 reference per object: chains, cycles and every order of sweep and reuse |
| `compiled_program` | a program prints, asks and fails as its source does; the emitted code brackets its try blocks, frames never overlap, handlers belong to live frames, a throw lands in the innermost enclosing catch, every program ends | 774 programs, 3 constructs deep, in both modes; 3 free inputs, then zeros; call depth 6 |
| `gc_large_objects` | **violated**: a large object with references is traced once only | 2 slots, 1 large object with references |
| `optimized_vm` | every step of the translated code is the canonical steps it replaces; caches name the right slot; a frame holds every slot its code uses and the frames lie end to end in `locals_`; every program ends | 483 programs of two statements in a loop of 4 passes, over objects of two classes, calls, a `try`, a three-way branch and integers at the limit; quickening after 2 executions instead of 8, boxing above 6 instead of 2^47 - 1 |
| `compiler_pipeline` | the tree passes, every graph pass and the emitted bytecode keep what the program prints and whether it fails; both edge lists agree; every program is compiled and ends | 72 programs (8 shapes of control flow around 9 fragments, called with every pair of arguments 0 and 1) and one the compiler refuses; 8 rounds, as in the code; call depth 6 |
| `ir_merge_falls_through` | **violated**: a merged block no longer reaches what it fell through to | 1 program |
| `jit_tiering` | calls, method calls and back edges that go on in native code enter the code they mean, in a buffer that still exists | every program of a family that `WellPlaced` admits: 2 functions, 2 loops (also at top level), 3 ways of setting the JIT up, 7 placements, every combination of loop entries given by each compiler; slots 32, loop slots 16, hot after 2, call sites of 2 receivers met by 3 |
| `jit_slot_aliasing` | **violated**: a function beyond byte 128 makes the mask wrong | 1 program, all sizes as in the code |

Two laps are enough for the rings because a cell's state is the difference of
its sequence number and a position, and a thread can be at most one lap late
before its exchange fails; two workers because one of them must be the high
core and the protocol is symmetric in the others. The theorems below remove
these bounds for safety.

Three levels of nesting are what the emitter's counters need: an outer construct
to be disturbed, an inner one to be left, and one between them. Three free
inputs let every loop be entered, left normally and left early. A call depth of
6 is met by the programs that recurse without end. `MCPrograms` leaves out what
the emitter gets wrong (a jump that stays inside an enclosing `try`, section 5), throws through so many frames that the portable loops lose an argument
(section 5), and lambdas whose `return` is inside a
`try` of the enclosing function. `MeansWhatItSays` does not speak of runs that
end as `escaped`: `run_optimized` raises the call-depth exception where no handler
of the program can see it, which no document excludes.

For the JIT, two functions and two loops are what one needs to be taken for
another; the family contains programs that break each conjunct of `WellPlaced`,
and TLC finds a violation when any of them is dropped: an address that is
another function's index, an address beyond the table, code kept under an
address that is another function's after translation, loops with the same low
bits, a loop at top level that the baseline compiler gives up on, a function
built twice while something keeps its address. Penalties of 1 and thresholds of 2
make the second attempt follow the first.

Two statements in a loop of four passes let an instruction warm up, be
quickened by the first statement's values, meet another kind of value from the
second and be turned back; with two classes whose fields lie in different slots,
every cache site sees the wrong class once. The limits 2 and 6 put these events
within the four passes and change nothing else. The chunks carry no frame sizes
in one of the openings (`far = x`), as one read from a file, so that the
inference is used. For the compiler, a fragment repeated after the shape gives
each pass something to find across blocks, and the 8 shapes have every kind of
edge: joins, back edges, exits from the middle, nested loops, unreachable ends.

**Fairness.** The interpreters are one loop on one thread: it goes on while the
program runs, and `Terminates` rests on that alone. The compiler likewise is one
thread; the second conjunct of `CompilerSpec`'s fairness is weak fairness of
`Compile` written out, because that action is enabled until the program runs and
TLC evaluates it much faster so. For the concurrent parts:
weak fairness of a thread that is *inside* the library: an
operating system keeps scheduling a runnable thread, and every loop of the code
spins without locks. No client is obliged to call anything, and task bodies and
handlers return. `wait_all()` returns unless the pool is stopped meanwhile, and
`stop()` unless somebody keeps spawning after it: both exceptions are in
`WaitersReturn`, because `spawn` does not look at `running_`.

**Deadlock** is not checked where the system may stop: all items moved, all
tasks done, a ring full with nobody to pop.

A collection is one call on the program's thread, so `CollectionEnds` assumes only
that the call keeps running.

Every property has a mutant in `PROJECT.json`: a faulty version of one action,
defined beside it and named `<Action>_<Bug>`, under which TLC finds that
property violated.

## 4. What is proved

`tlapm` checks, for every value of the constants:

| Theorem | Statement |
|---|---|
| `SPSCNoCellRace`, `SPSCOrder`, `SPSCInvariant`, `SPSCImplementsFIFO` | the SPSC ring never has both sides in one cell, pops the pushed items in order, and implements `BoundedFIFO` |
| `MPMCCellOwnedOnce`, `MPMCBounded`, `MPMCPopsWhatWasPushed`, `MPMCCellsTakeTurns`, `MPMCInvariant`, `MPMCImplementsFIFO` | the same for any set of threads on Vyukov's ring, from the assumption `TwoCells` (`Capacity >= 2`): with one cell, which the `static_assert` admits, `Bounded` does not hold |
| `SchedulerActiveCounts`, `SchedulerWaitAllSound`, `SchedulerStopDrains`, `SchedulerInvariant` | the pool, for any workers, clients, priorities and nesting of spawns |
| `ActorsNoLostWakeup`, `ActorsInvariant` | no mailbox with a message to pop is without a drain, and both counters are exact, for any actors, replies, clients, workers and mailbox capacity |
| `ActorsWaitAllSound` | the actors' `wait_all`, from the assumption `OneClient`; with a second client it returns early (section 5) |
| `VMTypeOK` | call frames, try frames and `local_top_` keep their types and the arena its limit, for any chunk with operands in range, balanced or not |
| `VMHandlersLive` | no handler outlives its function, from a condition on the code alone: its instructions can be labelled with the try blocks open there (`Bracketed`) |
| `VMThrowReachesEnclosingCatch` | a throw inside a try body finds that body's handler innermost, in the same activation, from `Bracketed` |
| `VMFramesApart`, `VMFramesApartInBracketedCode` | no two frames share a local variable, from `HandlersLive` or from `Bracketed`, and, for the portable loops, from `topSize <= InitialTop` |
| `GCNoDangling`, `GCImplementsHeap`, `GCFreeLists`, `GCInvariant` | the collector, for any number of slots, classes, large objects and references, from `~LargeTraced` (not needed by `GCFreeLists`), without which `gc_large_objects` refutes `GCNoDangling` |
| `GCLiveExact` | `bytes_live_` is the size of what is allocated, after any number of allocations and collections, for any sizes; no assumption |
| `PushIsPush`, `DiscardIsPop`, `OperandsAreTopTwo`, `ArgumentsLeaveTheStack` | each macro on the top-of-stack registers does to the whole stack what the plain operation does, wherever the values lie, for any values and any number of arguments |
| `VerifiedCodeFits` | in `run_optimized` the operands, frames, handlers and inline caches are at every instruction as its label says, from the assumption that the translation of each chunk can be verified (`Verified`) |
| `FramesLieEndToEnd`, `SlotsStayInFrames` | each frame starts where the one below it ends, `local_top_` is where the running one ends and a `catch` puts it back to the end of its own, and no instruction uses a slot beyond its frame; from the same assumption |
| `InlineCachesAgree` | what a cache remembers of a class is what a search of its objects or its table would find; from the same assumption |
| `StepsOfTheCanonicalCode` | every step of `run_optimized` is a run of the canonical bytecode it was made from (`StepsAsCanonical`), for any values, registers and contents of the caches; from `Verified` and `Faithful`, for executions that never meet a state of `Departs` |
| `JITEntersTheRightCode`, `JITNothingDangles`, `JITStaysSound` | a call, a method call or a back edge that goes on in native code enters the code it means, in a buffer that still exists, for any program that lies well (`WellPlaced`), any slot tables, thresholds and compilers |
| `EdgesArePaired` | predecessor and successor lists agree in every state of the graph optimiser, for every module and number of rounds |

Each argument about a protocol is an inductive invariant `IInv` of the component's
module, which TLC finds to hold on the small instances where its search allows.
For the SPSC ring it (`SPSCInv`) orders both cursors and both stale copies: a copy is behind the cursor it copies, so deciding from it errs on the
safe side. For the MPMC ring the property alone is not inductive: a thread about
to exchange knows nothing unless the sequence number of every cell is tied to
the positions in flight, so `IInv` says which positions can own a cell and that
each is held by one thread. The step that takes most of the proof is that two
positions of one cell within `Capacity` of each other are equal; the remainder
is introduced once by its defining property because the arithmetic solver does
not handle a symbolic modulus. In both refinements of `BoundedFIFO` the abstract
queue is read off the ring (`PublishedItems`: published and not yet moved out;
`Queued`: claimed and not yet claimed back), and each step is shown to be `Put`,
`Take`, a return of the item in hand, or invisible. For the scheduler `IInv` says that every task between `spawn`
and the decrement is in exactly one place, which makes `active_tasks_` a
cardinality; `wait_all` then follows because zero means the set is empty.
The set of tasks is assumed finite; nothing else is assumed about the pool.
For the actors `IInv` says what the two counters count (threads about to spawn,
drains that wait, workers in one), that a mailbox holds each claimed and not yet
received message once, and that a message half sent or half handled has a thread
at work on it. Zero on `running_actors_` then leaves nobody to drain, and no
message to pop by `NoLostWakeup`; `AtRest` says that this stays so until the one
client sends again, which is where a second client would break it.
For the collector `IInv` has one part per phase: during marking nothing black
refers to anything white and what is marked is reachable, so that at `MarkEnd`
marked and reachable coincide; during the sweep the kept objects are closed, and
the slots behind the sweep are white again, which is what the next marking needs
to start from. `Kept` does not change in any other collector step, which gives
the stuttering steps of the refinement.
`LiveExact` says that a counter is a sum over all slots, and sums are a recursive
function. The library's induction theorems cannot be instantiated, but that `<`
is well-founded gives induction on a *set* of numbers (`SetInduction`), which is
enough: such a function exists, is what the definition says, and sums of weights
that differ in one slot differ by the weights (`SumsDiffer`). The invariant
`BytesCounted` then is that the counter is what is allocated plus what the sweep
has found dead and not yet subtracted.

For the interpreter `FramesApart` is stated so that it is inductive by itself
given the types: over all pairs of frames, because "each above its neighbour"
leaves out the frame that a throw lands in, many below, and with what
each handler will restore, because the landing sets `local_top_` from it. The
one step that needs more is a call, when a handler has outlived its function: it
would restore a `local_top_` inside the new frame. `HandlersLive` excludes that.
It cannot be proved of arbitrary code, and what it asks of the code is a label on
each instruction: the `OP_TRY`s of its function's open blocks there, the same
whichever way control comes, none at entries and returns, and a throw inside the
last. The invariant has two parts. `Nested` is about numbers: each activation has
as many handlers as the label of the instruction it will go on at says, they lie
in the order of the activations and are counted within each, and a handler's
landing has the label that remains once it is taken off (`NestTry`, `NestLanding`,
`NestCall`, `NestReturn`). `Matched` adds which blocks they are: what is open at a
handler's catch is an initial part of what is open where its activation goes on,
and the next block after that part is the one whose `OP_TRY` installed it
(`OpenedBy`); in one activation later handlers belong to inner blocks (`Inwards`),
without which a landing could cut away the block of a handler it keeps. At a
throw in a try body `Nested` says that the last handler is the running
activation's and `OpenedBy` that it is the last block's. That the emitter's code
has such labels is `CodeBracketed`, which is model-checked.
Types need a second fact: a
closure carries its frame size through operands, locals, globals and the
captures of other closures, so `ValuesOK` says that everything stored lies in
some set closed under capture, and that a closure leads to a function's entry.

The register cache is two sequences laid end to end (`Contents`), and its
theorems are cases on how many values are in registers; the binary operators and
the calls are the ones where an operand can come from the memory and the other
from a register.

For `run_optimized` the property alone says nothing of a frame that is not on
top, and a slot is only as safe as the frame a call, a return or a landing gives
its instruction. `VMInv` ties the whole machine to a labelling `L`: every frame,
at the instruction it will go on at, has at least the room its label promises and
at least its label's operands above the frame below (`FramesOK`); the handlers
are those the labels list, frame by frame, and what lies on the stack under a
handler and not in its label never grows inwards (`TriesOK`), which is what a
landing needs to have its operands. Code is as translated but for quickened
instructions (`Quickened`), which have the same length, slots, operands and
successors, so `L` is a labelling of both and no instruction is seen from its
middle. `V` is whatever contains the values of the run; it lets operands be
sequences over a set without saying which integers arise. For the caches
`SitesOK` says that what a site remembers is the slot or the entry its object
has; objects only gain fields and never change class, so it stays true. There is
one lemma per instruction or group of alike ones, each split into what it does
to the registers (`Stacked`), to control and to the heap. `FramesAbut` is
inductive on top of `VMInv`, and `SlotsStayInFrames` needs both: a store moves
`local_top_` when its slot is past it, which no verified slot is as long as the
running frame ends there; a return or a landing cuts frames off, and no handler
that is left may count on one of those, which is what `VMInv` knows of the
handlers of each frame (`BlocksWithin`). That the hypothesis is
not empty is what TLC evaluates as `ProgramsVerified`.

`StepsOfTheCanonicalCode` is a simulation on top of that. Its invariant
(`Mirrors`) is `VMInv` with a code that is `Faithful`; at an instruction, `Here`
names the machine the state stands for (`Means`): the registers put back on the
stack (`Contents`), and every address, also those kept in frames and handlers,
replaced by where it comes from. A run of the canonical code is a function of the
number of instructions (`Path`, `Leads`), built one at a time; it is what the
recursive function `RunTo` finds, because nothing before its end is at the place
the loop goes on (`RunsThere`). One lemma per instruction then says where the run
leads: one instruction for most, up to sixteen for the header of a range, whose
values decide in which order its comparisons are needed (`Conditions`). What the
registers hold matters only in the lemmas on `Contents`; what a cache remembers
is right by `SitesOK`, so a hit finds the slot that the canonical search finds.
A sum or a comparison needs its operands to be numbers (`AsInt`), which
`ValuesOK` says of all that is stored. The
instructions that are left to the base loop's handlers do the same in both
codes up to addresses; for `throw` this needs the handlers of both machines to
be cut at the same length. The theorem needs two things `VerifiedCodeFits` does
not: the frames lie end to end (`FramesAbut`), or a store could move
`local_top_` in one machine only; and sites that share a method cache pass as
many arguments, which `Verified` asks for.

For the JIT, `IInv` says what every address that is kept is: the slot of a
function that is called, the slot of a loop and each entry of a call site are
empty or hold the code of just that function or loop, in the buffer of an object
that is in the cache (`SlotsRight`, `LoopsRight`, `SitesRight`). That an object
is not replaced under an address needs what the objects are (`ObjectsAtHome`):
one found at a unit's address was built for that unit, and has an entry for each
of its loops, or nobody keeps an address of it. `WellPlaced` gives both, and
that indices and addresses below the size of the table find different slots;
the hypothesis is on the first state only because the program does not change.
That a masked index is the index is a fact about powers of two (`BitsDetermine`),
proved by taking the smallest counterexample (`Smallest`).

For the graphs, `PairedInv` adds to `EdgesPaired` that a search for
unreachable blocks has seen the entry and only blocks of the graph, so that the
restriction to what it has seen keeps the pairing; a merge hands the successors
of the second block to the first in both lists, which is the longest part.

Not proved, only model-checked:

* liveness (`EverythingDelivered`, `PublishedIsDelivered`, `Terminates` and their like), which is outside the
  prover's reach;
* what whole programs mean: `MeansWhatItSays`, `TreeKeepsMeaning` and
  `PassesKeepMeaning` compare a run with a reference interpreter, and
  `CodeBracketed` speaks of code the emitter made.
  Emitter, translators and reference are recursive over syntax trees, and what a
  recursive definition computes for every tree needs induction over data. The
  theorems about `TersunVM` and `OptimizedVM` therefore start from a condition on
  the code (`Bracketed`, `Verified`, `Faithful`), which TLC evaluates for the programs;
* that what the translation makes of a chunk is `Verified` and `Faithful`: its
  scans are recursive over the bytes, and the second is not true of every chunk
  (section 5); TLC evaluates both for the programs;
* `EdgesPaired` as the pipeline's run names it, for `CompilerPipeline` reaches
  recursive operators; the property it names is `IROptimizer`'s, whose steps are
  the ones that change edges, and is proved there (`EdgesArePaired`);
* what the runs check with an expected violation.

## 5. What is not modelled, and what the models leave aside

See `components` in `PROJECT.json` for each part and its reason. In short:

* what the JIT's machine code does, which would need a model of the processor;
  `JITTiering` has only whose code is entered. The policies that no path from
  the interpreter reaches (promotion from tier 1 to tier 2, deoptimisation,
  cooldown) are left out: a slot with code is never promoted again, and no
  instruction that is emitted reports a deoptimisation;
* pure I/O (graphics, tools, command line), text generation (LLVM, Verilog),
  floating point and complex amplitudes (BitNet, QVM), representations without a
  protocol (tagged values, texts, arrays);
* the front end: programs enter the models as trees;
* the microkernel, which nothing in the tree uses.

Assumptions of the models: the callers' protocol of the SPSC ring (one producer,
one consumer); sequentially consistent interleaving of the atomics, which the
acquire and release orders give for the rings and which x86 gives for the
relaxed loads of the scheduler's loop condition; task bodies that do not throw
(one that does ends the process).

**Known disagreements that no run shows.** The programs of the passing runs
avoid them. Those marked (b) were seen on the built program.

* `wait_all` of the actors may return before the caller's own message is handled
  when another thread sends too (`actor_system.hpp:62`); one actor may be
  drained by two workers at once, where the curriculum (`GT/GIÁO TRÌNH HỆ THỐNG
  TERSUN ... VOL 2.md:7165`) says that `on_receive` is exclusive.
* A LOW task may wait for ever behind endless NORMAL ones; the aging that the
  same volume describes (line 6699) is not in the code.
* `emit_break_continue` removes the handler of every `try` open in the function,
  also of one that encloses the loop being left (`emitter.cpp:1053`): a later
  throw in that `try` is not caught, where volume 2 of the curriculum (line 496)
  sends it to the nearest enclosing `catch`. TLC finds
  `ThrowReachesEnclosingCatch` violated when `JumpsLeaveEveryTry` is taken out of
  `MCPrograms`.
* A backward jump of more than 32767 bytes is cut to 16 bits (`emitter.cpp:780`).
* `push()` of an MPMC ring with one cell, which the `static_assert` admits,
  overwrites an unread item (`lockfree_queue.hpp:96`).
* A throw through many frames in the portable loops does not restore
  `local_top_`; after enough of them the next call loses its argument.
* The scan that relocates operands takes 7 bytes for a field access of 3, so in
  `q = a.f; y = 97` the literal becomes 100; a condition of the exact form of a
  range loop's test is fused as one, whatever its variables.
* `run_optimized` ends the program where the canonical code goes on, or computes
  something else, in three cases, found in proving `StepsOfTheCanonicalCode`,
  whose hypothesis `Departs` excludes them: a range whose step is zero is an error
  to `OP_LOOP_RANGE_FAST` (`vm.cpp:2186`), where the comparisons it replaces leave
  the loop; a field that is not there is thrown as a C++ exception past the
  script's `catch` (`vm.cpp:2415`); and `c + a * b` with a text in `c` is
  computed as `a * b + c` (`vm.cpp:2799`).
* The default compiler: `branch3` is refused with "Unresolved branch3 label" (b);
  `try`, `catch` and `throw` leave no code (b); `&&`, `||`, `min`, `max`, `<=>`
  and `??` are lost (`opt_ir.cpp:683`, `ir_to_bytecode.cpp:655`) (b); `not e` becomes the negation of a
  trit (b); a local of an inner block overwrites the outer one of its name (b); a
  `const` folded in a block is still known after it (b); a top-level `let` reads
  as nil in a function (b); text `b + a` may be reordered to `a + b` (b);
  `p.x - p.y` is folded to 0 (b); each `print` leaves an operand behind; a
  division by zero inside a `try` is not caught in `run_optimized` (b).

## 6. What could come next

The model covers the parts named in section 2. What would add most after them:
classes and arrays through the whole compiler (`CompilerPipeline` has none of
them, `OptimizedVM` has objects), a model of what the compiled code promises,
and a proof that the translation keeps a chunk verifiable, which would put the
hypothesis of `VerifiedCodeFits` and `StepsOfTheCanonicalCode` on the canonical code.
