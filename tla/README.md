# wolf-sv-parser (wolvrix) in TLA+

wolvrix reads SystemVerilog, turns every module into a netlist graph (GRH), rewrites the graphs with
passes and writes them out again. This directory holds TLA+ models of its core, the TLC
configurations that check them on small instances, and TLAPS proofs of the central invariants for
instances of any size. Every definition is taken from the code; `PROJECT.json` maps each one to its
lines.

Run a check with `tlc -config MCGraphEdges.cfg MCGraphBuilder`, a proof with
`tlapm Graph_proofs.tla`.

## 1. The system

| Component | State it keeps | Operations | What makes it correct |
|---|---|---|---|
| Conversion driver (`lib/core/ingest.cpp`) | task queue, task counter `pending`, `cancel`, instance registry, plan cache | `convert`: collect tops, start workers, plan / lower / assemble each module, abort, wait, join | every module is converted once; the call ends in a complete design or in `ConvertAbort`; counter and queue agree |
| Graph assembler (same file) | names reserved per plan key, the design's graphs | `resolveGraphName`, `build` | names never collide, references name the graph that will exist |
| Diagnostics (`lib/core/diagnostics.cpp`) | shared messages, thread-local buffers, error flag, error callback | `add`, `flushThreadLocal`, `setOnError` | no error is lost, warnings come to the caller's flush, errors abort when asked to |
| Planner, memory ports (`ingest.cpp`) | artifacts of one module | one pass each | sequential; what they list of a module is complete |
| Statement lowerer, write-back (`ingest.cpp`) | guard and flow stacks, tracked values, recorded writes; groups and entries | walk the procedural blocks, fold the writes of a target, emit a wire, a latch or a register | the circuit does what the blocks do, statement by statement |
| GRH `GraphBuilder` (`lib/core/grh.cpp`) | values, operations, use lists, definitions, symbol index, ports, flags | add, insert, replace, erase, rename, bind, freeze | the redundant copies agree; nothing in use is erased |
| GRH `Graph` (same file) | builder or frozen view, list caches, declared symbols | the builder's, thawing first; reads; freeze | caches are never stale; freezing keeps the netlist |
| Design registry (same file) | graphs, aliases, tops, declared symbols, graph ids | create, delete, clone, alias, mark as top | every name resolves, ids are never reused, a clone is whole |
| Pass manager (`lib/core/transform.cpp`), Python bindings (`app/pybind`) | passes made so far, changed and failed flags | make every pass from name and arguments, run in order, stop on error; store and load | later passes do not run on a failed design; the flags tell the truth |
| simplify, const-fold, redundant-elim, dead-code-elim | worklists, pool of constants, copied use counts | rounds to a fixed point | outputs keep their values; nothing erased is referred to; the rounds end |
| slice-index-const, comb-loop-elim, latch-transparent-read, memory passes | one graph's analysis | local rewrites; false loops split by bit ranges; memories lowered or retimed | outputs keep their values in every cycle |
| hier-flatten, instance-inline, xmr-resolve, strip-debug, blackbox and multi-driver guards | maps from child values to parent values | edit several graphs of a design | the hierarchy shows the same; instances fit their modules |
| repcut (`lib/transform/repcut.cpp`) | cones, pieces, hyperedges, parts | cut a graph into parts by a partitioner's answer, rebuild it as instances | the parts together compute what the graph did |
| hrbcut, statistics | their own counts | partition, report | - |
| JSON store and load (`lib/core/store.cpp`, `load.cpp`) | none | design to document and back | what is stored loads, and is the same design |
| SystemVerilog emitter (`lib/emit`) | none | text out | - |
| RepCut Verilator package (`lib/emit/verilator_repcut_package.cpp`) | drivers and sinks of the top graph; in the generated class: members of the units, worker threads with their flags | emit; construct, `step`, destroy | every input has the driver the netlist gives it; a parallel step computes what a serial one does; the hand-shake always ends |

How they interact: a caller gives `ConvertDriver::convert` an elaborated slang tree. The caller's
thread enqueues the top modules, starts the workers and waits. A worker pops a key, plans the module
(which enqueues the modules it instantiates), lowers it and builds its graph through `Graph` calls,
each worker on its own graph; shared are the queue, the registry, the cache, the names, the design's
table of graphs and the diagnostics. An error diagnostic calls back into the conversion to abort it.
Passes then run one after the other on the design, editing graphs through the same `Graph` calls.

Hard behaviour, therefore: the interleavings of a conversion and of its abort (one counter changed
by three kinds of code without a lock, two condition variables); failure of a worker half-way; in
the graph, long sequences of legal edits that must keep five redundant copies in step; calls that
throw after they have changed something; and erasures that trust derived data. `PROJECT.json`
lists each hazard at its line with the properties that cover it, or why none does yet.

## 2. Modules

### Conversion

| Module | Models |
|---|---|
| `PlanTaskQueue` | `PlanTaskQueue`: `tryPush`, `waitPop`, `close`, `drain`, with the wait set of its condition variable |
| `PlanCache` | the plan keys (definition, body, parameters); `PlanCache`: `tryClaim`, `setLoweringPlan`, `setWriteBackPlan`, `storePlan` |
| `GraphAssembler` | `resolveGraphName` and `Design::createGraph` |
| `ConvertScheduler` | composes them: `enqueuePlanKey`, the worker loop, `processPlanKey`, `finishTask`, `AbortState::request`, `Diagnostics::add`, the main thread with `finalizeTopGraphs`, and the flush of its caller |
| `ConvertRun` | the promise: what a sequential conversion does |
| `MCConvertScheduler` | instances for TLC |
| `ConvertScheduler_proofs` | proofs |

A step of `ConvertScheduler` is one access to shared state: one atomic operation, or one body that
runs under a mutex. `pc[t]` says where thread t is; its names follow the code ("claim" is before
`tryClaim`, "reqDrain" inside `request()` before `drain`). What a thread does with data of its own
(planning, lowering, filling its graph) is one step, or one step per instance where it enqueues or
names something. `key[t]` and `next[t]` are the popped key and the instance looked at.

The buffers of `Diagnostics` are thread-local, so each thread has one. `runPlanQueueParallel` flushes the
main thread's after the join; `finalizeTopGraphs` runs after that, and the warnings it gives (a top without a
graph, an alias that another graph has) are still in the buffer when `convert` returns. Whoever calls `convert`
delivers them by a flush on the same thread, as the Python binding does after a return and after `ConvertAbort`
(`CallerFlush`, `wolvrix_native.cpp:973, 992`). The buffer is one per thread, not one per
`Diagnostics`: a caller that does not flush finds the warnings in its next conversion.

The atomics of the code are relaxed. Interleaving is still the right semantics: each decision reads
one atomic, read-modify-write operations on one atomic are totally ordered, and data handed from one
thread to another passes through a mutex or a join. Both condition variables may wake spuriously.
For `doneCv`, evaluating the predicate and starting to wait are two steps, because those who change
`pending` and notify do not take `doneMutex`; for the queue they are one, because those who change
it do. `cancel` is changed outside the queue's mutex, and `request()` always closes the queue
afterwards.

### Graphs

| Module | Models |
|---|---|
| `GraphBuilder` | the mutable netlist: every structural operation of `GraphBuilder` |
| `UseDefGraph` | what `docs/grh/grh-api.md` promises: a netlist without bookkeeping |
| `Graph` | `Graph`: frozen or mutable, caches, declared symbols, `freeze`, `fromView` |
| `MCGraphBuilder` | instances for TLC |
| `Graph_proofs` | proofs about builder and graph |

Variables carry the names of the fields. The two arrays are index ranges, `valueAlive` and `opAlive`
the entries whose `alive` is true. A use list is a bag of (operation, operand index): its order
decides nothing. A port list is a function from names to values: its order matters only to how far
`recomputePortFlags` gets before it throws, and there the model takes any subset. Attributes, kinds,
widths and source locations are left out. A call that throws before it changes anything is no step;
a call that throws after it has changed something is a step, when `PortCallsFail` allows such calls.

Three points a reader should know:
- `eraseOp(op, replacements)` is modelled for one result, which is what every caller passes.
- `eraseValueUnchecked` does not look at the use list. Its only caller is dead code elimination,
  which passes values nothing uses; the model takes this contract as a guard (`Unused(v)`).
  `eraseOpUnchecked` has no such contract and no such guard: it may leave users of its results.
- A graph starts frozen and empty. Every write of `Graph` calls `ensureBuilder()` first, so each write
  action carries `EnsureBuilder`; the calls that only thaw (capacity reservations, and writes that
  throw afterwards) are `Thaw`, which rebuilds definitions and use lists as `fromView` does.

`Graph` reuses the builder's variables for the frozen view: `Freeze` renumbers them as the code does,
each array, edge list, port list, symbol and flag by its own remapping. A cache whose dirty flag is
set is `Stale`: its contents are never read.

### Statement lowering and write-back

| Module | Models |
|---|---|
| `ProcBlock` | external: the expressions and statements the parser hands over, and an interpreter that runs them as the language says |
| `StatementLowering` | the statement lowerer: `visitStatement` and its cases, guards, tracked values, loops and breaks, `recordWrite` |
| `WriteBack` | the write-back pass: grouping, folding, wire or latch or register; what the assembler emits of an entry |
| `MCLowering` | families of small modules for TLC |

The walk of the lowerer is recursive in the code. In the model `agenda` is its call stack: the
pieces of work left, the next one first; each action takes one piece off and may put others in its
place. A node of the lowering plan is a term with an id, so that two terms are equal exactly when
the code has one node. The interpreter in `ProcBlock` is what the result is held against and no part
of the program.

Vectors have up to two bits, `int` has `IntWidth` = 4 bits instead of 32, the evaluator of constants works
on 8 bits instead of 64, and `MaxLoop` = 3 stands for the limit on unrolled iterations.
Not modelled: `while`, `do`, `forever` and `foreach` loops, `inside` and pattern matches, system
and DPI calls, unpacked, structured and signed types.

### Design registry

| Module | Models |
|---|---|
| `DesignRegistry` | `Design` and its symbol table: graphs, order, aliases, tops, declared symbols, ids; `clone` as a loop per list of the source, each round a call that may throw |
| `DesignRegistry_proofs` | proofs |

A graph's contents are a constant that can or cannot be cloned. `TopsByName` tells clients that mark
graphs by their own names from those that also use aliases. A finished clone may be adopted, so that
the invariants speak of designs that are copies of copies.

### Passes

| Module | Models |
|---|---|
| `Netlist` | a graph as the passes see it: operations, values, attributes, ports, declared symbols, and the calls they edit it by |
| `BitVec`, `OpSemantics` | four-state vectors as `slang::SVInt` computes them (external), and the evaluation that folding uses |
| `Observe` | what a design shows to its environment over some cycles: the yardstick, not code of a pass |
| `ConstFold`, `RedundantElim`, `DeadCodeElim` | the three passes of simplify |
| `SliceIndexConst`, `CombLoopElim`, `MemoryPasses` | the other passes on one graph |
| `Hierarchy`, `HierarchyGuards`, `XmrResolve`, `StripDebug` | the passes on a hierarchy |
| `RepCut` | repcut; the partitioner is external |
| `JsonDocument` | the document a design is stored in, and the loader |
| `PassArgs` | the arguments of every pass, as `makePass` reads them |
| `PassPipeline` | the pipeline: make, run, end, store, load; the actions |
| `MCPasses` | families of small designs, and the scenarios checked |
| `FoldRule` | induction over a fold, as a module to instantiate |
| `PassResults_proofs` | proofs about lists and, pass by pass, about results that report no change |
| `XmrResolve_proofs` | the same about xmr-resolve |
| `PassPipeline_proofs` | proofs about the pipeline |

A pass is sequential code over a design, so each is an operator from a design to `[d, changed, failed]`
with the code's order of rewrites inside it, and `PassPipeline` makes it a step: `RunPass` for a
pass on the whole design, `SimplifyGraph` for one inner pass of simplify on one graph. `repcut`
is a set of results, one for each answer the partitioner may give and one for its failure: it is
never assumed to answer well, only that it answers with a part for each node. Loops of the passes are folds or recursive
functions in the order the code visits; where a pass iterates an unordered table, the model visits by
id. Symbols are strings because passes build names from names (`top_repcut_part0`), and names collide.
Literals are bit sequences; their text is not modelled, with the exception that the integer reader of
comb-loop-elim refuses bits that are not known.

`Observe` runs the top graph for the cycles of a stimulus, elaborated through its instances, and
yields per cycle the outputs and the operands of calls and black boxes. A design after a pass must
show the same, except that an unknown bit may have become known (`RefinesTrace`).

### The generated simulator

| Module | Models |
|---|---|
| `SimulatorMemory` | `emitImpl`: the drivers of all slots, the refusals, the order of the functions of each phase; the members of the generated class, and what a load, eval or update function does to them (`Kept` is the loop that collects a list, by positions so that it can be proved about) |
| `StepPhases` | the promise: the functions of a phase in any order, each once, then the next phase |
| `PhaseWorkers` | the class with its threads: constructor, `step`, `run_phase_workers_`, `phase_worker_loop_`, destructor |
| `MCPhaseWorkers`, `PhaseWorkers_proofs` | top graphs for TLC, proofs |

The modelled program is the one the emitter writes, so a definition's lines are those that print
it. A slot is an input of a unit or an output port of the top, and holds a version: which driver it was
last filled from, and from which step or evaluation. That is all that a wrong order, a missed push or a
double evaluation can change. A region under a worker's mutex is one action; so is a predicate that
fails together with the wait, since the mutex is given up only by the wait. Functions of the
phases have a beginning and an end, because nothing but the hand-shake keeps two of them apart. What the
units compute, widths and word copies, and the timing statistics are left out; `std::thread` is
taken not to fail.

## 3. What is checked

| Run | Instance | Distinct states | Shows |
|---|---|---|---|
| `MCConvertAbort` | 2 workers, modules a -> b, c, b and b -> c; b reports an error, c throws; abort on error | 76 000 | in every interleaving of an abort: `PendingExact`, `DoneMeansQuiet`, `KeyInOnePlace`, `DiagnosticsDelivered`, `WorkersExit`; the run refines `ConvertRun` |
| `MCConvertKeepGoing` | same hierarchy, three top instances: two of a, one of c; colliding names and aliases, b a blackbox that throws, c throws, a reports errors; no abort | 83 000 | `CreateNeverCollides`, `ReadyMeansStored`, `DesignComplete`, `ScheduledSettles`, `ParkedIsWoken` |
| `MCConvertLostWakeup` | no error at all | - | `ConvertReturns` is violated (finding 1) |
| `MCConvertStrandedTask` | b reports an error | - | `AbortEmptiesCounter` is violated (finding 2) |
| `MCGraphEdges` | 2 values, 2 operations, 2 operands and results each, unchecked erasures; or port calls that throw, with fewer edges (`PortsOrSize`) | 134 000 | `UseListExact`, `DefExact`, `NoDanglingEdge`, `SymbolIndexExact`; `InoutNeverErased` for clients that go on after an exception; the builder refines `UseDefGraph` |
| `MCGraphCaches` | 2 values, 2 operations, ports, freeze and thaw, a declared symbol | 202 000 | `CachesCoherent`, `ThawNeverFails`, `FreezeNeverFails`, `FlagsExact`, `BoundNeverErased`, `FreezeKeepsNetlist` |
| `MCDesignRegistry` | 2 names, 3 graph ids, a graph that can and one that cannot be cloned | 832 000 | `TablesAgree`, `TopsResolve`, `CloneThrowsOnlyAtContents`, `CloneIsWhole`, `IdsNeverReused` |
| `MCPasses` | 1 527 scenarios (below) | 28 000 | `OutputsPreserved`, `NetlistIntact`, `ChangedHonest`, `SimplifyComplete`, `Terminates` |
| `MCUnreadConstant` | comparisons with a constant nothing else reads | - | `PortsKeepValues` is violated (finding 3) |
| `MCPhaseWorkers` | 6 top graphs (2 refused), 0, 2, 3 or 5 requested workers, up to 3 CPUs, 2 steps | 24 000 | `NoRace`, `StepSynchronous`, `SimulatorEnds`; the workers refine `StepPhases` |
| `MCLowering` | about 530 modules of one to three processes: conditionals, cases, loops, parts of vectors (`MCLowering.tla`) | 6 700 | `MeaningKept`, `StaysCombinational` |
| `MCLostTemporaries` | case statements that assign a temporary read after them | - | `MeaningKept` is violated (finding 4) |

Each property of a passing run has a mutant of the code's translation that breaks it
(`PROJECT.json`, `mutants`); the mutants stand before the definitions they change, marked `Mutant`.

The deeper properties, in words:
- `PendingExact`: the counter equals the queued, running, offered and dropped tasks at every step,
  so the unsigned counter never wraps and zero means that nothing is left.
- `DoneMeansQuiet`: a main thread that has passed its wait finds no queued and no running task.
- `KeyInOnePlace`: a module is offered, queued or held once, however many parents instantiate it.
- `DesignComplete`, `RefinesRun`: a returned design misses nothing that was not reported, and its top graphs
  are marked, or a warning says why not; an abort
  happens only after an error; a module is built after all it instantiates was found.
- `DiagnosticsDelivered`: when `convert` is over every error is in the shared list, whatever thread reported it, and no
  worker keeps anything; only warnings about top graphs may still wait for the caller's flush.
- `ScheduledSettles`: what was scheduled is converted or reported, without an abort.
- `UseListExact`, `DefExact`, `SymbolIndexExact`, `FlagsExact`: the derived copies are exact.
- `RefinesNetlist`: although each call decides by those copies, it does to the netlist exactly what
  the API promises of it, whose guards look at the whole netlist. Asked of every call that finds the port
  flags exact, also of one that throws half done.
- `FreezeKeepsNetlist`: under its symbols, the netlist is the same before and after each freeze and
  thaw.
- `TablesAgree`: order, aliases, ids and declared symbols name exactly the graphs that exist, in a design
  and in a half-made clone; deletion and cloning go through these tables one call at a time.
- `IdsNeverReused`, `CloneIsWhole`, `CloneThrowsOnlyAtContents`: an id stands for one graph for ever, so that
  a stale `ValueId` is never taken for one of a later graph; a design reached by legal calls can be
  cloned, and its clone misses nothing.
- `OutputsPreserved`: after every pass, every inner pass of simplify, and after storing and loading,
  the top graph shows in every cycle what it showed before the first.
- `NetlistIntact`: no operand, port or storage target names something erased, whatever is read or shown is driven, no
  value has two definitions, no symbol two owners, and every instance fits the ports of its module.
- `ChangedHonest`: a run that neither failed nor reports a change changed nothing, but for comb-loop-elim and for graphs
  that hier-flatten deletes (section 4); simplify's loop stops on this flag.
- `MeaningKept`: a module that was lowered and written back without an error settles for every input,
  and each target then holds what its blocks give it when they are run statement by statement.
- `StaysCombinational`: a combinational block that assigns a target on every path gives a wire and never a
  latch, for the conditionals and cases of the families in `MCLowering` (section 4 has others).
- `SimplifyComplete`: a simplify that ends before its bound leaves nothing to fold and nothing unread.
- `Terminates`: every step lowers a lexicographic measure (passes to make, passes to run, rounds,
  inner passes, graphs) that stays above zero. With no deadlock (checked), every run ends; no
  fairness is needed for that.
- `NoRace`: no function of the simulator writes a member that a function in the middle of its run on another
  thread reads or writes.
- `StepSynchronous`: a unit is evaluated once per step, on the inputs of this step, the constants, and the
  outputs that the others had after the step before, whose drivers are found in the netlist from
  the value backwards and not in the package; after a step the top's outputs are this step's.
- `RefinesStep`, `SimulatorEnds`: every function of a phase ends once before the next phase begins; whatever
  notifications are lost because nobody sleeps yet, every step and the destructor return.

Bounds. Three modules and two workers give the races of two parents over a child, of a push with an
abort, and of a finishing with a parking thread. Races of three workers are beyond these instances;
for the counter and the wait the proofs cover them. `SuffixBound` (as many suffixes as keys)
never blocks: keys hold one name each. A key reports its error once, which is enough because only
the first error changes the control state. `SizeMod` stands for 2^w; since `PendingExact` holds, the
wrap is never reached. In the graph, `MaxValues`, `MaxOps` and `MaxArity` bound how often something
is created; two values and two operations of arity two give shared operands, repeated operands,
shifted indices, self-loops and chains. As many symbols as entries let all of them
live at once in `MCGraphEdges`, which is what replacing a value, and erasing an operation with readers, need;
in `MCGraphCaches` two at a time, and erasures before a freeze leave gaps
in both arrays. Renaming and creating meet both free and
taken symbols. Symbols are interchangeable (symmetry), except those that clients declare. No property
that needs fairness is checked under symmetry: `RefinesNetlist` and `FreezeKeepsNetlist` are about
single steps and do not name a symbol.

The registry's three ids over two names let a name be deleted and created again, while an alias, a
top or a clone in progress still knows it. The scenarios of `MCPasses` are
families: two gates over two inputs with every pairing of operand and constant that `Gates` and
`Inverters` list; memories of two rows with initial contents of each form, with and without a write
port, lowered and retimed; two reads behind registers of their own, loaded from inputs or from each other's data;
memories of two-bit rows with one or two write ports, whole or masked, in both orders; latches; slices with computed indices; unknown constants and comparisons
at the edges of a width; two- and three-level hierarchies; hierarchical references that read, write, and name
storages; calls, black boxes and inout pads; false and true loops; designs cut by repcut, whole or below an
instance, again or in four, with registers, latches, memories, tasks and calls whose result is used; and
runs that fail. A stimulus runs
through all values of the one-bit inputs and back again. Every pair of bits that
a rewrite of one operation can see then occurs; what takes more than two operations in a row of one
kind, or values of more than three bits, does not, other than in the passes' own output.

The simulator's top graphs give slices of equal and of different lengths, an empty update list, a unit
that feeds itself, units that feed each other, aliases listed against the flow, fewer functions
than requested workers (the assertion), and no workers. Two steps are enough for a worker that is
late in one step to meet the next; three workers, for one that is neither first nor last.

Deadlock. A conversion ends, a simulator is destroyed, and a graph whose arrays are full and cannot be edited further may
stop; `CHECK_DEADLOCK FALSE` is set for this. In `MCPasses` deadlock is checked. That a conversion does not stop too early is what the
liveness properties say.

Fairness. `FairSpec` has weak fairness for the main thread and for each worker: the operating system
runs a thread that can run. Nothing is assumed of spurious wake-ups, nor of which sleeper
`notify_one` chooses. The same is assumed of the simulator's threads, and that its
owner destroys it some day; a wait that returns without a notification may happen and is never relied on. Graphs, the registry and the passes are called by one thread and have no fairness.

## 4. Findings

1. **A conversion may never return** (`MCConvertLostWakeup`). `finishTask` and `AbortState::request`
   change `pending` and notify `doneCv` without holding `doneMutex`. The notification can fall
   between the main thread's test of `pending == 0` and its wait; it then waits for ever although
   every task is done. `ParkedIsWoken` says what does hold: a main thread that is already parked
   while tasks are left is woken.
2. **An abort may leave a counted task behind** (`MCConvertStrandedTask`). A worker that passed
   the cancel test pushes after `request()` has drained the queue and before it closes it. The queue
   is never popped again, `pending` stays above zero, and the main thread waits for ever. This does
   not contradict `PendingExact`: the counter is right, the task is just never taken.
3. **const-fold gives an output port a constant it has erased** (`MCUnreadConstant`). The comparison
   step takes its replacement from the pool of constants, which still holds those that the sweep of
   unread constants erased before; the port is bound to a value that nothing defines.
4. **A case statement loses what its items assign to a temporary** (`MCLostTemporaries`).
   `visitConditional` saves the tracked values before a branch and joins them after it; `visitCase` does
   neither. An item starts from what the items before it left, and what is read after the case is what
   the last item assigned, whether it was taken or not.

Behaviour met while modelling that no run checks, since the instances keep to callers, designs and
modules on which the code does what its documents say:
- `bindInputPorts` and `bindOutputPorts` recompute the flags only after the last entry. One that throws half-way
  leaves a value that is bound but not flagged, and `eraseValue` erases it, although
  `docs/grh/grh-api.md:357` says that it fails for a value bound to a port. Inout ports are not affected
  (`InoutNeverErased`): for them the erasures search the port list. What holds of ports is
  therefore checked and proved for clients whose port calls do not throw (`PortCallsFail` is false).
- The statement lowerer: a blocking write at an index known only at run time, or to a concatenation, does not
  change the tracked value; temporaries after a break that is not known are joined by path only; writes
  of parts that cover a vector start from zero although each is conditional, which the comment at
  `ingest.cpp:11020` calls safe, and so they do in `always_ff`, where the other bits should be kept; a case with all
  items at the top counts as assigning even if only some items assign; constants are evaluated in 64
  bits whatever their widths; the guard of a write has only the innermost of the nested loops' flow
  guards; a conditional without a width hint is not narrowed; a combinational write at a run-time
  index alone reads its own target; some targets that are assigned on every path become latches; of
  two `always_ff` blocks that write parts of one register, the one that writes two different parts
  keeps the old value of the other's.
- comb-loop-elim takes a true loop over two or more values for a false one and rewrites it, without reporting
  the change; a split given up half-way leaves the fragments made so far; named wires it splits lose
  their definition.
- repcut: an output driven by a constant, or by a register nothing writes, loses its driver; a memory without write
  ports is read in a part that does not declare it; a call whose result nothing reads is dropped; an inout whose
  `out` and `oe` are one value loses `oe`; an error found while the new top is wired comes after
  the old one is gone.
- A design can become impossible to clone: `markAsTop` accepts an alias and stores its text, `deleteGraph` takes
  only the graph's own name off the list of tops, and `clone` then throws at the name left behind.
  `MCDesignRegistry.cfg` with `TopsByName = FALSE` shows it.
- The simulator package refuses a top that RepCut made with bundled ports: an input that a slice drives has
  no driver for `emitImpl`, and an output that an input or a constant drives is refused too.
- The `changed` flag is not honest in four places: comb-loop-elim rewrites the ring `a = ~b`, `b = ~a` onto copies
  (`comb_loop_elim.cpp:3137-3215`), and a split given up half-way; simplify that fails in the middle of a round;
  and hier-flatten under a top without instances, with symbols not preserved, when all it does is to delete the other
  graphs (`hier_flatten.cpp:1020-1063`). `ChangedHonest` names the first and the last, and section 5 proves that
  runs that do not fail have no others.
- strip-debug throws on a graph with two outputs of one value, or with an inout whose `out` and `oe` are one, after
  it has deleted the graph.
- memory-read-retime matches all candidates before it rewrites any (`memory_read_retime.cpp:994-1019`), and moves the
  readers of a rewritten read to a new value. A later candidate whose address register is loaded from that
  read, or whose memory is written with it, still uses the old value, which nothing drives any more: its
  output becomes unknown. Where it is the earlier one that uses the later one's data, or its own, nothing is lost. `ReadPairs` in `MCPasses` has the pairs for which the pass is right, `BrokenReadPairs` the
  others; with those among the scenarios, `NetlistIntact` and `OutputsPreserved` are violated.
- latch-transparent-read opens latches in the order of a hash table, and what one latch stores is noted before
  another's readers are moved: whether a latch that stores another latch's output sees it transparent depends on
  that order. The designs checked have one latch.
- xmr-resolve gives `u.v_x` and `u.v.x` one port.
- A value bound both as inout and as input or output is stored and not loaded again.
- mem-to-reg cuts a row constant wider than the row; memory-read-retime gives an incomplete table
  when the memory has initial contents for some rows only; the integer reader of slice-index-const does not wrap.
- multidriven-guard looks for a second driver of a value that is the instance's own result, so it cannot
  find one.

## 5. What is proved

`ConvertScheduler_proofs`, for any finite set of workers, any keys and any module hierarchy, from
`SchedulerAssumption` and `NamesAssumption`:
- `TypeCorrect`: `TypeOK`, which also ties each program counter to a valid key and instance.
- `CounterIsExact`: `PendingExact`; `WaitEndsWhenQuiet`: `DoneMeansQuiet`.
- `KeyAtOnePlace`, `DiagnosticsAreDelivered`, `CreateFindsFreeName`, `ReadyKeysAreStored`,
  `DesignsAreComplete`: the data properties of the runs, `KeyInOnePlace` to `DesignComplete`.
- `ConversionImplementsRun`: `RefinesRun`, every interleaving is a run of the sequential `ConvertRun`.

`PendingExact` is not inductive. The invariant `CountInv` adds: while the worker that took the
counter to zero is about to store zero, it still is zero (`LastTaskLeft`), for nobody is left who
could count a task; a main thread past its wait saw zero, which is stable once workers run
(`MainPassedAtZero`); workers do not move before the main thread has enqueued the tops (`WorkersWaitForLaunch`),
so nobody finishes while tops are still added; and only one thread ever drains, the winner of the
compare-and-swap (`OneDrains`), so `dropped` is one number. Each step then adds and removes at most
one thread from the sets that are counted, which the finite-set lemmas turn into arithmetic.

The other theorems rest on `ConvertInv`, which is `TypeOK`, `CountInv` and seven more parts. None of
the properties they imply is inductive:
- `PlacesInv`: what is offered, queued or held was scheduled. A second offer of a key can only fail because the
  registry knows the key already, so `KeyInOnePlace` needs this.
- `DiagInv`: a buffer that is not empty belongs to a worker with its flush before it; the error flag is
  up exactly when there is a message somewhere; `cancel` and every `request()` have an error
  behind them, and with abort on error, every error leads to one; nothing moves after the return.
- `StageInv`: the status of a key is what the stage of its worker says (`StageOK`: not begun before the claim,
  `Planning` up to the store, named before created, with each artifact set before the next), keys that
  wait are not begun, names differ. `createGraph` meets a free name because the name was
  reserved for one key, which is created once.
- `ClosedInv`: the queue is closed only when the call is cancelled or nothing is counted, so that a push
  that is refused loses no task that a conversion still needs.
- `FoundInv`: once a module is planned all modules it instantiates are scheduled.
- `SettleInv`: without an abort, a scheduled key is at its place, or converted, or reported as failed; none is
  lost between two places. At the return there are no places left, which gives `DesignComplete`.
- `TopsInv`: the tops that the main thread has gone through are named, and marked, or another top's alias stands in
  for them, or a warning is in its buffer or among the messages. A later top may take over a name only for a graph
  that it marks.

For the refinement, six steps of the model are steps of `ConvertRun`: a key newly registered is
`Find`, a claim `StartKey`, a stored plan `Build`, a message and a caught exception `Report` and
`Fail`, the join of an aborted conversion `Abort` and the return of the design `Deliver`; every other step changes nothing that
`ConvertRun` sees. The guards of `Build` and of the two endings come from `FoundInv`, `DiagInv` and
`SettleInv`.

`Graph_proofs`, for any `MaxValues`, `MaxOps`, `MaxArity`, symbols and port names, about a builder, from
`BuilderAssumption`:
- `Invariance`: the conjunction `Inv` below is an invariant.
- `TypeCorrect`, `UseListsAreExact`, `DefinitionsAreExact`, `EdgesNeverDangle`, `SymbolIndexIsExact`,
  `InoutPortsKeepTheirValues`; and, while no port call throws (section 4), `PortFlagsAreExact` and
  `PortsKeepTheirValues`.

`Inv` has one part per group of variables: `EntriesOK`, `UsesOK`, `DefsOK`, `SymbolsOK`, `PortsOK`.
No part is inductive alone. Erasing a value leaves no dangling edge only because the use lists and
definitions that the guard asks are exact; a definition is cleared correctly only because a value is
at one place among the results; adding an operation needs that entries not yet created have no
operands, which no checked property says. The proof has one lemma per operation; those about
operands rest on what `UsesOf` becomes when one operation's operand list is replaced
(`UsesReplaced`), appended to, exchanged at one place, or rewritten for a value (`Rewritten`,
`MovedUses`).

and about a graph, for the same constants and any symbols that clients declare:
- `GraphInvariance`: `GraphInv`, which is `Inv` and `CachesOK`, is an invariant of a graph that is frozen,
  thawed, read and written in any order; `GraphBookkeeping` draws from it what the builder's
  theorems say.
- `CachesStayCoherent`, `ThawingNeverThrows`, `FreezingNeverThrows`: `CachesCoherent`, `ThawNeverFails` and
  `FreezeNeverFails`, while no port call throws.
- `FreezingKeepsTheNetlist`: `FreezeKeepsNetlist`, for every client.
- `GraphImplementsNetlist`, `BuilderImplementsNetlist`: `RefinesNetlist`, for a graph and for a builder by
  itself, for every client. It speaks of calls that find the flags exact, which `GraphBookkeeping` gives while no port
  call throws.

Freezing moves each live entry to its rank among the live ones. `RankBijective` shows that ranks are
a bijection onto 1, 2, ... and `RankGrows` that they keep the order; each part of `Inv`, and each part
of the netlist under its symbols, is then carried over by itself. Thawing restores what was frozen because definitions
and use lists are functions of the operand and result lists, which is what `Inv` says of them.
`CachesOK` is needed with its order: an entry just created goes to the end of a cached list, and
`AscendingAppend` shows that a rebuild puts it there, because every live entry is below it. For the refinement each call
of the builder has a lemma that names the call of `UseDefGraph` it is: an edit of a list is one
element put in, taken out or exchanged (`AppendIsOneEdit` and the three after it), and the guards
that ask use lists, definitions and flags imply the guards over the whole netlist by `Inv` (`EditOutsMaps`,
`DropOpMaps`, `DropValueMaps`). That the flags are exact is needed: an erasure trusts them.

`DesignRegistry_proofs`, for any finite or infinite sets of names and contents, any bound on ids,
from `RegistryAssumption`:
- `DesignsTyped`, `TablesAlwaysAgree` and its four parts, `ClonesAreWhole`, `IdsAreNeverReused` for every client; `TopsFindGraphs` and `CloneThrowsForContents` for clients that mark
  graphs by their own names (section 4).

The invariant `IInv` says that both designs are `WellFormed` and that a clone in progress holds what its loops
have passed (`CloneSoFar`). `WellFormed` gathers the agreements of the tables, since each call
relies on several: `createGraph` never meets a name that still has an id only because ids and
graphs agree, and `clone` rebuilds an alias only because its graph is in the order. Each call has
one lemma that it keeps `WellFormed` and only adds ids (`GoodCall`). `CloneSoFar` is needed because
the copy is equal to the source only at the end: in the loop over graphs it holds those before
position `at`, in their order, afterwards all of them, and so for aliases, tops and declared
symbols.

`PhaseWorkers_proofs`, for the packages of any well-formed top graphs, any numbers of CPUs, workers and steps,
from `PackagesAssumption`, `StepsAssumption` and `HostAssumption`:
- `EmittedPackagesAreSound`: what `emitImpl` makes of a well-formed graph lists each unit at most once in a
  phase and is `Faithful` when it is not refused: every slot has the driver that the netlist names, and what drives a
  slot has a function that fills it. `DriversAreSources` is its core.
- `FunctionsNeverRace`: `NoRace`; `WorkersImplementPhases`: `RefinesStep`.
- `StepsAreSynchronous`: `StepSynchronous`; `MembersAreUpToDate`: the invariant behind it.

`PackagesAssumption` says that a package is `Emit` of a graph that is `WellFormedTop`: one definition per value,
none for an input port's, assigns with one operand and one result, ports numbered from 1. The first
is what `GraphBuilder` guarantees (`DefExact`); the second is not checked by `bindInputPort`, but RepCut binds the ports of
its new top to values it creates for them.

The emission is the one place where the proofs do induction over data: over the passes over the assigns,
and over the lists of functions. The library's induction theorems take an operator and cannot be
instantiated; `LeastNatural` (a nonempty set of naturals has a least element) does instead, applied to the set of
counterexamples. It is derived from the library's `WFLexProductOrdering`, whose parameters are sets: a number
up to n is a vector of n bits that starts with so many ones. After pass k a value has a driver only
if the walk back from it reaches a direct driver within k assigns, and has that driver's (`PassesFollowTheWalk`); walking from a copy is
walking from what it copies (`WalkShifts`), the walk stays at a value that is no copy (`WalkStays`),
and there are no more assigns than operations (`FewAliases`), so that both agree at the end.

The invariant `IInv` says where the two sides of the hand-shake can be together: a worker is inside its slice,
or has one to take, only while main has posted it and not seen it completed (`Open`), on the list main
is at, with `completed` false. This needs the flags: that `completed` is false from the post on is why main cannot pass
a worker on an old completion, and that `hasWork` is false inside the slice is why a slice is not taken twice.
Two busy workers are then at different positions of one list, because slices do not overlap; and
functions of one phase on different units touch different members. For the refinement, what is left
of a phase is the union of what is left of each slice (`Left`), and the slices make up the list (`CutsAreAll`):
that is arithmetic on `size * w / count`, proved from the bounds of the division. Posting, taking and
completing leave `Left` as it is, the end of a function takes one position out of it, and it is empty when
main has passed every worker.

`SyncInv` adds to it what every member holds: an input of the top has this step's version once the load function of
its unit has ended, a constant has its own from the constructor on, an output of a unit has last step's
until the update function of that unit has ended, and a unit has been evaluated once per step. It is kept by the
steps of `StepPhases`, not by those of the threads: the refinement is what makes the threads disappear
from this argument. While units are evaluated nothing writes a slot, so that the versions are the ones `Expected` asks for,
and `Faithful` makes the drivers the netlist's.

`PassPipeline_proofs`, with `PassResults_proofs`, `XmrResolve_proofs` and `FoldRule`, for any set of scenarios, from `StopAssumption` and
`ScenariosAssumption` (the designs a run starts from are functions on finitely many names to records with
the fields of a graph, whose operand lists are lists; arguments and paths too; no scenario asks for `stats` or `hrbcut`):
- `PipelineChangedHonest`: `ChangedHonest`. A pass that reports neither a change nor a failure hands back the design it
  was given; proved of every pass, of every inner pass of simplify, and of a whole run.
- `PipelineTerminates`: `Terminates`, for every run in which designs have finitely many graphs (`[]FiniteDesign`).
- `Fold` (`FoldRule`): induction over a fold.

The passes are folds over the operations and graphs of a design. The library's induction theorems cannot be instantiated, but a
module can: `FoldRule` has the step and the invariant as constant operators, proves the induction once, again
from `LeastNatural`, and each loop about which something is proved is an instance of it. What is carried
through a loop is mostly of one form, *if the flag is still down, the graph is still the one we began
with*; the flag is never taken down again, so the two ends of the loop compare. Where that is not
enough, the lemma says what the loop has to know: xmr-resolve keeps its tables of ports empty
until it changes something (`XmrKept`), so that its last phase, which connects the instances of what the tables
hold, has nothing to do; strip-debug finds nothing to split; repcut, which rebuilds whenever it succeeds, has
no quiet result that is not a refusal.

`ChangedHonest` is not inductive, because the report of simplify is known only at its end. `HonestInv` says that as long as neither
the report nor the simplify in progress has seen a change or a failure, the design is still the scenario's, or
has only lost graphs and hier-flatten is among the passes (`HonestFlag`). Each pass is then applied to a
design that satisfies `ScenariosAssumption`, which is what the lemmas on passes ask (`KeptWhole`: graphs that are
kept are the scenario's). Beside it stand the shapes that the steps read: names of the passes made, fields of the report,
simplify at rest unless the pipeline is running.

For `Terminates`, `TermInv` bounds the measure from below: `pos` is at most one beyond the passes made, which
are at most those asked for, and a simplify in progress has its round within `maxIterations`, which is a
number because parsing keeps it one whatever the arguments are (`SimplifyBound`, a fold over the
arguments). Each of the actions then lowers one component and leaves those before it (`Closer`). The hypothesis is
about the list of graphs that simplify still has to visit, which is a list only if there are finitely many. In the code
a design holds its graphs in a container; in the model a design is a function, and that every pass makes finitely many
graphs of finitely many would need a proof that each pass keeps whole graphs whole, which is not done. TLC checks `Terminates` without it.

Only model-checked:
- liveness (`WorkersExit`, `ScheduledSettles`, `ParkedIsWoken`, `SimulatorEnds`), which is outside the prover's
  logic here;
- `NetlistIntact`, `OutputsPreserved` and `SimplifyComplete`. The first needs, for each rewrite of each pass, that names, definitions
  and ports stay consistent; the second also the meaning of all operators over four-state vectors. Neither follows
  from the results that report no change;
- `MeaningKept`, `StaysCombinational`: the lowering (`ProcBlock`, `StatementLowering`, `WriteBack`) walks trees of statements by recursive
  operators, which this prover does not handle.

## 6. Not modelled, and the plan

Not modelled, with the reasons in `PROJECT.json`:
- planner and memory-port lowering in `ingest.cpp`: sequential per module, pattern matching over slang's
  syntax trees, which are the library's data; of the statement lowerer, what section 2 lists.
- SystemVerilog emission: text, whose meaning is another program's; of the Verilator package the shims, the names
  and the build glue, and what a unit computes.
- hrbcut, a partitioner by repeated random halving; statistics; logging; the texts of literals, JSON and messages.
- in repcut: weights, the hypergraph file and the feature report (they decide only what the
  partitioner answers, and it may answer anything), and the threads that collect cones,
  which write results of their own and are joined before use.

Next, in order:

1. **Single-threaded conversion**, and several conversions by one driver, both refining `ConvertRun`.
2. **Memory-port lowering**, over the entries of `WriteBack`.
3. **hrbcut**, over `RepCut`'s cones.
4. **Proofs about the passes**: `NetlistIntact` for dead-code-elim and the folding passes, by instances of `FoldRule`; from it
   `FiniteDesign`.
