# A TLA+ model of XLS

XLS compiles DSLX and C++ to an intermediate representation (IR), optimises and
schedules it and emits Verilog. It also runs the IR in software, by interpreter
and by JIT, interprets netlists, and simulates networks on chip (NoC). This
directory holds TLA+ specifications of the parts of XLS that have state,
concurrency, a protocol or an argument for their correctness that can be checked,
the TLC configurations that check them on small instances, and theorems about
them with proofs checked by TLAPS.

`PROJECT.json` lists, in machine-readable form, the components, the runs, the
source lines behind every definition, the hazards of the code and the theorems.

## The system and its parts

Sizes are lines of C++ without tests.

| part | directory | size | what is hard to test | modelled |
|------|-----------|------|----------------------|----------|
| JIT and its proc runtime | `xls/jit` | 7.7k | one thread per proc, handshakes over a mutex, a growing circular buffer per channel | runtime and queues |
| interpreters | `xls/interpreter` | 3.2k | resumable iterations, round-robin until a fixpoint, deadlock reports; the clocked loop of the block interpreter | proc networks, blocks; the IR interpreter as the meaning of operations |
| NoC simulator | `xls/noc/simulation` | 8.4k | components that propagate when their inputs are current, credits, virtual channels, reassembly of packets | simulator and packetizer |
| NoC configuration, drivers | `xls/noc/config`, `config_ng`, `drivers` | 2.2k | construction of configurations | no |
| code generation | `xls/codegen` | 15k | `block_conversion.cc` builds ready/valid flow control; `sequential_generator.cc` a loop with a state machine; the rest emits text | these two |
| IO wrapper and UARTs | `xls/tools`, `xls/uncore_rtl` | 1.6k | several state machines on one clock, a byte protocol with escapes and resets | yes |
| IR | `xls/ir` | 23.7k | use-def graph under mutation; interval sets and abstract evaluation; verifier; text format | graph of a function, interval sets, ternary evaluation |
| passes | `xls/passes` | 19.5k | rewrites that rely on analyses made before them | CSE, DCE, query engines, narrowing, select sparsification |
| scheduling | `xls/scheduling` | 2.4k | bounds propagation, cuts, search for a clock period | functions, without the SDC strategy |
| data structures | `xls/data_structures` | 3.3k | pure algorithms | binary search |
| netlist | `xls/netlist` | 5.7k | evaluation of cells on a pool of threads with two shared queues | the interpreter |
| testbenches | `xls/simulation` | 0.7k | testbench threads for an external Verilog simulator | no |
| DSLX | `xls/dslx` | 36.5k | sequential front end; imports, bytecode interpreter | no |
| synthesis, common, other tools | `xls/synthesis`, `common`, `tools` | 11k | subprocesses, files, command lines | no |
| other | `xls/contrib`, `delay_model`, `fuzzer`, `solvers`, `examples` | | front ends, tables, external solvers | no |

How the modelled parts interact. A *proc* repeats an iteration: it receives from
and sends to channels and computes its next state. A *network* of procs can be
run in three ways, and XLS promises that all three do the same:

* `SerialProcRuntime` (JIT): one thread per proc, woken in turn; channels are
  `FifoJitChannelQueue` and `SingleValueJitChannelQueue` objects that tools and
  tests may use from other threads;
* `ProcNetworkInterpreter`: one thread runs every proc as far as it goes, again
  and again;
* hardware: `block_conversion.cc` turns a scheduled proc into a pipelined block,
  and the block interpreter clocks it.

A *function* goes through passes to the scheduler. They all work on one graph of
nodes, each with its operands and its users. The passes modelled here are of two
kinds: CSE and DCE look at the graph only; narrowing and sparsification rely on
*query engines*, which say what is known of the bits of every node (ternary
engine) and in which intervals its value is (range engine). The scheduler computes
the earliest and latest cycle of each node and narrows them to one.

`wrap_io` puts the hardware of a function behind a byte stream: a resetter, an
input controller that decodes escapes and assembles requests, the device function,
and an output controller that takes its answer apart. The device is a
fixed-latency pipeline or the loop `sequential_generator.cc` makes. On an ICE40
board the byte ports are two UARTs.

The netlist interpreter is separate: it evaluates the gates of a parsed netlist,
on worker threads if asked to. So is the NoC simulator: `noc_traffic_injector`
cuts packets into flits with a `DePacketizer`, `NocSimulator` moves the flits, and
a `Packetizer` at the sink puts the packets together.

## Modules

| module | models | state | actions |
|--------|--------|-------|---------|
| `FifoChannel` | what a channel promises (`JitChannelQueue`) | the items | `Send`, `Recv` |
| `FifoJitChannelQueue` | `jit/jit_channel_queue.h` | the members of the queue in the record `q`, the senders between the unlocked test and the mutex | `SendCheck`, `SendLocked`, `Recv` |
| `ProcNetwork` | what running a proc network means | state, executed operations and results of every proc, queues | `Start`, `Execute`, `Finish`, `Enqueue`, `Dequeue`, `Reset`, `Close` |
| `SerialProcRuntime` | `jit/serial_proc_runtime.cc`, and send and receive of `ir_builder_visitor.cc` | `thread_state`, where each thread and the main thread are, queues | one per critical section of a thread or of the main thread |
| `ProcNetworkInterpreter` | `interpreter/proc_network_interpreter.cc`, `proc_interpreter.cc`, `channel_queue.cc` | the visitor of each proc, the call in progress, queues | the calls, and one step per executed node |
| `SmallNetworks` | | two proc networks for TLC | |
| `Packetizer` | `noc/simulation/packetizer.{h,cc}` | both classes' members, flits on their way | `AcceptNewPacket`, `ComputeNextFlit`, `AcceptNewFlit` |
| `NocSimulator` | `noc/simulation/sim_objects.{h,cc}` | connections, link pipelines, credits, buffers, progress of the cycle | `SendFlitAtTime`, `RunCycle`, one per propagation of a component |
| `RdvBuffer` | the three port buffers of `codegen/block_conversion.cc` | (pure operators) | |
| `PipelinedBlock` | `ProcToPipelinedBlock`, clocked by `InterpretChannelizedSequentialBlock` | the registers, the sources, what was taken and sent | `Run` and `Reset`, one clock cycle each |
| `SequentialModule` | `codegen/sequential_generator.cc` | (registers as a record, next state as an operator) | |
| `WrapIo` | `tools/wrap_io.cc` | the registers of the resetter, both controllers and the device | (the clock edge as an operator) |
| `Uart` | `uncore_rtl/ice40/uart_transmitter.v`, `uart_receiver.v` | (registers as records) | |
| `IoSystem` | `WrapIo` composed with `null_io_strategy.cc` or `ice40_io_strategy.cc`, the UARTs and a host | all registers, the host, what it is owed | `NullCycle`, `Ice40Cycle`: one clock cycle |
| `FunctionIr` | `ir/node.cc`, `function_base.cc`, `function.h`, `node_iterator.cc` | nodes, operands, users, return value | creation, removal and replacement of nodes, as operators on the graph |
| `FunctionPasses` | `passes/cse_pass.cc`, `dce_pass.cc` | what is left of the order, the nodes kept, the worklist | one per turn of a pass's loop |
| `ScheduleBounds` | `scheduling/schedule_bounds.cc`, the search for a clock period, `data_structures/binary_search.cc` | (bounds as a record) | |
| `PipelineScheduling` | `scheduling/pipeline_schedule.cc`, `min_cut_scheduler.cc`, `function_partition.cc` | request, period, bounds, cycle map, trials | `Start`, and one per draw, cut or trial |
| `FunctionCompiler` | the five above on one graph | the phase | building, editing, the passes, scheduling |
| `BitsOps` | `ir/bits_ops.cc` and the handlers of `interpreter/ir_interpreter.cc` | (pure) | |
| `IntervalSets` | `ir/interval.cc`, `ir/interval_set.cc`, `MinimizeIntervals` | (pure) | |
| `TernaryEvaluator` | `ir/ternary.h`, `ir/abstract_evaluator.h`, `abstract_node_evaluator.h` | (pure) | |
| `RangeQueryEngine`, `QueryEngines` | `passes/range_query_engine.cc`; `ternary_query_engine.cc`, `union_query_engine.cc`, `query_engine.{h,cc}` | (an engine is a record; visiting a node and every query are operators) | |
| `NarrowingPass`, `SparsifySelectPass` | `passes/narrowing_pass.cc`, `sparsify_select_pass.cc` | (what a pass does at a node, as an operator) | |
| `ValueAnalysis` | `Populate` of the engines, once and again, then a pass | the engines, the function as it is now, the node to visit | one per visited node |
| `NetlistInterpreter` | `netlist/interpreter.h`, and the cells and wires of `netlist.h` | both queues, the counters, where every thread and every call of `InterpretModule` is | one per critical section or loop turn of a thread; `Call`, `Destroy`, `Join` |

The modules whose names end in `Proofs`, and `NocSimulatorInvariant`, hold the
theorems and lemmas; the `MC` modules give
the constants their values for TLC, and `MCNetlistInterpreter` also says what a
netlist means. An operator whose comment begins with "Fault" is a wrong version of
the definition after it. No specification uses it: `PROJECT.json` pairs it with a
property that TLC must find violated when it is put in place.

What each model keeps and abstracts:

* **`FifoJitChannelQueue`.** Indices and counts are in elements instead of bytes
  (the code keeps every index a multiple of `allocated_element_size_`), but the
  vector's size is in bytes, so that the rounding of the capacity and what
  happens when the buffer grows while it is wrapped are those of the code. `Send`
  reads and writes `channel_element_size_` before it takes the mutex, so it is two
  steps. The constructor leaves `max_byte_count_` uninitialised:
  `UninitializedCounts` is the set of values it may have.
* **`SerialProcRuntime`.** A step is a critical section, or the JITed code up to
  its next channel operation. Both sides of a handshake wait with `Mutex::Await`.
  Other threads may use the queues at any time. A proc is its list of channel
  operations with their dependencies and predicates; what it computes is a
  parameter. The single-value queue and its `XLS_CHECK` are included: a failed
  check takes the process to `aborted`.
* **`ProcNetworkInterpreter`.** The order of nodes is that of `topo_sort_`, of
  which the channel operations are kept; `fresh` stands for the nodes that depend
  on none of them, whose execution counts as progress.
* **`Packetizer`.** Packet data is a sequence of named bits, so `Slice` and the
  concatenation of `BitsRope` do what they do on bits. The network between the two
  ends keeps the order of one source and interleaves different ones. `arriving` and
  `interleaved` are history variables: the sources that are in the middle of a
  packet at the sink, and whether flits of different packets have met there.
* **`NocSimulator`.** The code compares time stamps with the current cycle and
  nothing else, so the model keeps the set of those that equal it. The network is
  a parameter. Metadata and the count of utilisation are left out.
* **`PipelinedBlock`.** One step is one clock cycle. Every combinational signal
  of the generated block is an operator of the registers and the ports. The n-th
  item of an input is the number n; a send carries the state and everything the
  iteration has received, what a receive whose predicate is false yields included:
  the block passes on what the data port or its buffer shows (`Yields`). Sources
  hold an item until it is taken, as `ChannelSource` does.
* **`WrapIo`, `Uart`, `IoSystem`.** Register by register, bit by bit on the serial
  lines; a step is a clock cycle, and the wires have the names of the code. Of the
  FSM builder only what it makes is kept. The host is not in the repository: it is
  a pair of the same UARTs, and starts a byte only while `clear_to_send` is up. The
  sink of the plain byte port raises ready a cycle after it has seen valid, as
  `wrap_io_test.cc:132` does ("The output controller is not exactly ready/valid
  signaling."), and not at any time, as `wrap_io.h:106-109` would have it.
  `expect` is not part of the system; it decodes the bytes the wrapper takes by
  what the control codes mean, as a reference for the properties.
* **`FunctionIr` and what is built on it.** A node is its id; its operation, with
  its attributes, is a member of `Ops`, and a type is a bit count. Token operands
  are left out. Edits stand for the other passes: any replacement of uses or of an
  operand that leaves the graph acyclic, which is its callers' duty. The draw of
  the RANDOM strategy is nondeterministic, and so is the choice among minimum cuts
  of equal weight (any partition of least weight, which is what `min_cut.cc`
  promises). `NoBound` stands for `INT64_MAX`. Delays are a parameter; the delay
  that is added to receives never is, since functions have none. `ScheduleValid` is
  what `Verify` and `VerifyTiming` check, and that parameters are in the first and
  the return value in the last cycle, which `Verify` only mentions
  (`pipeline_schedule.cc:482`).
* **Value analysis.** A `Bits` is a number below 2^w, and a value the sequence of
  its leaves, so that tuples and arrays nest one level and arrays have one
  dimension. Intervals have a width of at least one. The nodes of a function are
  in a topological order. The limits of the code on intervals (16, 5 and 12) and on
  the width of shifts (256) are constants, so that small cases meet them. A partial
  product is the pair of zero and the product, as the interpreter computes it;
  `ir_semantics.md:295-297` allows any pair with that sum, which the narrowing of
  `narrowing_pass.cc:705-727`, extending each of the two, would not keep. `Populate`
  compares hashes to see whether it has learnt anything; the model compares the
  interval sets, that is, it has no collisions.
* **`NetlistInterpreter`.** A step is a critical section, or a part of
  `InterpretModule` that touches no shared variable and one that does. The unlocked
  read of `num_available_threads_` and the dispatch are two steps. A cell's
  evaluation function is one of a few gates on all of its input pins, or returns an
  error on given arguments. State tables (clocked cells) are left out and assigns
  are acyclic. The constant wires never become active, as in the code: a cell with
  one on a pin keeps its call from finding all outputs, which is then an error. A
  negative counter stands for one that has wrapped around.

## Runs

Passing runs:

| run | instance | shows |
|-----|----------|-------|
| `fifo_jit_one_sender` | one sending thread, elements of 48 bytes in a buffer of 128 that grows twice | `ImplementsFifo`: refinement of `FifoChannel`, through wraps and growth |
| `serial_runtime_loop` | two procs, a request and its reply, a single-value channel, non-blocking receives, predicates, an initial value | `SerialOperation`, `TickSettles`: only the proc that Tick waits for runs, and a proc it has passed waits in the state it says; `CallsReturn`, `DataUnblocks`: no handshake is lost, in Tick or in the destructor; `ImplementsNetwork`: refinement of `ProcNetwork` |
| `interpreter_join` | two procs, a join of two independent receives, a single-value channel, predicates | `TickRunsToFixpoint`: a tick goes as far as it can, and a tick without progress is a deadlock on exactly the reported channels; `CallsReturn`; `ImplementsNetwork` |
| `packetizer_networks` | single-flit packets from two sources, packets of several flits from one source, two or three sources that share one or two stores | `PacketsIntact`: in order, each with its own data, as long as flits of different packets have not met at the sink, also when a source sends again after another has used its store; and no bit is ever received twice; `PacketsArrive`: all of them, unless stores run out, which they do only when packets of several flits from several sources meet |
| `noc_cross` | two sources, two routers, two sinks, links with zero to two pipeline stages, two virtual channels that change places | `CreditsConserved`: on every link and virtual channel, so that no buffer overflows; `CyclesConverge`, with every channel up to date; `FlitsInOrder`, `FlitsArrive` |
| `block_pipelines` | three procs of one to three stages, sixteen combinations of port buffers and data path reset | `ComputesProc`: outputs are the sends of the proc's iterations, in order and once, with exactly the items received and, for a receive whose predicate is false, what `Yields` says; `OutputsHeld`: an item shown is shown until it is taken, unchanged but for such data on an output without buffer; `IdleMeansDrained`; `EverythingSent` |
| `wrap_io` | a fixed-latency device and a loop of two iterations, behind byte ports and behind UARTs; plain, escape and reset bytes in any order | `RequestsDecoded`: the device gets the requests the byte stream means, whenever resets and escapes come; `RepliesInOrder`: answers leave whole and in order; `OutputReadyHeld`: what the fixed-latency machine relies on while it computes; `BytesDelivered`: a host that watches `clear_to_send` never makes the receiver fail; `EverythingGetsThrough`: no byte, request, answer or reset is stuck |
| `compile_function` | every function of up to four nodes over five operations, one edit, CSE or not, DCE, seven requests to the scheduler | `UsersMatchOperands`, `TopoSortSorts`: the graph stays consistent and sortable; `MeaningPreserved`, `PassesExact`: the passes keep what is computed and leave nothing for a second run; `ScheduleValid`: with the shortest clock period when none is given; `FailureMeansInfeasible`: no draw or cut runs into a contradiction |
| `value_analysis` | every operation on operands that are unknown, known, partly known, or in one or several intervals, with a second operation on top | `RangesSound`, `QueriesSound`: what the engines say is true for every input; `IntervalSetsExact`: interval sets against sets of numbers; `PopulateComplete`: constants fold, and a second `Populate` finds nothing; `PassKeepsMeaning`: each rewrite keeps the result and passes the verifier |
| `netlist_threads` | fifteen uses of netlists of up to five cells, on up to two worker threads, for one or two calls | `ResultsCorrect`: calls return what the netlist means, or the process ends, in one of three situations it names: a worker's evaluation fails, or one of the two crashes listed below; `ThreadsAccountedFor`, `EntriesHaveThreads`, `PendingAccounted`: the counters agree with the queues and the threads, so that no cell, thread or result is forgotten; `CallsReturn`, the destructor's included |

Runs in which the code and what is said of it disagree; each has an entry under
"findings" that quotes both sides:

| run | shows |
|-----|-------|
| `wrap_io_reply` | behind the UARTs every answer is followed by a byte that is part of none: the output controller still asserts valid in the cycle in which the transmitter is done with the last byte, and the transmitter takes that for another one. It reads the byte as it sends it, and by then `HoldingData` has shifted the register empty, so the extra frame is zero, unless the next answer is loaded while it is being sent |
| `netlist_nested` | a module is used twice: the owner's thread gives one instance to the worker and interprets the other itself, and this nested call of `InterpretModule` takes the result that the call around it, on the same thread, waits for |

### Other disagreements

The models show more places where the code does not do what is said of it. No model
is changed to avoid them: either the passing runs keep clear of them by what they
instantiate, or their properties say what happens instead. To see one, change the
configuration or the property as given.

| place | what happens | how to see it |
|-------|--------------|---------------|
| `jit/jit_channel_queue.h:84` | of two threads that send first on a new queue, the one that does not size the buffer can use it first; a later receive returns a value nobody sent | `FifoJitOneSender.cfg` with `Senders <- MCTwoSenders` and `INVARIANT OnlySentValues` |
| `jit/serial_proc_runtime.cc:86` | a non-blocking receive from a single-value channel that was never written aborts the process instead of returning false | `serial_runtime_loop` reaches `main.at = "aborted"`, which its liveness properties except |
| `jit/serial_proc_runtime.cc:293` | `ResetState` does not reach a proc that is blocked inside an iteration: it resumes with the old state and overwrites the new one | `SerialRuntimeLoop.cfg` with the property `[][ResetState => \A p \in Procs : NetState'[p] = InitState[p]]_vars`; the refinement has `ResetCuts <- FALSE`, which lets an iteration in progress finish |
| `noc/simulation/packetizer.cc:49` | `DeallocatePartialPacketStore` erases by store index a map that is keyed by source, so that flits of two packets can meet in one store, against `packetizer.h:316-320`, by which a source has a store of its own | `PacketsIntact` without `~interleaved =>` fails |
| `noc/simulation/sim_objects.cc:268` | a cycle that converges in exactly `max_ticks` ticks is reported as not converging | `NocCross.cfg` with `MaxTicks = 3`; the network needs three |
| `codegen/block_conversion.cc:2193` | a receive whose predicate is false yields the data port; `ir_semantics.md:444` says "If the predicate is false the data values in the result are zero-filled." | `ComputesProc` allows what the port or its buffer shows; with `{0}` for the second case of `Yields` it fails. On an output without buffer such data changes while the taker waits, which `Floats` in `OutputsHeld` allows |
| `passes/range_query_engine.cc:1042` | of a priority select only the cases whose bit can be the only one are taken into the range, though `ir_semantics.md:943` selects by the lowest bit that is set | `ValueAnalysis_small.cfg` with `Cases <- PriorityCases` |
| `passes/narrowing_pass.cc:335` | an array index turned into selects reads the first case when it is out of bounds; `ir_semantics.md:523` says "Any out-of-bounds indices `idx_{i}` are clamped to the maximum in bounds index for the respective dimension." | cases with a `threshold` keep their indexes in bounds |
| `netlist/interpreter.h:197` | a cell without inputs that is listed before a cell it feeds crashes the call: `UpdateProcessedState` dereferences the entry of the other cell, which does not exist yet. The comment at line 255 says "if a cell has no inputs, it's active, so process it now." | `netlist_threads` reaches it (`ConstantFirst`); `ResultsCorrect` without `ConstantBeforeUser` fails, and its last conjunct says that no call on such a netlist returns |
| `netlist/interpreter.h:215` | dumping a cell that a worker has interpreted crashes the process: its inputs were moved into the queue (line 331) and `.at` does not find them. Line 84 says "dump_cells: List of cells whose inputs and outputs should be dumped on evaluation." | `netlist_threads` reaches it (`Adder` with dumped cells and a thread); `ResultsCorrect` without `DumpedByWorker` fails |
| `netlist/interpreter.h:290` | a call waits for ever for wires that the last cell, which has no outputs, does not activate | `NetlistThreads.cfg` with `Designs <- MCSink` |
| `netlist/interpreter.h:340` | a call made after one that failed takes the failed call's results for its own | `NetlistThreads.cfg` with `Designs <- MCAfterFailure` |

### Bounds

* `MaxQueued` bounds the elements in a channel that the environment fills: 6 in the
  queue is enough to fill buffers of 2 and of 5 elements, wrapped in every way, and
  to grow twice; 2 in the networks lets a proc find its channel empty, with one
  item and with another behind it.
* `MaxTicks` of the interpreter is the argument `max_ticks` of its calls; 2 makes
  both outcomes happen. `MaxTicks` of the NoC is that of `RunCycle`; the network
  needs 3 ticks, so 4 never fails and 3 does.
* `MaxFlits` is one and two flits; buffers have one or two places, so the second
  flit waits for a credit.
* Packets are up to three flits long, of sizes that are a multiple of what a flit
  carries and not. A source sends two or three of them, so that it can come back to a
  store that another has used; of three sources that compete for one store each sends
  one.
* `MaxItems` is 3 per input and `MaxResets` 1: enough to fill a skid buffer and the
  stage behind it and to start again.
* `InputBits` and `OutputBits` are 10: two bytes, the upper one partly used. With
  byte ports the host sends up to 5 bytes, two requests and a control code, so that
  a request meets the answer to the one before; with UARTs 3, since a byte takes
  forty cycles. `ClocksPerBaud` is 4, the least the receiver works with: it samples
  in quarters. The bytes are a plain one, one that is also an escape code, and both
  control codes.
* `MaxNodes` is 4 and `MaxEdits` 1: enough for an operand that occurs twice, for
  equal operations whose operands become equal on the way, for dead nodes that free
  others, and for three or four stages. The requests have a period only, stages
  only, or both, tight and loose, with margins and relaxation.
* Most operands of the value analysis have three bits.
  `MaxIntervals` 3, `MaxOperandIntervals` 2 and `ManyOperands` 2 make sets of four
  intervals exceed every limit; `MaxShiftBits` 3 lets shifts be at the limit and
  beyond.
* Netlists have up to five cells and two worker threads, in which a thread can be
  on its way to the queue, waiting, woken and busy while the owner dispatches, and
  more cells are ready than there are threads. Two calls on one interpreter show
  what the first leaves behind.

### Fairness

* `SerialProcRuntime`: weak fairness of every thread and of a call of the main
  thread that is in progress. The operating system runs threads that can run, and
  `Mutex::Await` returns when its condition stays true. Nothing is assumed of the
  caller, who may never call `Tick` again.
* `ProcNetworkInterpreter`: a call that was made runs.
* `Packetizer`: the injector computes flits until the packet is sent, and flits
  arrive. `NocSimulator`: the simulation is run cycle after cycle.
* `PipelinedBlock`: the clock runs, and each taker is ready infinitely often while
  it could be; two of them need not be ready in the same cycle. Nothing is assumed
  of the sources.
* `IoSystem`: the clock runs, and with byte ports the sink does not leave a byte it
  has seen for ever. Nothing is assumed of the host.
* `NetlistInterpreter`: every thread that can run does, the owner in a call and in
  the destructor's joins included. The owner may never call again.
* `FunctionCompiler` and `ValueAnalysis` are sequential, and only their safety is
  checked.

Deadlock is checked where the system must always have a next step. It is not
checked after the destructor or an abort (`SerialProcRuntime`,
`NetlistInterpreter`) and when all packets have been sent (`Packetizer`).

## What is proved

TLAPS checks the following for every value of the constants.

* **The circular buffer is a FIFO** (`ChannelProofs`: `TypeCorrect`,
  `IndicesAlwaysAgree`, `OnlySentValuesReceived`, `QueueImplementsFifo`). Assumed:
  at most one sender (`SingleSender`, without which the result is false), an
  element size that is positive and not larger than the power of two it is rounded
  to (`SizesAssumption`), and values that differ from the zero of fresh memory
  (`ValuesAssumption`). The properties are not inductive: that the elements are in
  order after a growth depends on where the indices stand. `Ring` says what a
  buffer in order is: the enqueue index is the dequeue index plus the number of
  elements, modulo the capacity, and the capacity is what the size in bytes yields.
  One lemma per operation (`AllocatedRing`, `GrownRing`, `PushedRing`, `PoppedRing`)
  shows that it keeps `Ring` and what it does to the contents. `IInv` adds what a
  sender on its way to the mutex knows about the buffer. The refinement maps the
  buffer to its contents, oldest first.
* **Procs run one at a time** (`SerialProcRuntimeProofs`: `SerialAlways`,
  `TicksSettle`), for every number of threads, every network, and any concurrent
  use of the queues. Assumed: `ProgramAssumption`, that there is a proc, that a
  program is a sequence, and that operations depend on earlier ones only. The
  inductive invariant says that every thread whose turn it is not waits, and that its `thread_state` agrees with where
  it waits (`OthersSettled`); for the one whose turn it is, `Awaited` and `Joined`
  list the few combinations the handshake goes through. Without the agreement,
  `kRunning` left over from an earlier turn would let a thread run out of turn.
  Each step concerns one thread, so the proof has a lemma for a thread's step
  (`ThreadIInv`) and one for the main thread's (`MainIInv`).
* **Both ways of running procs implement the network of procs**
  (`SerialProcRuntimeProofs`: `RuntimeImplementsNetwork`;
  `ProcNetworkInterpreterProofs`: `InterpreterImplementsNetwork`), for every
  network. In the interpreter's `ProgramAssumption` an operation also has one of the
  three kinds and one of the channels. The mapping takes where a thread is in its
  program, or what a visitor has executed, to the operations done and their
  results; an iteration keeps the state it began with. Each step of a thread, of
  the main thread, of `TickInternal` or of the caller is an action of `ProcNetwork`
  or a stutter. For the runtime this needs, beyond the invariant above, that a
  thread in its iteration is at an operation of its program or at the end
  (`Iterations`), since the operations done are those before it. A network whose
  runtime is destroyed or has aborted is closed (`DestroyCloses`, `DestroyedStays`).
* **A tick of the interpreter runs to the fixpoint**
  (`ProcNetworkInterpreterProofs`: `TicksRunToFixpoint`). `TickInternal` stops after
  a pass in which no proc executed anything, and reports the channels that pass
  met. That is right only if nothing has changed for the procs it went through
  earlier, so the invariant says what a pass has found out so far, as long as it
  has executed nothing: the procs behind it are complete or stuck, and the blocked
  channels are those they wait for (`PassIdle`); and the same of one run over the
  nodes of a proc (`RunIdle`), which goes through them in an order that respects the
  dependencies (`RunInOrder`).
* **Credits of the NoC simulator** (`NocSimulatorProofs`:
  `CreditsAlwaysConserved`, `BuffersNeverOverflow`, `CyclesLeaveNothingBehind`), for
  every network, every set of virtual channels, any buffer depths, any number of
  stages in either pipeline of a link, and any number of ticks to converge.
  Assumed (`NetworkAssumption`): the network is well formed, that is, a connection
  joins one output port to one input port, a link leads from a source or router
  to a router or sink, and a route that names a port of a router names one of the
  virtual channels. The balance of a link is simple between two cycles only. In the
  middle of one, the sender may have added its update to its credits and not sent,
  a flit may stand on a connection before or after the link has taken it, and a
  credit may stand on either side of the way back; which of these it is, is told by
  the time stamps of channels and components alone, in whatever order the
  components come to be served. The invariant `IInv` therefore says what the stamps
  imply of one another (`Stamps`), that the components Tick has passed have their
  stamps if nothing failed (`Turns`), and that the sum of nine terms, each of which
  a stamp switches on or off, is the credit the receiver has issued (`Balanced`).
  `SameCredits` adds that a router which sends its credits a second time in a cycle,
  because its propagation failed on another channel, sends the same ones. Each of
  the eight propagations has a lemma for
  its stamps and one for the balance of any link, next to it or not
  (`NocSimulatorInvariant`). What is needed of the counts, which are cardinalities,
  is the formula `Counting`; the invariant is proved from it, and
  `NocSimulatorProofs` proves it (`CountingHolds`).
* **Port buffers are queues** (`ChannelProofs`: `ClockKeepsShape`,
  `BuffersAreQueues`), for every data type and all signals: in a clock cycle a
  flop, a skid buffer and a zero-latency buffer append what they accept and remove
  what is taken, and what they show is the oldest item. Needed for it is
  `WellFormed`: a skid register that is valid stands before a valid data register.
* **A block holds what it offers** (`ChannelProofs`: `OutputsAlwaysHeld`), for every
  proc, number of stages, assignment of receives and sends to stages, and choice of
  buffers on either side. Assumed (`BlocksAssumption`): the description of the block
  is well formed, that is, stages exist and the next state is a state. The property
  is about two cycles, and what the second shows depends on the sources and the
  other takers through combinational signals that run the whole pipeline in both
  directions. So the invariant (`Promises`) speaks of every input the next cycle may
  have: if it is no reset and the sources keep what they hold, the port is valid and
  shows the same item. The same item (`SameItem`) is an equal one if the output has a
  buffer. If not, the data of a receive in the same stage whose predicate is false
  may differ (`Floats`): the block passes the port through, and the theorem would be
  false without the exception. Signals that run back from the last stage are defined by
  recursion over the stages; `OpenSolution` shows that the recursion has a solution
  and `OpenFacts` that the signals are one. Then a step has two cases: the stage is
  still stalled and its data and one-shot register have not changed (`StageHeld`), or
  the item stands in an output buffer (`BufferHolds`, `OutputHeld`).
* **The output stays ready while a fixed-latency device computes**
  (`ChannelProofs`: `OutputReadyHeldAlways`), for every width, latency, baud rate,
  function and host. The state machine tests the output's ready once and asserts
  valid cycles later without a second look. The property is inductive as it
  stands: the output controller leaves Idle only for an answer, the input
  controller keeps its request until it is taken, and a reset takes the device's
  machine back to Idle.
* **The node graph and the two passes over it** (`FunctionCompilerProofs`), for every
  set of operations, every number of nodes and every sequence of edits, CSE and DCE
  steps. `AlwaysSorts`: `TopoSort` lists every node once and its operands before it.
  `UsersAlwaysMatch`: the users of a node are the nodes that have it as an operand.
  `PassesAreExact`: CSE leaves no two nodes it should have made one, and DCE leaves
  what the return value and the side effects depend on. `PassesKeepMeaning`: every
  step of a pass keeps what the function returns and what its side effects are given.
  The last one has a hypothesis, `Meanings(Val)`: there is a set of values in which
  each operation takes values to a value, and in which the operations the code calls
  commutative are (`CommutativeOn`; `compile_function` evaluates it for the operations
  used there). Assumed are `OpsAssumption` and `EditsAssumption`.

  The properties depend on one another. A node that CSE met a second time would be
  replaced by itself and lose its users, so that the users match needs that the order
  has no node twice; `TopoSort` gives such an order if the graph has no cycle
  (`Acyclic`) and the users match; and that a replacement makes no cycle needs the
  order in which CSE visits the nodes, a ranking in which a node comes after its
  operands and the nodes CSE has kept come before those it has yet to visit
  (`VisitsInOrder` in `CseInv`). `DceInv` says that the worklist holds every node that
  may go. `FunctionIrProofs` has a lemma for each operation on the graph, and what
  the code's loops build: the lists are recursive functions over a length, and the
  induction over it is the statement that a set of numbers has a least element
  (`Least`, `UpTo`, `Recursion`), which the provers can use. In the same way the
  meaning of a node, a recursive function over the graph, is the only solution of its
  equations (`ValuesSolve`, `SolutionUnique`), so that it is enough to show that the
  meanings from before a step solve those after it. That nodes with equal sorted
  operands have the same operands up to order is `SortedByCounts`.
* **The pool of the netlist interpreter** (`NetlistInterpreterProofs`), for every
  netlist and every finite set of threads. `ThreadsAlwaysAccountedFor`: the counter
  of available threads and the queued cells add up to the threads that wait for
  one, also with nested modules, where several threads dispatch and the counter may
  drop below zero; `PoolInv` adds that a thread inside `InterpretModule` is busy.
  `EntriesAlwaysHaveThreads` and `PendingAlwaysAccounted` are about netlists
  without instances (with them two cells may go to one thread, and `netlist_nested`
  shows what becomes of the results). Their invariant `FlatInv` says why the unlocked test is
  safe there: only the owner lowers the counter, so that a thread it has seen
  available still is when it dispatches (`num_available >= 1` between the two).

Only model-checked: all liveness properties (fairness is out of the prover's
reach); of the NoC simulator that flits arrive in order (`FlitsInOrder`, which
follows one flow through a path of components of any length) and that no cycle
needs more than `max_ticks` (the part of `CyclesConverge` beyond
`ConvergedUpToDate`, which depends on the network: routers in a ring of links
without stages wait for one another); and the properties of the
packetizer, what the pipelined block computes (`ComputesProc`, `IdleMeansDrained`),
the byte stream of the I/O wrapper, the results of the netlist interpreter, the
scheduler and the value analysis. `BitsOps`, on which the value analysis rests, and
`Expected`, the meaning of a netlist, are recursive operators, which the prover does
not accept. The others would need an invariant that relates the whole history to
what is on its way: which bits of which packet stand in which flit, which iteration
of the proc is in which stage.

## What is not modelled

The reasons for each component are in `PROJECT.json`. In short:

* **Nothing for these tools to find**: text generation (Verilog emission,
  testbenches, formatters, parsers), numerical tables (delay models), translation
  to external solvers, command lines, configuration builders.
* **Out of reach**: the DSLX front end, the largest part of the product: a
  sequential compiler whose inputs are syntax trees and types, of which TLC can
  enumerate none of a size that matters. Proc inlining, whose analyses would have to
  be modelled whole. The SDC scheduler, a linear program given to a solver. The BDD
  engine, and the translation of IR operations to LLVM and Z3, of which a model
  would only repeat `BitsOps`.
* **Local rewrites**: some thirty passes are lists of independent patterns. Each
  pattern is a statement about one or two operations that its unit test makes as
  well; the two passes that depend on earlier analyses, where a stale fact can do
  harm, are modelled instead.
* **Left out of parts that are modelled**: combinational procs, non-blocking
  receives, single-value ports and function pipelines with valid signals of block
  conversion; generated and fixed queues of the interpreter; the lockless JIT
  queue; scheduling of procs and constraints on I/O; clocked cells of netlists;
  arrays of several dimensions and nested aggregates in the value analysis.

## Checking it

    tlc -workers 2 -config SerialRuntimeLoop.cfg MCSerialProcRuntime
    tlapm ChannelProofs.tla

`PROJECT.json` names the module and the configuration of every run. Each property
of a passing run has a mutant there: a definition that models code and a wrong
version of it, with which TLC finds the property violated. The longest run takes
about two minutes. The proof modules take between two and fifteen minutes each.
`tlapm` allows five seconds to translate a leaf for the SMT solver, whatever the
time limit in the proof, which large definitions exceed on a busy machine. Leaves
that only take definitions apart are therefore given to Zenon, and arithmetic is in
leaves of its own.
