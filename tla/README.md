# A TLA+ model of the Prevail eBPF verifier

Prevail decides, by abstract interpretation, whether an eBPF program is safe to
run in a kernel. This directory models its core and checks, with TLC, and
proves, with TLAPS, that the core does what the rest of the verifier and its
users rely on. Paths below are relative to `src/`, the code is under
`src/src/`.

## Inventory

| Component | State | Operations | Interacts with |
|---|---|---|---|
| Weak topological ordering (`cfg/wto.cpp`, `cfg/wto.hpp`) | depth-first numbers, a vertex stack, a task stack, nested partitions, containing cycles | `push_successors`, `start_visit`, `continue_visit`; then `nesting`, `begin`/`end`, `for_each_loop_head` | reads the graph; read by the iterator and by `from_sequence` |
| Fixpoint iterator (`fwd_analyzer.cpp`, `result.cpp`) | pre- and post-invariant and error of each label, `failed`, `_skip`, the call stack of `operator()` | `run`, `operator()` for a label and for a cycle, `transform_to_post`, `join_all_prevs`, `find_termination_errors`, `max_loop_count`, `find_first_error` | walks the Wto; calls the domain, the transformer and the checker |
| Graph construction (`ir/cfg_builder.cpp`, `cfg/cfg.hpp`, `cfg/label.hpp`, `ir/program.hpp`) | children, parents, instructions and assertions by label; the recursion of `add_cfg_nodes` | `insert`, `insert_jump`, `add_child`, `remove_child`, `insert_after`, `add_cfg_nodes`, `instruction_seq_to_cfg`, `from_sequence` | reads the decoded instructions; uses the Wto for loop counters |
| Basic blocks (`ir/cfg_builder.cpp`, `collect_basic_blocks`) | a work list and a set of seen labels | one function | printing only |
| Stack domain (`crab/array_domain.cpp`, `crab/bitset_domain.hpp`) | a thread-local map from offsets to cells, shared by all states; a bitset of numeric bytes per state | `store`, `load`, `havoc`, `split_cell`, `kill_and_find_var`, lattice operations | variables of the numeric domain |
| Zone domain (`crab/split_dbm.cpp`, `crab_utils/graph_ops.hpp`) | a weighted graph, a potential, the set of unstable vertices | `assign`, `set`, `havoc`, `add_constraint`, closure, `join`, `widen`, `meet`, `narrow`, `entail`, `intersect` | numeric part of a state; called by the finite-width domain |
| Intervals, finite-width arithmetic (`crab/interval.cpp`, `crab/finite_domain.cpp`) | none | arithmetic, bit operations, sign and width changes | used by the transformer |
| Types and product (`crab/type_domain.cpp`, `crab/rcp.cpp`, `crab/ebpf_domain.cpp`, `crab/var_registry.cpp`) | type variables; a thread-local registry of variables | lattice operations, type refinement, selective join | the domain the iterator sees |
| Transformer, checker, assertions (`crab/ebpf_transformer.cpp`, `crab/ebpf_checker.cpp`, `ir/assertions.cpp`) | the state of a label | one transfer function per instruction, one check per assertion | iterator, product domain |
| Decoding and encoding (`ir/unmarshal.cpp`, `ir/marshal.cpp`, `ir/parse.cpp`) | the position in the byte code | one decoder per instruction class | ELF loader, graph construction |
| ELF loader (`elf_loader.cpp`) | sections, maps, relocations | reading, relocation, linking of subprograms | platform, decoding |
| Platform (`linux/`, `platform.hpp`) | tables | look-ups | everything |
| Command line, printing, statistics (`main/`, `printing.cpp`) | options | formatting | results |

What is hard. Nothing in the verifier runs concurrently; what is hard to test
is the order of long sequences of steps over shared tables:

* the Wto builder restarts the numbering of a cycle's members while tasks for
  the same labels are pending, and pops its stack without looking;
* the iterator mixes invariants of different iterations, of nested cycles, and
  of labels frozen by an error; its result must still describe every run;
* termination hangs on bounds, because narrowing need not converge;
* inlining copies parts of a graph that earlier inlinings have changed, in the
  order of labels and not of control flow;
* several tables are thread-local and shared by all abstract states;
* a zone keeps a potential and a partly closed graph, and each operation repairs
  them only around what it has changed;
* a register has a signed and an unsigned view, which every operation has to
  wrap around and to keep consistent at two widths;
* the decoder merges two slots into one instruction in two different ways, in
  the middle of a walk that numbers labels by slot.

`PROJECT.json` lists these as hazards, each at its line, with the properties
that cover it.

What makes each modelled component correct:

* Wto: exactly the reachable labels, each once; the partitions are a weak
  topological ordering, so each backward edge goes to the head of a cycle around
  its source; each cycle is a loop; `nesting` agrees with the partitions; the
  builder ends.
* Iterator: the result describes every run of the program up to the labels with
  errors, is an inductive invariant, bounds the loop counts it reports; errors
  are final and summarised by `failed`; it ends.
* Graph construction: children and parents are mirror images; the graph is the
  call semantics of the instruction sequence; calls that do not fit into the frames
  are rejected, and of forward code no other; each outermost loop has a head that no
  cycle passes without a counter, and counters change no path; it ends.
* Stack domain: a byte counted as a number is one in every execution; the
  numeric size of a stack pointer promises no other byte; the number or the
  pointer a load finds is the one that is there.
* Zones: no operation loses a concrete state; the potential is a model of the
  graph; the graph keeps its normal form; the order test is sound and sees a
  join or a widening above its operands; `entail` and `intersect` answer truly.
* Finite-width arithmetic: the abstract result describes what the machine
  computes; each view stays in its range; constants fold; one instruction throws and
  no other.
* Decoding: each slot belongs to exactly one instruction; jumps lead to
  code; registers and instruction groups are valid; the arguments of a helper
  are split without gap or overlap; encoding and decoding again gives the
  program back.

## Modules

| Module | Models | Extends |
|---|---|---|
| `Wto` | `WtoBuilder` and the finished `Wto` | |
| `FwdAnalyzer` | `InterleavedFwdFixpointIterator`, over the `Wto` it builds | `Wto` |
| `FwdSoundness` | what the iterator promises, against a concrete semantics | `FwdAnalyzer` |
| `CfgBuilder` | `Program::from_sequence` and its helpers | |
| `StackArray` | `ArrayDomain`, `BitsetDomain` and the parts of the transformer and the checker that use them | |
| `Intervals` | `Interval`, `ExtendedNumber` and `Number` | |
| `SplitDBM` | `SplitDBM` and the graph algorithms under it, as functions of zones | `Intervals` |
| `NumDomain` | what the analyzer expects of any numerical domain (abstract specification) | |
| `Zones` | zones under sequences of operations; implements `NumDomain` | `SplitDBM` |
| `FiniteDomain` | `FiniteDomain`: operations and comparisons at two widths, over zones | `SplitDBM` |
| `Alu` | the transformer's `Bin`, `Un` and `Assume` on numbers, next to the machine | `FiniteDomain` |
| `Decode` | `unmarshal` and `marshal` | |
| `Induction` | induction over numbers and finite sets, in the form the provers can use | |
| `WtoProofs` | theorems about the builder and the finished Wto | `Wto`, `Induction` |
| `SoundnessProofs` | the errors and the soundness of the iterator | `FwdSoundness`, `WtoProofs` |
| `CfgProofs` | theorems about the construction of the graph | `CfgBuilder` |
| `LoopProofs` | theorems about the loop counters | `CfgProofs`, `Induction` |
| `StackProofs` | theorems about the numeric bytes of the stack | `StackArray` |
| `DecodeProofs` | theorems about the decoder | `Decode`, `Induction` |
| `ZonesProofs` | the soundness of the zone domain | `Zones`, `Induction` |
| `MCWto`, `MCFwdAnalyzer`, `MCCfgBuilder`, `MCStackArray`, `MCZones`, `MCAlu`, `MCDecode` | instances for TLC | |

### Wto

Variables are the members of `WtoBuilder`: `dfn`, `headDfn`, `num`, `stack`,
`visitStack`, and of `Wto`: `components` (the partitions of the top level and
of each cycle), `parentCycle`, `containing`. Each of the three tasks is an
action; `start_visit` has three outcomes and so three disjuncts. A cycle is
named by its head. The tasks that one call pushes for the children of a vertex
are one frame that is consumed in label order, which is the order the code pops
them in. `DFN_INF` bounds the numbers; the guard `NextNumber < DFN_INF` is the
point at which the `int` would overflow (2^31 - 1 visits).

### FwdAnalyzer and FwdSoundness

`phase = "build"` is the constructor, in which the actions of `Wto` run;
`StartAnalysis` and `Finish` are the parts of `run` before and after its loop.
The recursion of `operator()` is the stack `work`; each element is an
activation with the components it has left, its invariant and its iteration.
`VisitLabel`, `EnterCycle`, `AscendStable`, `AscendGrow`, `DescendEnd` and
`DescendRefine` are the steps between two visits of components, each with the
`transform_to_post` that the code does there. The move of `invariant` into the
result (`fwd_analyzer.cpp:257`) is a copy: `TypeToNumDomain` declares a copy
assignment and no move assignment, and the stack's bitset has nothing to move.

The abstract domain is a set of constants (`LeqD`, `JoinD`, `WidenD`, ...);
the runs use a small zone: the interval of a register, an upper bound of a loop
counter and one of the difference between the two. The difference is what lets a
guard on the register bound the counter, as the zone domain of the code does, so that
counted loops pass the termination check with a count above 1. `FwdSoundness` adds a concrete
semantics as constants and assumes, in `SoundDomainAssumption`, that the domain
is sound one operation at a time: order, join, meet, narrowing, the
transformer, the checker and the bound of a loop counter lose no value that
they were given. Nothing is asked of the widening, nor of any two operations
together, and `D` need not be a lattice. TLC evaluates the assumption for the
instance. The properties are then about the iteration. The zone domain of the
repository does not meet the part about the meet, as the run `zones_meet`
shows: what is proved of the iterator holds of the verifier as far as its
domain is sound.

When the analysis is done, one execution of the analyzed program runs beside
it: `run` is the label and the memory state it is at, and it blocks at a label
with an error. It observes and changes nothing.
`SoundUpToErrors` and `LoopCountIsABound` are about `run`, so they are
invariants of reachable states and need no closure of the program's states.
`NarrowD` of the instance is that of `SplitDBM`, a no-op except on top;
`ConstantLimits` of the instance is deliberately too small, as the real one may
be.

### CfgBuilder

Labels are records of the four fields of `Label`, ordered as in the code; the
stack frame prefix is a sequence instead of a string. Variables are the fields
of `Cfg` and `Program`, and `calls` is the recursion of `add_cfg_nodes`.
`InsertInstructions`, `LinkInstruction`, `InlineNext`, `CloneLabel`,
`EndWalk`, `InlineNested`, `Return`, `BuildWto`, `InsertCounter` and
`SetAssertions` are the loops and loop bodies of `from_sequence` and what it
calls. An exception is the phase `"error"` with its reason. Which label of an outermost
loop is its head is left open (`HeadChoices`): module `Wto` says which.
Reading a label that does not exist is the error "no such label", whether the
code throws `CRAB_ERROR`, `std::out_of_range` or `InvalidControlFlow`.

### StackArray

`array_map` is `thread_local_array_map`: for each `DataKind`, the sizes of the
cells at each offset. It is one variable, while `scalar` (the values of the
cells' variables) and `non_numerical_bytes` (`BitsetDomain`) are functions of
the abstract state. An offset that has been looked at stays in the map with an
empty set, as `std::map::operator[]` leaves it. `offset` and `numeric_size` are
`stack_offset` and `stack_numeric_size` of two pointers: r10, the top of the current
frame, and r6, a pointer of the function in which the run starts. The kinds of the
pointers' regions are one kind, `"offsets"`.

Beside each abstract state runs an execution: `memory` is its stack and `place`
is where its r6 and r10 point. `Store` is `do_store_stack`. `LoadFixed` is
`do_load_stack` through r10 within the frame, which needs no assertion; `LoadThrough`
is the same through r6, or through r10 into the frames above, under the check of
`ValidAccess`. Both begin with the test of the base register's `stack_numeric_size`
(`BySize`). `HelperWrite` is a call with a writable argument, `CallLocal` and `Exit` are
the call of a function of the program and its return, which move r10 by a frame with
`add` (`Add`), `Advance` is r6 plus a constant, and `Copy` and `Join` are a branch and
`operator|=`. Accesses are those that `check_access_stack` lets through (`InStack`).
A callee does not touch r6: what it does to it is undone at its exit, and the saved copy is
kept up to date by `do_store_stack` like r6 itself. `Load` is what
`load` returns and `LoadCells` what it does to the map, since a load may make
cells. A `havoc` or a `store` of the domain is a sequence of parts (split the
overlapping cells, kill them, make and assign the new one), and an operation of
the transformer is the sequence of the parts of its calls, in the code's order.

Abstractions: of an interval of values only its being a singleton is kept, so a
cell has one value or an unknown one; a byte has two values, so that a word of
`Word` bytes has `2^Word`; a register is a number, a pointer or of unknown type
(a register that may be a number or a pointer is stored as a pointer is). Bytes
that a register of unknown type leaves at an offset that is not fixed are marked
`"unseen"` in the execution, because `havoc_type` does not see them; the two
properties about numeric bytes except them. The
test whether a store may touch a pointer's bytes uses intervals and not the relations
between offsets, so it holds at least as often as in the code.

### Intervals, SplitDBM, Zones and NumDomain

`Intervals` has the bounds and intervals of `crab/interval.cpp` with the same
case distinctions, at widths `W64`, `W32` and `W16` that are parameters: the
code's constants (`UINT64_MAX`, `INT32_MIN`, ...) are those of the width.

A zone `[ok, g, p]` of `SplitDBM` says whether it is not bottom (`AddBottom`) and
has the graph and the potential. The set of unstable vertices lives within one
widening, which normalizes its result before it returns it, and is an argument
there. `g` is a function from
pairs of vertices to weights. Vertex 0 is the constant zero and vertex `v` is
variable `v`: the tables between variables and vertices, and the reuse of freed
vertices, are abstracted. Weights are integers and do not overflow, so the
branches on `convert_NtoW_overflow` are left out. Every operation of the class is a
function of zones and follows the order of the code: bounds first, then the
relations; repair of the potential by a shortest-path search; closure around the
changed edge, or vertex, or over the bounds. Strongly connected components and
the order in which `select_potentials` treats them are modelled, since the meet
depends on them.

`Zones` applies these to two slots: `Assign`, `Set`, `Havoc` and `Assume` on each,
then `JoinZones`, `WidenZones`, `NarrowZones` (and `MeetZones` in
`SpecWithMeet`), then more operations on the result. Operations on different slots
before they meet commute, so those of slot 1 come first. `op` records the
operation; it is left out of the `VIEW`, as the properties about it are about a
single step.

`NumDomain` is the abstract specification. Its state is, for each slot, the set
of concrete points, and a step of an operation may yield any set that has at
least the points of the concrete operation. `Zones` implements it with the
refinement mapping `pts <- gamma(zone)` (`ZonesAreSound`).

### FiniteDomain and Alu

`FiniteDomain` has, for each operation of `crab/finite_domain.cpp`, a function of
a zone, the signed and the unsigned variable of the destination and the operand:
which view is computed, how the other is derived, and how `overflow_bounds`
brings each back into its range. The comparisons yield the constraints of
`assume_cst_imm` and `assume_cst_reg`. `AssertsOn` says whether the code's asserts
are compiled; a failed assert or cast is the zone `Aborted`.

`Alu` runs instructions on two registers: up to `MaxSetup` of `Setup`, then one of
`Program`. `Bin`, `Un` and `Assume` are the handlers of
`crab/ebpf_transformer.cpp` for operands that are numbers; the branches for
pointers and unknown types are left out. Beside them, `Execute` is what the
machine does (external: the eBPF instruction set at the given widths), and a step
is compared with it on `Samples`, corner values of both registers. The shift by
the full width at `finite_domain.cpp:983` is undefined behaviour in C++: `Bin` takes
both outcomes that a build can produce (`zero`). Bit operations on negative
numbers are those of `cpp_int`.

### Decode

The input is a sequence of raw slots `[opcode, dst, src, offset, imm]`.
A turn of the loop of `unmarshal` is `DecodeLddw`, `DecodeMem`, `DecodeAlu` or
`DecodeJmp` by the class of the slot, with the merging of shift pairs, of the two
slots of an lddw, and `makeCall`; `Finish` is the end of the loop and `Marshal` is
`marshal`, whose result is decoded once more. A program is `"rejected"` when the
decoder reports it and `"thrown"` when an exception leaves the function. `ImmBits`
and `OffsetBits` are the widths of the two fields, small enough that a long
program has a jump that does not fit the shorter. Messages and notes are left out.
`DecodeAssumption` says that the slots of a program have the fields of
`EbpfInst`, and that an immediate has at least eight bits, so that the widths of
the byte swaps are immediates.

## Runs

| Run | Result | Bounds |
|---|---|---|
| `wto` | pass | all graphs over an entry and four instructions with at most two successors, 193,750 states |
| `fwd` | pass | 1,043 programs of eight loop shapes on eight labels, all choices of instructions for the open labels; values up to 6, loop limit 3, two descending iterations; 37,296 states |
| `fwd_nontermination` | violation | one counted program with an inner loop |
| `cfg` | pass | all sequences of at most three instructions, all of five that jump and call forward, and programs with calls in other layouts (9,338 inputs in all); three frames; 155,105 states |
| `cfg_called_loop` | violation | one program, four frames |
| `stack` | pass | two frames of two words of four bytes; three operations on numbers in both byte orders, four on pointers, three on r6 with stores of all types, five with calls and exits, five on two branches; 140,414 states |
| `stack_helper` | violation | a store and a helper call, each of a whole word |
| `zones` | pass | three variables, points in -1..2; two operations on each zone, a join, widening or narrowing, and one more; 32,681 states |
| `zones_meet` | violation | the same with the meet |
| `alu` | pass | widths of 8, 4 and 2 bits for 64, 32 and 16; two instructions of setup and each operation with immediates and registers; 3,439 states, 84 machine states each |
| `alu_and` | violation | r1 set to 3, then an AND by a register |
| `decode` | pass | all 256 opcodes with corner values on four platforms, all programs of four slots from twelve, one of 67 slots, 577 prototypes; 255,916 states |

The type invariants `WtoTypeOK`, `FwdTypeOK` and `TypeOK` (of `StackArray`), and
`FailedIffErrors`, are ingredients of the proofs and are not checked in runs of
their own. So are the inductive invariants of the proofs, each of which TLC was
asked about before it was proved.

Why the bounds are enough. Four instructions give loops inside loops, loops with
two entries, self-loops, and cycles found while another is being built; all the
cases of `start_visit` occur in all orders. The widening delay is 2, the limits
are met at iteration 2, and `MaxV` is 6: a loop reaches the iterations after the
limits, and two descending iterations are enough for the bound to cut a
sequence. Counted loops with guards from 0 to 4 are on both sides of the loop limit, so the
reported count goes up to 4. Three frames are enough for a call of a call and one that is too
deep; the limit is a parameter of the proofs.

On the stack, accesses of a word and of half a word at all aligned offsets give
cells that contain, split and neighbour one another; three of them are a store,
a store that splits its cell and one that splits or kills the part. A frame of two
words and room for two frames give a callee whose frame borders on its caller's; five
steps are a store on each side of the border, a call, a store or a helper in the callee, and
an exit. Offsets of
r6 that are an interval, and an interval of a store's offset, include ranges that
reach into the next word. The exact loads leave out narrower accesses and helpers
that write exactly a cell, which are the subject of the counterexamples. `max_steps`
bounds the sequences.

Three variables give relations that are implied by a path, by bounds, and by
both, an assignment of a sum of two variables, and components of a meet that
depend on one another. Zones before a join are the results of two operations
each; points outside the box are not looked at, so losing one of them goes
unnoticed, but weights are not confined to the box. Eight bits are enough for all
the corner cases of the views (numbers that wrap at one width and not at the other,
halves with the sign bit set, shifts by up to the width); the immediates include
-8, the smallest 32-bit number at that width, whose subtraction is the one instruction
that throws (`OnlySmallestSubThrows`). `alu` leaves out what fails: the AND
by a register (`alu_and`), a 32-bit MOVSX16 of a register to itself, and, in `StepsAreSound`, 32-bit orders of
operands that are not the same number at both widths (`OrderFits`); the list of
observations below says why. The option `big_endian` is off. Four slots are enough
for a pair that overlaps an lddw, for pairs that follow each other, and for a jump
into, over and out of each.

`DescendingIterations`, 2,000,000 in the code, is 2 in the runs. The inputs of `cfg`
with calls are: functions after their callers, called once, twice and in chains; every
sequence of five instructions whose jumps and calls lead forward; recursive functions;
and two layouts whose calls fit and which the builder nevertheless rejects with
"already exists", a function that jumps back to a shared exit and a callee that
precedes its caller (`SharedExit`, `CalleeFirst`). `ForwardCallsAreInlined` is about
the forward ones and says so. A backward jump inside a called function is the
subject of `cfg_called_loop`.

Fairness. The builder, the iterator and `from_sequence` are sequential
computations that run until they return. Weak fairness of their steps is what
executing them means. `CfgFairSpec` states it without ENABLED: the construction is
done, or makes steps again and again. TLC's check for deadlock shows that a step
is enabled until it is done.

### What the violations show

* `fwd_nontermination`: `config.hpp:7` says of `check_for_termination` "When true,
  verifies that the program terminates." `for_each_loop_head` (`cfg/wto.hpp:144`,
  "Visit the heads of all loops in the WTO") visits the top-level cycles only, so a loop
  inside a loop has no counter. The inner loop 2 -> 3 -> 2 of a counted loop is
  left by an instruction that assumes v > 5, while v is 0: the analysis finds no error and
  the termination check passes, and a run that enters the loop stays in it.
* `cfg_called_loop`: `ir/cfg_builder.cpp:173`, "Add an edge from any other
  predecessors." The back edge of a loop in a called function is not added,
  because its source is cloned after its target.
* `stack_helper`: `crab/ebpf_transformer.cpp:774`, "Pointer to a memory region
  that the called function may change, so we must havoc." `get_overlap_cells`
  leaves out the cell that is exactly the range (`crab/array_domain.cpp:344`), so
  the value of that cell survives the havoc, and a load after the call yields
  the number from before it.
* `zones_meet`: `crab/split_dbm.cpp:752`, "Potentials cannot be selected -- state is
  infeasible." `select_potentials` (`crab_utils/graph_ops.hpp:691`) gives each
  component its rounds once, in reverse topological order, and takes a potential
  that would have to change afterwards for a negative cycle: `x1 = 1` met with
  `x1 <= x2` is bottom.
* `alu_and`: `crab/interval.cpp:263`, "Do a bitwise-AND between two uvalue
  intervals." An interval that contains `UINT64_MAX` is treated as that number
  (line 289): after r1 = 3, r1 AND an unknown r2 is exactly 3.

### Further counterexamples

Five configurations that are not among the runs of `PROJECT.json` state other
sentences of the repository that the code does not keep. `tlc -config X.cfg M`
shows the counterexample of each.

* `MCFwdReport.cfg` (`MCFwdAnalyzer`, `FailureIsReported`): `README.md:151`, "Print
  first failure". An error found in an
  ascending iteration stays when the descending iterations make its label
  unreachable, and `find_first_error` (`result.cpp:23`) skips unreachable
  labels: the program is rejected without a failure to print.
* `MCCfgRotatedLoop.cfg` (`MCCfgBuilder`, `NestedCallsAreInlined`):
  `ir/cfg_builder.cpp:204`, "Finally, recurse to replace any
  nested function macros." A call whose successor was processed before it is not
  in `seen_labels` (line 195) and is not replaced.
* `MCStackOverlap.cfg` (`MCStackArray`, `OverlapsAreFound`):
  `crab/array_domain.cpp:307`, "Return all cells that might
  overlap with (o, size)." The searches stop at the first offset without an
  overlapping cell, and an offset whose cells were removed, or that was only
  looked up, has none: after a wide store and a narrow load inside it, a store
  behind the loaded byte does not kill the wide cell.
* `MCStackCallee.cfg` (`MCStackArray`, `LoadsBySizeAreNumbers`):
  `crab/ebpf_transformer.cpp:605`, "stack_numeric_size holds the number of
  continuous bytes starting from stack_offset that are known to be numeric." The size
  does, but `do_load_stack` (line 389) compares it with the width of a load at any
  offset from the register, where `ValidAccess` subtracts the offset
  (`crab/ebpf_checker.cpp:331`). When main has a number at the bottom of its frame, r10 of a
  callee has that size, and what the callee loads from below r10 is taken for a number
  whatever it is. `LoadedNumbersAreRight` and `LoadedPointersAreRight` are about the
  loads whose type comes from `load_type`.
* `MCDecodeTargets.cfg` (`MCDecode`, `TargetsAreInstructions`): a jump to the second
  slot of a merged shift pair passes the decoder's test of targets and has a label
  that no instruction has; the construction of the graph rejects it as "jump to
  undefined label" (`ir/cfg_builder.cpp:261`).

### Observations

Seen while modelling. Because the map is shared, a cell that one
state's store has removed from it is not killed by a store of another state that
still has its value (store a word in both branches, then half a word in the
first, then half a word in the second). A register of unknown type stored through
a pointer with several possible offsets leaves `num_bytes` as they were
(`havoc_type`, `crab/array_domain.cpp:792`), and the store is not refused
(`ir/assertions.cpp:208`, `ValidStore`): these are the `"unseen"` bytes of `StackArray`. A
callee that jumps back to a shared exit,
and a caller that follows an already expanded callee which calls twice, are
rejected with "already exists"; `collect_basic_blocks` can drop a label whose
only predecessor comes later in the label order; `constant_limits`
(`crab/ebpf_domain.cpp:156`) is computed before any option is read, so its part
for loop counters is never used.

Zones: after a widening, `normalize` passes the unstable vertices where the callee
asks for the stable ones (`crab/split_dbm.cpp:976`), so that the result is not
in normal form; only precision is lost. With asserts compiled, those at
`crab/split_dbm.cpp:986` and `crab/interval.cpp:268` can fail.

Arithmetic: 32-bit orders add constraints on the 64-bit views
(`crab/finite_domain.cpp:304`, 325), which is right only for operands that are
the same number at both widths. A 32-bit MOVSX16 of a register to itself returns before the
high half is cleared (`crab/ebpf_transformer.cpp:1299`). A subtraction of the
immediate `INT32_MIN` throws in `gsl::narrow` (line 1058).

Decoding: a load of a map or of a 64-bit immediate, and a fetching atomic, may have r10 as
its destination. `JA16` asks for group base64 as well. `marshal`, which only the
tests use, encodes 32-bit conditions as 64-bit jumps and a near `JA32` as
`JA16`, does not relocate the targets of local calls that are near, throws on
negative immediates where it narrows to an unsigned field, and turns a merged
pair into a 32-bit move that needs base32; `RoundTrip` is about the programs
that it can encode. A `runtime_error` of `makeCall` is not caught by `unmarshal`, and
its test `args.size() - i < 2` never holds.

## Proofs

Every theorem is for all values of the constants: every graph, program, platform,
stack size or frame limit, within the named assumptions of the modules. The
hypotheses are those assumptions and nothing else, except where it is said.

`Induction` has what the provers need in place of an induction rule (which takes
a predicate, and they cannot be given one): a set of natural numbers has a least
element (`LeastNatural`), a set with 0 that is closed under successor is `Nat`
(`SetInduction`), a finite set has a greatest (`GreatestNatural`). An induction is
then one over the set of the numbers that have the property. It also says what
`FlattenSeq` returns: the concatenation has the members of its pieces, and repeats
none if no piece does and no two pieces share one (`FlattenFacts`). A recursive function
is a `CHOOSE` of a solution of its equation; what it computes is proved by giving a
solution, showing by such an induction that two solutions agree, or both.

### WtoProofs

`BuilderInvariance`: `BuilderInv` is inductive, for every graph. From it follow

* `WtoIsOrdered`: `PartitionsAreOrdered`, the result is a weak topological
  ordering;
* `VisitPopsItsVertex`: `PopsTheVisitedVertex`, the pop without a look is safe;
* `WtoTypes`: `WtoTypeOK`;
* `WtoIsComplete`: the labels of the result are those that the entry reaches. This
  needs `ReachInv`, that only reached labels are numbered or pending;
* `WtoListsEachLabelOnce`: `EachReachableLabelOnce`. `Flat` is recursive over the
  partitions; a cycle has a smaller `headDfn` than the cycles in its partition, so
  its equation has a solution (`FlatExists`), and an induction on `headDfn` shows
  what it lists (`FlatLists`);
* `NestingIsRight`: `NestingMatchesPartitions`. It needs a second invariant,
  `PointerInv`: once a label is placed, the two maps of containing cycles name the
  partition that it, or the cycle it heads, was added to. The heads that `nesting`
  collects are then the cycles around the label, by an induction from the outside
  (`Rank`);
* `WtoCyclesAreLoops`: `CyclesAreLoops`, with a third invariant, `ConnectInv`. Its
  first part (`ReturnInv`) is that a label whose low point is n gets back to the
  label numbered n through labels with the same low point: such a path avoids the
  labels whose numbers are reset when another cycle is opened above it. The second (`LoopsFrom`) is that the region of a cycle being built is strongly
  connected through its head when the cycle is opened, and that it is exactly the
  head and the partition when the cycle is closed: nothing of an outer cycle is in
  it, and every inner cycle is.

The parts of `BuilderInv` and what they are for:

* `StackInv`: `_stack` has the numbered labels, in the order of their numbers.
  `VisitInv`: the tasks are in that order too, a `StartVisit` is of a numbered
  label without a low point, a `ContinueVisit` of one that is closed.
  `PartitionInv` and `EntryFirst`: where the top task will add its component.
* `LowInv`: a label whose visit is over and that is still on the stack leads back
  below itself, and all its children were numbered when it settled. `TreeInv`: the
  labels above a pending one were reached from it. Together they say that when a
  vertex is found to be its own low point, the labels above it are its loop.
* `RegionInv`: while a cycle is built, some set of labels holds everything that
  will be visited, and no edge leaves it except to closed labels. It is what
  confines the second visit of the members, whose numbers were reset, to the cycle.
* `WhiteInv`: an unnumbered child of a pending vertex lies in every set that covers
  the tasks above it, so it is visited before the vertex is. A label that was reset
  has no other witness that it will come back.
* `PlacedInv`: the components placed so far are ordered and disjoint, closed labels
  are placed or head an open cycle, and no edge leads from what an outer partition
  has to what an inner one still collects. `Members` is recursive over the
  partitions; the proof shows that the components on each level determine it.

### SoundnessProofs

`AnalysisIsSound` and `LoopCountBounds`: `SoundUpToErrors` and `LoopCountIsABound` hold
in every state of `RunSpec`, under `SoundDomainAssumption`. `SoundInvariance`:
`SoundInv` is inductive. The Wto enters only through `PartitionsAreOrdered`, which
`WtoIsOrdered` provides, since the analysis does not touch the builder's state
(`BuilderUndisturbed`). `SoundInv` has three parts:

* `Stacked`: the activations of `operator()` are of nested cycles, each at the
  component that the next one iterates.
* `Described`: the pre-invariant of the entry has the initial values, and each
  label's post-invariant has the effect of its instruction on its pre-invariant,
  unless the label has an error.
* `Progress`: for each activation, what its pre-invariants describe so far. The
  invariant of a cycle in iteration is not a fixpoint yet, so the statement is
  relative: `Reached` is the least set of states closed under the edges inside a set
  of labels, started from what enters it, and the components that the activation has
  left behind describe it. When the iteration is stable, or a descending step
  replaces the head's invariant, the entries from the back edges are among what is
  described, so the cycle as a whole describes what enters it from outside.

Nothing in it depends on the number of iterations, so a widening that overshoots,
limits that guess wrong and a narrowing that stops early are all covered. The join
over the predecessors is a fold over a set; `JoinBody` and the lemmas after it show
that it is an upper bound whatever the order.

The errors, for every program, graph and abstract domain, with nothing assumed of
the domain:

* `FailedIsErrors`: `FailedIffErrors` is an invariant of `Spec`;
* `ErrorsStayFinal`: `ErrorsAreFinal` holds of every step.
* Both rest on `ErrorsInv`: there is no error before the analysis, and while it
  runs only labels that are not loop counters have one. The second part is
  needed because `transform_to_post` does not look at the error of a loop
  counter. `StepShape` reduces the actions to the ones that call
  `transform_to_post`, the end of the analysis, and the rest.

### CfgProofs and LoopProofs

For every set of inputs, every frame limit of at least 2 and every index of the
exit label:

* `CfgTypeCorrect`, `EdgesAreMirrored`, `EntryAndExitStayEnds` and
  `FramesStayBounded`: `CfgTypeOK`, `EdgesMirrored`, `EntryAndExitAreEnds` and
  `FramesAreBounded` are invariants of `CfgSpec`.
* They follow from `CfgInvariance`: `CfgInv` is inductive. `CfgInv` is
  stronger because a step of `add_cfg_nodes` relies on what was true when it was
  called: the caller and the label to return to are in the graph, the labels it
  has seen have clones, an activation's frame is no deeper than the number of
  activations allows, labels that are not clones have prefixes of the input,
  the exit is never a caller. The graph part is `GraphOK`, and one lemma for
  each graph operation (`AddEdges`, `Insert`, `remove_child`, `InsertAfter`)
  says that it preserves `GraphOK`; one step per action uses them.
* `OutermostLoopsAreCut` and `CountersKeepAllPaths`: `UncountedLoopsAreInner` and
  `CountersKeepPaths`. The first says what the counters are worth: in each outermost
  loop there is a head that no cycle passes without a counter. The cycles that miss this
  head, which are inner loops, have none. `Closure`, with which the model finds loops, is recursive:
  on a finite graph it is the least closed set (`ClosureIsLeast`), and from there on
  only least sets are used. `InsertedReach` says what `insert_after` does to them:
  reachability between old labels stays. `LoopInvariance`: the graph is finite and
  its labels are no counters before the counting (`PlainInv`), and every label on a
  loop shares the loop with a label whose only successor is its counter (`Cut`), or with
  a head that is still to be visited (`LoopInv`). `LoopInv` is needed because the heads are chosen once, in a graph
  that each insertion changes.

### StackProofs

For every stack size, word, frame size, set of abstract states and set of
workloads:

* `NumericBytesTheorem` and `NumericSizeTheorem`: `NumericBytesAreNumbers` and
  `NumericSizeIsRight` are invariants of `Spec`, with no condition on the stores. The
  bytes of which they are false, those that a register of unknown type leaves at an
  offset that is not fixed, are excepted in the properties, and no others are.
* `StackInv` is the conjunction of the two and of `TypeOK`. None is inductive
  alone: `recompute_stack_numeric_size` takes the size from `num_bytes`, so the
  size is right only if they are, and the place of a pointer in its interval, which
  `TypeOK` has, decides where the size counts from. `AllRight` is what it says of one
  state, and `StepOfOneState` reduces a step to the `AllRight` of the state it changes; one
  lemma per action provides it, on `AllNumWidthFacts` and `RecomputeFacts` (what
  is counted are numbers), `StoredBitsAreRight` and `StoredSizeIsRight` (a store),
  and `AddStep` (a pointer moves: `Advance`, `CallLocal` and `Exit`).

### DecodeProofs

For every program of slots, set of groups, table of prototypes and width of the
fields (an immediate of at least eight bits):

* `SlotsStayCovered`, `InstructionsStayValid` and `TargetsStayCode`:
  `SlotsAreCovered`, `InstructionsAreValid` and `TargetsAreCode` are invariants of
  `Spec`, while a program is decoded and while its encoding is decoded again.
* `DecodeInvariance`: `DecodeInv` is inductive. Beside the two properties it has the
  types of the slots and of the instructions, that a slot behind `pc` is a label, the
  second of a merged pair or has opcode 0 (`SlotsAccounted`), and that the target of
  every decoded jump was checked (`TargetsChecked`). The last two give
  `TargetsAreCode`, which says nothing before the last slot is decoded.
* `Good` is what a branch of the decoder may emit; `EmitKeepsInv` reduces each action
  to it, and one lemma per kind of instruction provides it. `ShiftFacts` says that a
  slot decodes to a shift by 32 exactly when its raw fields say so, which needs that
  the sign extension of no other immediate is 32. Facts about powers of two are
  taken from the number of subsets of a set (`SubsetCount`).
* The encoder writes slots (`InsIsEncoded`, `FlattenFacts`), so that the second
  decoding starts from what the first could have been given.
* `ArgumentsStayCovered`: `ArgumentsAreCovered`. `Rounds` is the invariant of the
  loop of `makeCall`: after a round the singles and the pairs hold the registers up to
  it, or to the next one when a pair has just been taken (`skip`). The loop is a
  fold, which has a history (`TakeHistory`); from there `TakesListsAll` counts the registers.
* `RoundTripHolds`: `RoundTrip`. A program that was decoded is encoded to one that is
  accepted and decoded to the same instructions, for every kind of instruction the encoder keeps.
  Two invariants beside `DecodeInv` carry it:
  * `KeptInv` is what the first decoding establishes. Immediates are not
    negative and fields that the encoder does not write have the values that it
    writes (`Kept`); a conditional jump is as near as the offset it came from
    (`Near`); a shift by 32 is the slot at its label (`ShiftAt`), and a merged pair is a move
    (`PairAt`).
  * `ReplayInv` says that the second decoding has read a prefix of the first program and stands
    on the slot of the next instruction. One lemma per kind shows that its slots are read as
    the instruction they were written for (`InsIsReread`), and `FlattenLayout` where
    these slots are.
  * Labels and slots differ after a merged pair. `SlotsGrowSlower`: encoding moves two instructions no
    farther apart, so a conditional jump keeps fitting into `offset`.
    `ProgHasNoPairs`: two shifts that follow each other in the program did so in the raw one, where
    they would have been merged, so the second decoding merges none.

### ZonesProofs

For every number of variables, every set of assignments, ranges, constraints and
queries, and any sequence of operations on the two zones:

* `ZonesSoundTheorem`: `ZonesAreSound`, the zone domain implements `NumDomain`. No
  assignment, constraint, join, widening or narrowing loses a point.
* `PotentialTheorem`: `PotentialIsAModel`. `AnswersTheorem`: `AnswersAreRight`.
  `LeqTheorem`: `LeqIsSound`.
* `ZonesInvariant`: `ZonesHold` is inductive. It says only that the graphs, potentials
  and flags are well formed and that each potential is a model of its graph. That a
  step keeps the points is no invariant but what each operation does, so the
  argument is about operations:
  * `Gr(V, Q)` is the set of the graphs over the vertices `V` that every valuation of
    the set `Q` satisfies, and `Zone(Q)` that of the zones whose graph is one. An
    operation is sound if it takes `Zone(Q)` to `Zone(R)`, for every `Q`, where `R` has
    the valuations that `Q` leads to. For the algorithms of `graph_ops.hpp`, `R` is
    `Q`: an edge that they add follows from the edges that were there.
  * The potential is one valuation more (`Model`), in place of a separate argument
    for each operation: a graph that holds of every model of its operands holds of
    their potential. Only where the potential changes (`repair_potential`, a new
    vertex, a rebased join) is there something else to show.
  * `repair_potential` is the hard one. The vertices that have got a new potential
    are done; they are taken in the order of their distances, so no edge between
    two of them is violated, and a distance is the weight of a path from the new
    edge, so that none is negative at its source when the graph has a solution. The
    proof also counts: each round takes a vertex from the heap for good, so the number
    of rounds that the model allows is enough to empty it.
  * An assignment goes through a fresh vertex for the new value, which is renamed
    after the old value is gone: `Q` then holds the valuations extended by the value of the
    expression, and `R` what is left after the exchange.
  * `diffcsts_of_assign` and `diffcsts_of_lin_leq` are about sums: what an expression
    has without one or two of its terms is bounded by the bounds of the others
    (`ResidualSound`, `LeqExcess`).
* A loop of the code is a fold over a sequence. `FoldLeft` takes an operator, which
  the provers cannot be given, so for each loop there is the same short chain of
  lemmas: the fold has a history, and a set that holds of the start and is kept by
  each step holds of the end. Sums are `SumFunction`; `SumStep` says that the order
  does not matter.
* Assumptions, beside types: the ranges given to `set` are not empty, and the
  coefficients in a disequation are 1 and -1 (`InputsAssumption`). The analyzer
  builds no others: a disequation is of two variables (`neq`) or of a variable and
  a number. `add_constraint` divides the residual by the coefficient
  and would exclude 0 from `x` for `2x != 1`. The largest machine word is
  positive (`MaxUintAssumption`).

### Only model-checked

* Liveness (`BuilderTerminates`, `AnalysisTerminates`, `ConstructionEnds`) is out of
  this prover's reach.
* `InvariantsAreInductive`: it needs a monotone transformer and checker, which the
  repository does not promise.
* `GraphFollowsCalls` and `DeepCallsAreRejected`: they hold
  of the layouts of functions that the run has; `cfg_called_loop` shows another one.
  `ForwardCallsAreInlined`: of all forward code, but its argument is about the order in
  which the labels of nested inlinings come up.
* `LoadedNumbersAreRight` and `LoadedPointersAreRight`: they hold of some workloads
  only, as `stack_helper` shows.
* `NormalForm`: that closing around the changed edges is enough is a conjecture of the
  code itself for the join, and needs that the shortest-path algorithms find shortest
  paths, not only paths. `UpperBounds` needs `NormalForm`: after the edges of a join or a
  widening are closed, an operand implies them syntactically only if it is closed.
* `StepsAreSound`, `ConstantsFold`, `OnlySmallestSubThrows` and `ViewsInRange`: what the bit operations and the
  conversions between widths compute is defined by recursion over digits. The zones under
  them are those that `ZonesProofs` is about.

## Plan

Done: the modules above, and the theorems about the Wto, the iterator, the graph, the
loop counters, the numeric bytes of the stack, the decoder and the zones.

1. Proofs: the soundness of the interval operations at every width, and of
   `FiniteDomain` over the zones; `NormalForm` without joins.
2. Types, assertions and the rest of the transformer: registers, frames and helper calls
   over a few registers, above the parts that `Alu` and `StackArray` have.
3. The variable registry, and the clearing of thread-local state between analyses;
   the loader's linking of subprograms.

## Not modelled

* Register types and the product domain (`crab/type_domain.cpp`, `crab/rcp.cpp`,
  `crab/ebpf_domain.cpp`), the assertions and the rest of the checker: the
  iterator's model takes any domain, `Alu` has the numbers and `StackArray` the
  stack; packets, contexts, shared memory, atomics and map lookups of the
  transformer are left out with them.
* The stack domain's `initialize_numbers`, meet, widening and narrowing.
* `Interval::lshr` and `ashr`, which only dead branches of `FiniteDomain::apply`
  call.
* `collect_basic_blocks`, which serves the printing of the graph.
* The ELF loader: it reads sections, symbols and BTF data through libraries, and its own
  state is the tables it returns.
* `ir/parse.cpp`, the text form of instructions for the tests; printing,
  statistics, the command line, the call of the Linux verifier and the tables of
  prototypes: formatting, I/O and data.
