---------------------------- MODULE FwdAnalyzer ----------------------------
(***************************************************************************)
(* The forward fixpoint iterator (fwd_analyzer.cpp): the constructor       *)
(* builds the Wto of the program's control-flow graph, then `run` visits   *)
(* its components in order and iterates every cycle, first upwards with    *)
(* widening, then downwards with narrowing.  The recursion of operator()   *)
(* over nested cycles is the stack `work`.                                 *)
(*                                                                         *)
(* The abstract domain is a parameter: the iterator only uses its order,   *)
(* its lattice operations, the transformer and the checker.                *)
(***************************************************************************)
EXTENDS Wto

CONSTANTS
  ExitLabel,              \* Label::exit
  Instructions,           \* what instruction_at and assertions_at return
  Programs,               \* the programs considered, with the option they are run with
  D,                      \* EbpfDomain
  Bottom,                 \* EbpfDomain::bottom()
  EntryInv,               \* EbpfDomain::setup_entry
  LeqD(_, _),             \* EbpfDomain::operator<=
  JoinD(_, _),            \* EbpfDomain::operator|
  MeetD(_, _),            \* EbpfDomain::operator&
  WidenD(_, _),           \* EbpfDomain::widen, without the constants
  NarrowD(_, _),          \* EbpfDomain::narrow
  ConstantLimits,         \* constant_limits of ebpf_domain.cpp
  TransformD(_, _),       \* ebpf_domain_transform
  CheckD(_, _),           \* ebpf_domain_check finds no error
  IsCounter(_),           \* the instruction is an IncrementLoopCounter
  InitCounters(_, _),     \* ebpf_domain_initialize_loop_counter for all heads
  LoopCountUb(_),         \* EbpfDomain::get_loop_count_upper_bound
  DescendingIterations    \* _descending_iterations

ASSUME AnalyzerAssumption ==
  /\ ExitLabel \in Labels
  /\ DescendingIterations \in Nat
  /\ Programs \subseteq [cfg : CfgGraphs, instr : [Labels -> Instructions],
                         check_for_termination : BOOLEAN]
  /\ \A i \in Instructions : IsCounter(i) \in BOOLEAN

ASSUME DomainAssumption ==
  /\ {Bottom, EntryInv, ConstantLimits} \subseteq D
  /\ \A d, e \in D :
       /\ {JoinD(d, e), MeetD(d, e), WidenD(d, e), NarrowD(d, e)} \subseteq D
       /\ LeqD(d, e) \in BOOLEAN
  /\ \A d \in D : LoopCountUb(d) \in Nat
  /\ \A i \in Instructions, d \in D :
       /\ TransformD(i, d) \in D
       /\ CheckD(i, d) \in BOOLEAN

VARIABLES
  phase,         \* "build": in Wto(cfg), "run": visiting, "done": returned
  instr,         \* Program::instruction_at
  termination,   \* thread_local_options.cfg_opts.check_for_termination
  pre,           \* InvariantMapPair::pre
  post,          \* InvariantMapPair::post
  errors,        \* the labels whose InvariantMapPair has an error
  failed,        \* AnalysisResult::failed
  skip,          \* _skip
  work,          \* the activations of operator(), innermost last
  maxLoopCount,  \* AnalysisResult::max_loop_count
  exitValue      \* what AnalysisResult::exit_value is read from; set at the end

resultVars == <<pre, post, errors, failed>>
fwdVars == <<phase, instr, termination, resultVars, skip, work, maxLoopCount, exitValue>>
vars == <<wtoVars, fwdVars>>

(* An activation: the loop over the components of the Wto ("top"), or of   *)
(* one cycle during the increasing ("asc") or decreasing ("desc") sequence.*)
Frame == [mode : {"top", "asc", "desc"}, cycle : Cycles,
          todo : Seq(Component), invariant : D, iteration : Nat]

Init ==
  /\ WtoInit
  /\ phase = "build"
  /\ instr = [l \in Labels |-> CHOOSE i \in Instructions : TRUE]
  /\ termination = FALSE
  /\ pre = [l \in Labels |-> Bottom]
  /\ post = [l \in Labels |-> Bottom]
  /\ errors = {}
  /\ failed = FALSE
  /\ skip = TRUE
  /\ work = <<>>
  /\ maxLoopCount = 0
  /\ exitValue = Bottom

BuildWto ==
  /\ phase = "build"
  /\ BuildStep
  /\ UNCHANGED fwdVars

(* run, before the loop over the components.  The program is chosen here:  *)
(* the Wto depends on its graph only.                                      *)
StartAnalysis ==
  /\ phase = "build"
  /\ WtoDone
  /\ phase' = "run"
  /\ \E p \in Programs :
       /\ p.cfg = children
       /\ instr' = p.instr
       /\ termination' = p.check_for_termination
  /\ pre' = [pre EXCEPT ![EntryLabel] =
               IF termination' THEN InitCounters(EntryInv, LoopHeads)
               ELSE EntryInv]
  /\ work' = <<[mode |-> "top", cycle |-> NoCycle, todo |-> InOrder(NoCycle),
                invariant |-> Bottom, iteration |-> 0]>>
  /\ UNCHANGED <<wtoVars, post, errors, failed, skip, maxLoopCount, exitValue>>

-----------------------------------------------------------------------------
JoinOver(S) == FoldSet(JoinD, Bottom, S)

parents_of(l) == {p \in Labels : l \in children[p]}

(* Fault: the predecessors inside deeper cycles are left out. *)
JoinOuterPrevs(l) ==
  IF l = EntryLabel THEN pre[l]
  ELSE JoinOver({post[p] : p \in {q \in parents_of(l) :
                            ~DeeperNesting(nesting[q], nesting[l])}})

join_all_prevs(l) ==
  IF l = EntryLabel THEN pre[l] ELSE JoinOver({post[p] : p \in parents_of(l)})

(* Fault: labels with an error are transformed again. *)
HasNoErrorYet(l) == FALSE

(* A label that has an error is not checked or transformed again, and the  *)
(* bound of a loop counter is only checked at the end.                     *)
HasError(l) == ~IsCounter(instr[l]) /\ l \in errors

NewError(l, d) ==
  ~IsCounter(instr[l]) /\ l \notin errors /\ ~CheckD(instr[l], d)

transform_to_post(l, d) ==
  /\ errors' = IF NewError(l, d) THEN errors \cup {l} ELSE errors
  /\ failed' = (failed \/ NewError(l, d))
  /\ post' = IF HasError(l) \/ NewError(l, d) THEN post
             ELSE [post EXCEPT ![l] = TransformD(instr[l], d)]

extrapolate(before, after, iteration) ==
  IF iteration < 2 THEN JoinD(before, after)
  ELSE IF iteration = 2 THEN MeetD(WidenD(before, after), ConstantLimits)
  ELSE WidenD(before, after)

refine(before, after, iteration) ==
  IF iteration = 1 THEN MeetD(before, after) ELSE NarrowD(before, after)

-----------------------------------------------------------------------------
Current == work[Len(work)]
Callers == SubSeq(work, 1, Len(work) - 1)

(* The component the current activation visits next is done or entered. *)
Advance == Append(Callers, [Current EXCEPT !.todo = Tail(@)])

(* Start an iteration of the current cycle from invariant d. *)
Iterate(mode, c, d, i) ==
  [mode |-> mode, cycle |-> c, todo |-> InOrder(c),
   invariant |-> d, iteration |-> i]

(* The loop over the components of a cycle leaves out the head, which was  *)
(* visited before it.                                                      *)
SkipHead(c) ==
  /\ phase = "run"
  /\ Current.todo # <<>>
  /\ Current.cycle = c
  /\ Head(Current.todo) = [label |-> c, cycle |-> FALSE]
  /\ work' = Advance
  /\ UNCHANGED <<wtoVars, phase, instr, termination, resultVars, skip, maxLoopCount, exitValue>>

(* operator()(const Label&) *)
VisitLabel(l) ==
  /\ phase = "run"
  /\ Current.todo # <<>>
  /\ Current.cycle # l
  /\ Head(Current.todo) = [label |-> l, cycle |-> FALSE]
  /\ skip' = (skip /\ l # EntryLabel)
  /\ work' = Advance
  /\ IF skip' THEN UNCHANGED resultVars
     ELSE /\ pre' = [pre EXCEPT ![l] = join_all_prevs(l)]
          /\ transform_to_post(l, join_all_prevs(l))
  /\ UNCHANGED <<wtoVars, phase, instr, termination, maxLoopCount, exitValue>>

(* The invariant a cycle starts from: what its head is entered with from   *)
(* outside the cycle.                                                      *)
EnteringInvariant(c) ==
  IF skip THEN pre[EntryLabel]
  ELSE JoinOver({post[p] : p \in {q \in parents_of(c) :
                            ~DeeperNesting(nesting[q], nesting[c])}})

(* operator()(const std::shared_ptr<WtoCycle>&), up to the first iteration *)
(* of its loop.                                                            *)
EnterCycle(c) ==
  /\ phase = "run"
  /\ Current.todo # <<>>
  /\ Head(Current.todo) = [label |-> c, cycle |-> TRUE]
  /\ skip' = (skip /\ EntryLabel \notin Members[c])
  /\ IF skip' THEN work' = Advance /\ UNCHANGED resultVars
     ELSE /\ pre' = [pre EXCEPT ![c] = EnteringInvariant(c)]
          /\ transform_to_post(c, EnteringInvariant(c))
          /\ work' = Append(Advance, Iterate("asc", c, EnteringInvariant(c), 1))
  /\ UNCHANGED <<wtoVars, phase, instr, termination, maxLoopCount, exitValue>>

(* An iteration of cycle c is over: all its components have been visited.  *)
EndOfIteration(c, mode) ==
  /\ phase = "run"
  /\ Current.todo = <<>>
  /\ Current.cycle = c
  /\ Current.mode = mode
  /\ UNCHANGED <<wtoVars, phase, instr, termination, skip, maxLoopCount, exitValue>>

(* Fault: the operands of the comparison are swapped. *)
StableSwapped(c) == LeqD(Current.invariant, join_all_prevs(c))

(* new_pre <= invariant *)
Stable(c) == LeqD(join_all_prevs(c), Current.invariant)

AscendStable(c) ==
  /\ EndOfIteration(c, "asc")
  /\ Stable(c)
  /\ pre' = [pre EXCEPT ![c] = join_all_prevs(c)]
  /\ transform_to_post(c, join_all_prevs(c))
  /\ work' = Append(Callers, Iterate("desc", c, join_all_prevs(c), 1))

AscendGrow(c) ==
  /\ EndOfIteration(c, "asc")
  /\ ~Stable(c)
  /\ LET inv == extrapolate(Current.invariant, join_all_prevs(c),
                            Current.iteration)
     IN  /\ pre' = [pre EXCEPT ![c] = inv]
         /\ transform_to_post(c, inv)
         /\ work' = Append(Callers, Iterate("asc", c, inv, Current.iteration + 1))

(* Fault: no bound on the descending sequence. *)
DescendEndUnbounded(c) ==
  /\ EndOfIteration(c, "desc")
  /\ LeqD(Current.invariant, join_all_prevs(c))
  /\ work' = Callers
  /\ UNCHANGED resultVars

(* The descending sequence ends: nothing to refine, or too many steps. *)
DescendEnd(c) ==
  /\ EndOfIteration(c, "desc")
  /\ \/ LeqD(Current.invariant, join_all_prevs(c))
     \/ Current.iteration > DescendingIterations
  /\ work' = Callers
  /\ UNCHANGED resultVars

DescendRefine(c) ==
  /\ EndOfIteration(c, "desc")
  /\ ~LeqD(Current.invariant, join_all_prevs(c))
  /\ Current.iteration <= DescendingIterations
  /\ LET inv == refine(Current.invariant, join_all_prevs(c), Current.iteration)
     IN  /\ pre' = [pre EXCEPT ![c] = inv]
         /\ transform_to_post(c, inv)
         /\ work' = Append(Callers, Iterate("desc", c, inv, Current.iteration + 1))

(* find_termination_errors and check_loop_bound *)
TerminationErrors ==
  {l \in Labels : /\ pre[l] # Bottom
                  /\ IsCounter(instr[l])
                  /\ ~CheckD(instr[l], pre[l])}

(* Fault: only the counters at the exit. *)
MaxLoopCountAtExit == Max({0, LoopCountUb(post[ExitLabel])})

max_loop_count == Max({0} \cup {LoopCountUb(post[l]) : l \in Labels})

(* run, after the loop over the components. *)
Finish ==
  /\ phase = "run"
  /\ Current.mode = "top"
  /\ Current.todo = <<>>
  /\ phase' = "done"
  /\ LET found == IF ~failed /\ termination THEN TerminationErrors
                  ELSE {}
     IN  /\ errors' = errors \cup found
         /\ failed' = (failed \/ found # {})
  /\ maxLoopCount' = IF ~failed' /\ termination THEN max_loop_count
                     ELSE maxLoopCount
  /\ exitValue' = post[ExitLabel]
  /\ work' = <<>>
  /\ UNCHANGED <<wtoVars, instr, termination, pre, post, skip>>

AnalysisStep ==
  \/ BuildWto
  \/ StartAnalysis
  \/ \E l \in Labels :
       \/ SkipHead(l)
       \/ VisitLabel(l)
       \/ EnterCycle(l)
       \/ AscendStable(l)
       \/ AscendGrow(l)
       \/ DescendEnd(l)
       \/ DescendRefine(l)
  \/ Finish

Done == phase = "done"

Next == AnalysisStep \/ (Done /\ UNCHANGED vars)

Spec == Init /\ [][Next]_vars

(* The analysis is one sequential computation. *)
FairSpec == Spec /\ WF_vars(AnalysisStep)

(* AnalysisResult::find_first_error: the labels it may return. *)
ReportedErrors == {l \in errors : pre[l] # Bottom}
=============================================================================
