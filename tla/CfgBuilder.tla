----------------------------- MODULE CfgBuilder -----------------------------
(***************************************************************************)
(* From an instruction sequence to a control-flow graph                    *)
(* (ir/cfg_builder.cpp, cfg/cfg.hpp, cfg/label.hpp): the instructions are  *)
(* inserted and linked, conditional jumps are split into Assume nodes,     *)
(* calls of local functions are inlined by cloning the callee into a new   *)
(* stack frame, and loop counters are inserted after loop heads.           *)
(*                                                                         *)
(* A label's stack_frame_prefix is the sequence of the calling             *)
(* instructions; to_string of a caller is its prefix followed by its own   *)
(* index. The prefixes that add_cfg_nodes stores in Exit, Call and         *)
(* CallLocal instructions are those of their labels. Instruction indexes   *)
(* have one digit, so the order of prefixes as strings is their order as   *)
(* sequences.                                                              *)
(***************************************************************************)
EXTENDS Integers, FiniteSets, Sequences, SequencesExt

CONSTANTS
  Inputs,              \* the calls of from_sequence considered
  MaxCallStackFrames,  \* MAX_CALL_STACK_FRAMES
  IntMax               \* the index of Label::exit

(* What the builder looks at in an instruction. *)
Kinds == {"undefined", "plain", "exit", "goto", "cond", "call",
          "assume", "counter"}
Instruction == [kind : Kinds, target : Nat]

(* prepare_cfg_options, the options from_sequence reads. *)
CfgOptions == [must_have_exit : BOOLEAN, check_for_termination : BOOLEAN]

ASSUME BuilderAssumption ==
  /\ IntMax \in Nat
  /\ MaxCallStackFrames \in Nat \ {0, 1}
  /\ \A in \in Inputs :
       /\ in.options \in CfgOptions
       /\ \E n \in 0 .. IntMax : in.insts \in [0 .. n - 1 -> Instruction]

VARIABLES
  insts,      \* the InstructionSeq; instruction i has label At(i)
  options,    \* options.cfg_opts
  children,   \* Cfg::neighbours[..].children, a function on the labels so far
  parents,    \* Cfg::neighbours[..].parents
  code,       \* Program::m_instructions
  annotated,  \* the labels of Program::m_assertions
  phase,      \* the part of from_sequence that is running
  next,       \* the next instruction of the loop over insts
  calls,      \* the activations of add_cfg_nodes, innermost last
  heads,      \* the loop heads that for_each_loop_head has left to visit
  error       \* the exception that ended the construction, or "none"

inputVars == <<insts, options>>
graphVars == <<children, parents, code>>
cfgVars == <<inputVars, graphVars, annotated, phase, next, calls, heads, error>>

-----------------------------------------------------------------------------
(***************************************************************************)
(* Labels                                                                  *)
(***************************************************************************)
Label == [prefix : Seq(Int), from : Int, to : Int, special : {0, 1}]

MkLabel(prefix, from, to) ==
  [prefix |-> prefix, from |-> from, to |-> to, special |-> 0]

At(i) == MkLabel(<<>>, i, -1)
entry == At(-1)
exit == At(IntMax)

make_jump(src, target) == MkLabel(target.prefix, src.from, target.from)
make_increment_counter(l) == [l EXCEPT !.special = 1]

(* The stack frame prefix of the labels that a call at `caller` clones. *)
FramePrefix(caller) == Append(caller.prefix, caller.from)

Clone(l, prefix) == MkLabel(prefix, l.from, l.to)

SeqLess(s, t) ==
  \/ Len(s) < Len(t) /\ IsPrefix(s, t)
  \/ \E i \in 1 .. Len(s) :
       /\ i <= Len(t)
       /\ s[i] < t[i]
       /\ \A j \in 1 .. i - 1 : s[j] = t[j]

LabelLess(a, b) ==
  \/ SeqLess(a.prefix, b.prefix)
  \/ /\ a.prefix = b.prefix
     /\ SeqLess(<<a.from, a.to, a.special>>, <<b.from, b.to, b.special>>)

(* Fault: the greatest label is taken. *)
IsLast(a, S) == a \in S /\ \A b \in S : a = b \/ LabelLess(b, a)

(* a is *S.begin(). *)
IsFirst(a, S) == a \in S /\ \A b \in S : a = b \/ LabelLess(a, b)

-----------------------------------------------------------------------------
(***************************************************************************)
(* The graph operations of CfgBuilder, on g = [children, parents].         *)
(***************************************************************************)
Graph == [children |-> children, parents |-> parents]
NodesOf(g) == DOMAIN g.children
Nodes == DOMAIN children

(* add_child for every edge of E between labels of the graph *)
AddEdges(g, E) ==
  LET new == {e \in E : e[1] \in NodesOf(g) /\ e[2] \in NodesOf(g)}
  IN  [children |-> [l \in NodesOf(g) |->
                       g.children[l] \cup {e[2] : e \in {f \in new : f[1] = l}}],
       parents |-> [l \in NodesOf(g) |->
                       g.parents[l] \cup {e[1] : e \in {f \in new : f[2] = l}}]]

(* Fault: the parent stays. *)
RemoveChildOnly(g, a, b) ==
  [children |-> [g.children EXCEPT ![a] = @ \ {b}], parents |-> g.parents]

remove_child(g, a, b) ==
  [children |-> [g.children EXCEPT ![a] = @ \ {b}],
   parents |-> [g.parents EXCEPT ![b] = @ \ {a}]]

(* insert, of every label of S; the caller checks that they are new *)
Insert(g, S) ==
  [children |-> [l \in NodesOf(g) \cup S |->
                   IF l \in NodesOf(g) THEN g.children[l] ELSE {}],
   parents |-> [l \in NodesOf(g) \cup S |->
                   IF l \in NodesOf(g) THEN g.parents[l] ELSE {}]]

(* m_instructions.emplace, of every label of S *)
EmplaceCode(S, ins(_)) ==
  [l \in DOMAIN code \cup S |-> IF l \in DOMAIN code THEN code[l] ELSE ins(l)]

(* Fault: an edge from prev to itself is lost. *)
InsertAfterLosingLoop(g, prev, new) ==
  LET detached ==
        [children |-> [g.children EXCEPT ![prev] = {}],
         parents |-> [l \in NodesOf(g) |->
                        IF l \in g.children[prev] THEN g.parents[l] \ {prev}
                        ELSE g.parents[l]]]
  IN  AddEdges(Insert(detached, {new}),
               {<<prev, new>>} \cup ({new} \X (g.children[prev] \ {prev})))

(* Fault: the edges out of prev stay where they are. *)
InsertBeside(g, prev, new) ==
  AddEdges(Insert(g, {new}),
           IF g.children[prev] = {} THEN {}
           ELSE {<<prev, new>>} \cup ({new} \X g.children[prev]))

(* insert_after: the edges out of prev now leave from new *)
InsertAfter(g, prev, new) ==
  LET detached ==
        [children |-> [g.children EXCEPT ![prev] = {}],
         parents |-> [l \in NodesOf(g) |->
                        IF l \in g.children[prev] THEN g.parents[l] \ {prev}
                        ELSE g.parents[l]]]
  IN  AddEdges(Insert(detached, {new}),
               IF g.children[prev] = {} THEN {}
               ELSE {<<prev, new>>} \cup ({new} \X g.children[prev]))

SetGraph(g) == children' = g.children /\ parents' = g.parents

(* Fault: the error is recorded but the construction counts as done. *)
FailQuietly(e) ==
  /\ phase' = "done"
  /\ error' = e
  /\ UNCHANGED <<inputVars, graphVars, annotated, next, calls, heads>>

Fail(e) ==
  /\ phase' = "error"
  /\ error' = e
  /\ UNCHANGED <<inputVars, graphVars, annotated, next, calls, heads>>

-----------------------------------------------------------------------------
(***************************************************************************)
(* instruction_seq_to_cfg                                                  *)
(***************************************************************************)
N == Cardinality(DOMAIN insts)

CfgInit ==
  /\ \E in \in Inputs : insts = in.insts /\ options = in.options
  /\ children = [l \in {entry, exit} |-> {}]
  /\ parents = [l \in {entry, exit} |-> {}]
  /\ code = [l \in {entry, exit} |-> [kind |-> "undefined", target |-> 0]]
  /\ annotated = {entry, exit}
  /\ phase = "insert"
  /\ next = 0
  /\ calls = <<>>
  /\ heads = {}
  /\ error = "none"

Defined == {i \in DOMAIN insts : insts[i].kind # "undefined"}

(* The first loop, and the edge from the entry. *)
InsertInstructions ==
  /\ phase = "insert"
  /\ LET new == {At(i) : i \in Defined}
     IN  IF N = 0 THEN Fail("empty instruction sequence")
         ELSE IF 0 \notin Defined THEN Fail("no such label")
         ELSE /\ SetGraph(AddEdges(Insert(Graph, new), {<<entry, At(0)>>}))
              /\ code' = EmplaceCode(new, LAMBDA l : insts[l.from])
              /\ phase' = "link"
              /\ UNCHANGED <<inputVars, annotated, next, calls, heads, error>>

has_fall(ins) == ins.kind \notin {"exit", "goto"}

(* Fault: the last instruction falls through to the entry. *)
FallthroughToEntry(i) == IF i + 1 < N THEN At(i + 1) ELSE entry

Fallthrough(i) == IF i + 1 < N THEN At(i + 1) ELSE exit

(* One instruction of the first pass: the edges it adds ... *)
LinkTo(i, E) ==
  IF \A e \in E : e[2] \in Nodes
  THEN /\ SetGraph(AddEdges(Graph, E))
       /\ next' = next + 1
       /\ UNCHANGED <<inputVars, code, annotated, phase, calls, heads, error>>
  ELSE Fail("no such label")

(* ... or, for a conditional jump, the two Assume nodes. *)
Branch(i, target) ==
  LET jump == make_jump(At(i), target)
      fall == make_jump(At(i), Fallthrough(i))
  IN  IF target \notin Nodes THEN Fail("jump to undefined label")
      ELSE IF Fallthrough(i) \notin Nodes THEN Fail("no such label")
      ELSE IF Nodes \cap {jump, fall} # {} THEN Fail("already exists")
      ELSE /\ SetGraph(AddEdges(Insert(Graph, {jump, fall}),
                         {<<At(i), jump>>, <<jump, target>>,
                          <<At(i), fall>>, <<fall, Fallthrough(i)>>}))
           /\ code' = EmplaceCode({jump, fall},
                        LAMBDA l : [kind |-> "assume", target |-> 0])
           /\ next' = next + 1
           /\ UNCHANGED <<inputVars, annotated, phase, calls, heads, error>>

LinkInstruction(i) ==
  /\ phase = "link"
  /\ i = next
  /\ i < N
  /\ LET ins == insts[i]
         target == At(ins.target)
     IN  IF ins.kind = "undefined" THEN LinkTo(i, {})
         ELSE IF i + 1 = N /\ has_fall(ins) /\ options.must_have_exit
              THEN Fail("fallthrough in last instruction")
         ELSE IF ins.kind = "cond" /\ target # Fallthrough(i)
              THEN Branch(i, target)
         ELSE IF ins.kind = "goto" THEN LinkTo(i, {<<At(i), target>>})
         ELSE IF ins.kind = "exit" THEN LinkTo(i, {<<At(i), exit>>})
         ELSE LinkTo(i, {<<At(i), Fallthrough(i)>>})

StartInlining ==
  /\ phase = "link"
  /\ next = N
  /\ phase' = "inline"
  /\ next' = 0
  /\ UNCHANGED <<inputVars, graphVars, annotated, calls, heads, error>>

-----------------------------------------------------------------------------
(***************************************************************************)
(* add_cfg_nodes                                                           *)
(***************************************************************************)
Activation == [caller : Label, exitTo : Label, first : BOOLEAN,
               macro : SUBSET Label, seen : SUBSET Label,
               pending : SUBSET Label, walking : BOOLEAN]

Active == calls[Len(calls)]
Outer == SubSeq(calls, 1, Len(calls) - 1)

(* The call of add_cfg_nodes for the CallLocal at `caller`; n is where the *)
(* loop over insts goes on.                                                *)
add_cfg_nodes(caller, target, activations, n) ==
  IF Cardinality(children[caller]) # 1 THEN Fail("not a single child")
  ELSE /\ \E exit_to_label \in children[caller] :
            calls' = Append(activations,
              [caller |-> caller, exitTo |-> exit_to_label,
               first |-> TRUE, macro |-> {target}, seen |-> {target},
               pending |-> {}, walking |-> TRUE])
       /\ next' = n
       /\ UNCHANGED <<inputVars, graphVars, annotated, phase, heads, error>>

(* The last loop of instruction_seq_to_cfg. *)
InlineNext ==
  /\ phase = "inline"
  /\ calls = <<>>
  /\ next < N
  /\ IF insts[next].kind = "call"
     THEN add_cfg_nodes(At(next), At(insts[next].target), <<>>, next + 1)
     ELSE /\ next' = next + 1
          /\ UNCHANGED <<inputVars, graphVars, annotated, phase, calls, heads, error>>

(* Fault: only the first successor is put on the work list. *)
UnprocessedFirst(m, succ, seen) ==
  {c \in succ \ seen : \A d \in succ \ seen : ~LabelLess(d, c)}

(* The successors that are put on the work list.  A label enters           *)
(* seen_labels together with its first such successor.                     *)
Unprocessed(m, succ, seen) ==
  {c \in succ \ seen : c = m => \A d \in succ \ seen : ~LabelLess(d, m)}

(* One round of the loop over macro_labels: m is cloned into `label`. *)
CloneInto(m, label) ==
  LET prefix == FramePrefix(Active.caller)
      g1 == AddEdges(Insert(Graph, {label}),
              (IF Active.first THEN {<<Active.caller, label>>} ELSE {})
                \cup {<<Clone(p, prefix), label>> : p \in parents[m]})
      new == Unprocessed(m, g1.children[m] \ {exit}, Active.seen)
  IN  /\ SetGraph(IF exit \in g1.children[m]
                  THEN AddEdges(g1, {<<label, Active.exitTo>>})
                  ELSE g1)
      /\ code' = EmplaceCode({label}, LAMBDA l : code[m])
      /\ calls' = Append(Outer,
           [Active EXCEPT
              !.first = FALSE,
              !.macro = (@ \ {m}) \cup new,
              !.seen = IF new = {} THEN @ ELSE @ \cup {m}])
      /\ UNCHANGED <<inputVars, annotated, phase, next, heads, error>>

CloneLabel ==
  /\ phase = "inline"
  /\ calls # <<>>
  /\ Active.walking
  /\ \E m \in Active.macro :
       /\ IsFirst(m, Active.macro)
       /\ LET prefix == FramePrefix(Active.caller)
          IN  IF m.prefix = prefix THEN Fail("illegal recursion")
              ELSE IF m \notin Nodes THEN Fail("no such label")
              ELSE IF Clone(m, prefix) \in Nodes THEN Fail("already exists")
              ELSE CloneInto(m, Clone(m, prefix))

(* After the loop: the edge from the caller to its old successor goes. *)
EndWalk ==
  /\ phase = "inline"
  /\ calls # <<>>
  /\ Active.walking
  /\ Active.macro = {}
  /\ SetGraph(remove_child(Graph, Active.caller, Active.exitTo))
  /\ calls' = Append(Outer,
       [Active EXCEPT !.walking = FALSE, !.pending = Active.seen])
  /\ UNCHANGED <<inputVars, code, annotated, phase, next, heads, error>>

(* The calls in the clones of seen_labels that are still to be inlined. *)
NestedCalls ==
  {m \in Active.pending :
     code[Clone(m, FramePrefix(Active.caller))].kind = "call"}

(* Faults: the depth is off by one, either way. *)
FrameDepthOneLess(caller) == Len(caller.prefix) + 1
FrameDepthOneMore(caller) == Len(caller.prefix) + 3

(* stack_frame_depth *)
FrameDepth(caller) == Len(caller.prefix) + 2

InlineNested ==
  /\ phase = "inline"
  /\ calls # <<>>
  /\ ~Active.walking
  /\ \E m \in NestedCalls :
       /\ IsFirst(m, NestedCalls)
       /\ LET label == Clone(m, FramePrefix(Active.caller))
          IN  IF FrameDepth(Active.caller) >= MaxCallStackFrames
              THEN Fail("too many call stack frames")
              ELSE add_cfg_nodes(label, At(code[label].target),
                     Append(Outer, [Active EXCEPT !.pending = @ \ {m}]), next)

Return ==
  /\ phase = "inline"
  /\ calls # <<>>
  /\ ~Active.walking
  /\ NestedCalls = {}
  /\ calls' = Outer
  /\ UNCHANGED <<inputVars, graphVars, annotated, phase, next, heads, error>>

(* Fault: the loop over the instructions starts again. *)
InlineAgain ==
  /\ phase = "inline"
  /\ calls = <<>>
  /\ next = N
  /\ next' = 0
  /\ UNCHANGED <<inputVars, graphVars, annotated, phase, calls, heads, error>>

EndInlining ==
  /\ phase = "inline"
  /\ calls = <<>>
  /\ next = N
  /\ phase' = "built"
  /\ UNCHANGED <<inputVars, graphVars, annotated, next, calls, heads, error>>

-----------------------------------------------------------------------------
(***************************************************************************)
(* from_sequence                                                           *)
(***************************************************************************)

(* The labels reachable from S along the edges ch. *)
Closure(ch, S) ==
  LET closure[T \in SUBSET DOMAIN ch] ==
        LET U == T \cup UNION {ch[l] : l \in T}
        IN  IF U = T THEN T ELSE closure[U]
  IN  closure[S]

ReachableFrom(S) == Closure(children, S)

(* The loops: maximal sets of labels that reach one another. *)
Loops ==
  LET onLoop == {l \in Nodes : /\ l \in ReachableFrom({entry})
                               /\ l \in ReachableFrom(children[l])}
  IN  {{m \in onLoop : /\ m \in ReachableFrom({l})
                       /\ l \in ReachableFrom({m})} : l \in onLoop}

(* The labels for_each_loop_head visits: one for each outermost cycle of   *)
(* the Wto, hence one of each loop (module Wto says which).                *)
HeadChoices ==
  LET loops == Loops
  IN  {H \in SUBSET UNION loops : \A L \in loops : Cardinality(H \cap L) = 1}

BuildWto ==
  /\ phase = "built"
  /\ heads' \in IF options.check_for_termination THEN HeadChoices ELSE {{}}
  /\ phase' = "count"
  /\ UNCHANGED <<inputVars, graphVars, annotated, next, calls, error>>

(* insert_after for one loop head.  The label of a counter is new: no      *)
(* other label is special.                                                 *)
InsertCounter(h) ==
  /\ phase = "count"
  /\ h \in heads
  /\ SetGraph(InsertAfter(Graph, h, make_increment_counter(h)))
  /\ code' = EmplaceCode({make_increment_counter(h)},
                         LAMBDA l : [kind |-> "counter", target |-> 0])
  /\ heads' = heads \ {h}
  /\ UNCHANGED <<inputVars, annotated, phase, next, calls, error>>

(* set_assertions for every label *)
SetAssertions ==
  /\ phase = "count"
  /\ heads = {}
  /\ annotated' = annotated \cup Nodes
  /\ phase' = "done"
  /\ UNCHANGED <<inputVars, graphVars, next, calls, heads, error>>

CfgDone == phase \in {"done", "error"}

CfgStep ==
  \/ InsertInstructions
  \/ \E i \in DOMAIN insts : LinkInstruction(i)
  \/ StartInlining
  \/ InlineNext
  \/ CloneLabel
  \/ EndWalk
  \/ InlineNested
  \/ Return
  \/ EndInlining
  \/ BuildWto
  \/ \E h \in heads : InsertCounter(h)
  \/ SetAssertions

CfgNext == CfgStep \/ (CfgDone /\ UNCHANGED cfgVars)

CfgSpec == CfgInit /\ [][CfgNext]_cfgVars

(* from_sequence is one sequential computation: it goes on until it is     *)
(* done.  This is weak fairness of CfgStep, since a CfgStep changes the    *)
(* state and, as the check for deadlock shows, is enabled until then.      *)
CfgFairSpec == CfgSpec /\ ([]<>CfgDone \/ []<><<CfgStep>>_cfgVars)

-----------------------------------------------------------------------------
(***************************************************************************)
(* Properties.                                                             *)
(***************************************************************************)

(* Every variable of the builder stays in its range. *)
CfgTypeOK ==
  /\ children \in [Nodes -> SUBSET Nodes]
  /\ parents \in [Nodes -> SUBSET Nodes]
  /\ code \in [Nodes -> Instruction]
  /\ {entry, exit} \subseteq Nodes
  /\ Nodes \subseteq Label
  /\ annotated \subseteq Nodes
  /\ phase \in {"insert", "link", "inline", "built", "count", "done",
                "error"}
  /\ next \in 0 .. N
  /\ calls \in Seq(Activation)
  /\ heads \subseteq Nodes
  /\ error = "none" <=> phase # "error"

(* Each of add_child, remove_child and insert_after updates two sets that  *)
(* the fixpoint iterator reads in different places: children_of builds the *)
(* Wto, parents_of feeds join_all_prevs.  They describe the same edges.    *)
EdgesMirrored ==
  /\ \A a \in Nodes : \A b \in children[a] : a \in parents[b]
  /\ \A b \in Nodes : \A a \in parents[b] : b \in children[a]

(* No label is in a deeper frame than the stack of MAX_CALL_STACK_FRAMES   *)
(* times EBPF_SUBPROGRAM_STACK_SIZE bytes has room for, whatever calls     *)
(* whatever: each call of a clone moves r10 down by one frame.             *)
FramesAreBounded == \A l \in Nodes : Len(l.prefix) < MaxCallStackFrames

(* Nothing leads to the entry and nothing leaves the exit: the asserts of  *)
(* add_child, which a release build does not check.                        *)
EntryAndExitAreEnds == parents[entry] = {} /\ children[exit] = {}

(***************************************************************************)
(* The reference: the successors of a label when calls push a frame and    *)
(* exits pop it.  No instruction falls off the end of the sequence.        *)
(***************************************************************************)
InFrame(prefix, i) == MkLabel(prefix, i, -1)

CallSuccessors(l) ==
  LET ins == insts[l.from]
  IN  IF l = entry THEN {At(0)}
      ELSE IF l = exit THEN {}
      ELSE IF l.to # -1 THEN {InFrame(l.prefix, l.to)}
      ELSE CASE ins.kind = "exit" ->
                  {IF l.prefix = <<>> THEN exit
                   ELSE InFrame(Front(l.prefix), Last(l.prefix) + 1)}
             [] ins.kind = "goto" -> {InFrame(l.prefix, ins.target)}
             [] ins.kind = "call" -> {InFrame(FramePrefix(l), ins.target)}
             [] ins.kind = "cond" /\ ins.target # l.from + 1 ->
                  {MkLabel(l.prefix, l.from, t) : t \in {ins.target, l.from + 1}}
             [] OTHER -> {InFrame(l.prefix, l.from + 1)}

(* The graph is the call semantics: from each label the program can be at  *)
(* the edges lead exactly where calls, returns, branches and fallthrough   *)
(* lead, in the right stack frame.  Code the graph misses is never         *)
(* analyzed.                                                               *)
GraphFollowsCalls ==
  (phase = "built" /\ options.must_have_exit) =>
    \A l \in ReachableFrom({entry}) : children[l] = CallSuccessors(l)

(* A call in the graph leads into a clone of the function it calls, in a   *)
(* frame of its own: "Finally, recurse to replace any nested function      *)
(* macros".                                                                *)
NestedCallsAreInlined ==
  phase = "built" =>
    \A l \in {m \in ReachableFrom({entry}) : code[m].kind = "call"} :
      children[l] = {InFrame(FramePrefix(l), code[l].target)}

(* The functions called from the code that is reached from instruction i   *)
(* without entering a call.                                                *)
Callees(i) ==
  LET flow[T \in SUBSET DOMAIN insts] ==
        LET U == T \cup
                 {j \in DOMAIN insts : \E k \in T :
                    \/ j = k + 1 /\ has_fall(insts[k])
                    \/ j = insts[k].target /\ insts[k].kind \in {"goto", "cond"}}
        IN  IF U = T THEN T ELSE flow[U]
  IN  {insts[j].target : j \in {k \in flow[{i}] : insts[k].kind = "call"}}

(* The functions that run in the n-th frame.  Every call of the sequence   *)
(* is inlined, also the ones of functions that nobody calls.               *)
FunctionsAtDepth ==
  LET level[n \in Nat \ {0}] ==
        IF n = 1 THEN DOMAIN insts
        ELSE UNION {Callees(i) : i \in level[n - 1] \cap DOMAIN insts}
  IN  level

TooDeep == FunctionsAtDepth[MaxCallStackFrames + 1] # {}

(* Recursion, and calls nested deeper than MAX_CALL_STACK_FRAMES frames,   *)
(* never get through: a graph is only built when the calls fit.            *)
DeepCallsAreRejected ==
  phase \in {"built", "count", "done"} => ~TooDeep

(* Jumps and calls lead forward only. *)
ForwardLayout ==
  \A i \in DOMAIN insts :
    insts[i].kind \in {"goto", "cond", "call"} => insts[i].target > i

(* What else is rejected for its calls.  Code whose jumps and calls lead   *)
(* forward is inlined whenever its calls fit.  In other code a label may   *)
(* come up twice although they fit, when a function jumps back to an exit  *)
(* that was cloned before, or calls twice and precedes its own caller; the *)
(* builder then throws.                                                    *)
ForwardCallsAreInlined ==
  error \in {"illegal recursion", "too many call stack frames",
             "already exists", "not a single child"} =>
    TooDeep \/ ~ForwardLayout

(* With check_for_termination each outermost loop has a head through which *)
(* no cycle passes but by a counter.  A cycle without a counter is then an *)
(* inner loop that misses this head: for_each_loop_head visits the         *)
(* outermost heads only.                                                   *)
UncountedLoopsAreInner ==
  (phase = "done" /\ options.check_for_termination) =>
    LET uncounted == [l \in Nodes |-> {c \in children[l] : c.special = 0}]
    IN  \A L \in Loops : \E h \in L :
          h.special = 0 /\ h \notin Closure(uncounted, uncounted[h])

(* insert_after puts a counter on the edges out of a head and changes no   *)
(* other path: with the counters skipped the graph is the same.            *)
CountersKeepPaths ==
  [][phase = "count" =>
       \A l \in Nodes :
         children[l] = UNION {IF c \in Nodes THEN {c} ELSE children'[c] :
                                c \in children'[l]}]_cfgVars

(* The construction ends, also for recursive programs. *)
ConstructionEnds == <>CfgDone
=============================================================================
