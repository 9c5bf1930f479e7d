-------------------------------- MODULE Wto --------------------------------
(***************************************************************************)
(* The iterative construction of a weak topological ordering               *)
(* (cfg/wto.cpp, cfg/wto.hpp): WtoBuilder turns a control-flow graph into  *)
(* the hierarchy of loops over which the fixpoint iterator runs.           *)
(*                                                                         *)
(* Labels are integers: only their order matters, because the children of  *)
(* a label are kept in an ordered set.  A cycle is identified by its head: *)
(* a label whose depth-first number has become DFN_INF is never numbered   *)
(* again, so it heads at most one cycle.  NoCycle stands for the null      *)
(* cycle pointer; as a partition it is the top level of the Wto.           *)
(***************************************************************************)
EXTENDS Integers, FiniteSets, Sequences, SequencesExt

CONSTANTS
  Labels,    \* the labels of the control-flow graph
  EntryLabel,  \* Label::entry
  NoCycle,   \* the null pointer to a cycle
  Absent,    \* "no entry" in the map _containing_cycle
  DFN_INF,   \* std::numeric_limits<int>::max(); bounds _num
  CfgGraphs  \* the control-flow graphs considered, as children maps

ASSUME LabelsAssumption ==
  /\ IsFiniteSet(Labels)
  /\ Labels \subseteq Int
  /\ EntryLabel \in Labels

ASSUME SentinelAssumption ==
  /\ NoCycle \notin Labels
  /\ Absent \notin Labels \cup {NoCycle}

ASSUME DfnAssumption == DFN_INF \in Nat \ {0}

ASSUME CfgAssumption ==
  \A g \in CfgGraphs :
    /\ g \in [Labels -> SUBSET Labels]
    /\ \A l \in Labels : EntryLabel \notin g[l]

VARIABLES
  children,      \* Cfg::neighbours[..].children; fixed while the builder runs
  dfn,           \* WtoVertexData::dfn
  headDfn,       \* WtoVertexData::head_dfn
  num,           \* WtoBuilder::_num
  stack,         \* WtoBuilder::_stack, top at the end
  visitStack,    \* WtoBuilder::_visit_stack, top at the end
  components,    \* the partitions: of the Wto (NoCycle) and of each cycle
  parentCycle,   \* WtoCycle::_containing_cycle, indexed by the cycle's head
  containing     \* Wto::_containing_cycle

builderVars == <<dfn, headDfn, num, stack, visitStack,
                 components, parentCycle, containing>>

wtoVars == <<children, builderVars>>

Cycles == Labels \cup {NoCycle}

(* A CycleOrLabel: the vertex `label`, or the cycle headed by `label`. *)
Component == [label : Labels, cycle : BOOLEAN]

(***************************************************************************)
(* A task of _visit_stack.  The tasks PushSuccessors that one call pushes  *)
(* for the children of a vertex lie next to each other, the smallest label *)
(* on top, with the same partition: they are one frame whose `todo` is the *)
(* set of children left, taken in increasing order.  The partition of a    *)
(* PushSuccessors or StartVisit task is always that of its containing      *)
(* cycle; the cycle of a ContinueVisit task is the one its vertex heads.   *)
(***************************************************************************)
Task ==
  [type : {"PushSuccessors"}, todo : SUBSET Labels, partition : Cycles]
    \cup
  [type : {"StartVisit", "ContinueVisit"}, vertex : Labels,
   partition : Cycles]

PushTasks(vs, todo, part) ==
  IF todo = {} THEN vs
  ELSE Append(vs, [type |-> "PushSuccessors", todo |-> todo,
                   partition |-> part])

VisitTask(type, v, part) ==
  [type |-> type, vertex |-> v, partition |-> part]

Top == visitStack[Len(visitStack)]
Below == SubSeq(visitStack, 1, Len(visitStack) - 1)

(* map::emplace: keeps the value of a key that is already there. *)
Emplace(m, k, v) == IF m[k] = Absent THEN [m EXCEPT ![k] = v] ELSE m

WtoInit ==
  /\ children \in CfgGraphs
  /\ dfn = [l \in Labels |-> 0]
  /\ headDfn = [l \in Labels |-> 0]
  /\ num = 0
  /\ stack = <<>>
  /\ visitStack = PushTasks(<<>>, {EntryLabel}, NoCycle)
  /\ components = [c \in Cycles |-> <<>>]
  /\ parentCycle = [l \in Labels |-> NoCycle]
  /\ containing = [l \in Labels |-> Absent]

(***************************************************************************)
(* WtoBuilder::push_successors                                             *)
(***************************************************************************)

(* ++_num *)
NextNumber == num + 1

(* Fault: the task is read but not popped. *)
PeekSuccessor(v) == visitStack

(* Pop the task of the smallest label of the top frame. *)
PopSuccessor(v) ==
  IF Top.todo = {v} THEN Below
  ELSE Append(Below, [Top EXCEPT !.todo = @ \ {v}])

(* Fault: the numbers from before the members of a cycle were reset. *)
UnvisitedBeforeReset(v, d) == {c \in children[v] : dfn[c] = 0}

(* The children that get a PushSuccessors task: the unnumbered ones. *)
Unvisited(v, d) == {c \in children[v] : d[c] = 0}

PushSuccessors(v) ==
  /\ visitStack # <<>>
  /\ Top.type = "PushSuccessors"
  /\ v \in Top.todo
  /\ \A w \in Top.todo : v <= w
  /\ IF dfn[v] # 0
     THEN /\ visitStack' = PopSuccessor(v)
          /\ UNCHANGED <<dfn, num, stack>>
     ELSE /\ NextNumber < DFN_INF
          /\ num' = NextNumber
          /\ dfn' = [dfn EXCEPT ![v] = NextNumber]
          /\ stack' = Append(stack, v)
          /\ visitStack' =
               PushTasks(Append(PopSuccessor(v),
                                VisitTask("StartVisit", v, Top.partition)),
                         Unvisited(v, dfn'), Top.partition)
  /\ UNCHANGED <<children, headDfn, components, parentCycle, containing>>

(***************************************************************************)
(* WtoBuilder::start_visit                                                 *)
(***************************************************************************)

(* Fault: finished children count as reaching their old head. *)
MinDfnOfFinished(c) == IF headDfn[c] # 0 THEN headDfn[c] ELSE dfn[c]

MinDfn(c) ==
  IF headDfn[c] # 0 /\ dfn[c] # DFN_INF THEN headDfn[c] ELSE dfn[c]

(* Fault: only strictly smaller numbers make a loop. *)
IsStrictLoop(v) == \E c \in children[v] : MinDfn(c) < dfn[v]

(* The flag `loop`: some child is, or reaches, a vertex numbered at or     *)
(* before v.                                                               *)
IsLoop(v) == \E c \in children[v] : MinDfn(c) <= dfn[v]

(* The final value of the local variable head_dfn. *)
IsHeadDfn(v, h) ==
  /\ h <= dfn[v]
  /\ \A c \in children[v] : h <= MinDfn(c)

(* Fault: the vertex itself is left on the stack. *)
PositionAfter(v) ==
  1 + CHOOSE i \in 1 .. Len(stack) :
        /\ stack[i] = v
        /\ \A j \in i + 1 .. Len(stack) : stack[j] # v

(* Where the loop "while (element != vertex)" stops popping. *)
PositionOf(v) ==
  CHOOSE i \in 1 .. Len(stack) :
    /\ stack[i] = v
    /\ \A j \in i + 1 .. Len(stack) : stack[j] # v

(* The entries that loop pops before it meets v. *)
Above(v) == {stack[i] : i \in PositionOf(v) + 1 .. Len(stack)}

(* v heads no component yet: some vertex below it on the stack does. *)
StartVisitInner(v) ==
  \E h \in {MinDfn(c) : c \in children[v]} :
    /\ IsHeadDfn(v, h)
    /\ h # dfn[v]
    /\ headDfn' = [headDfn EXCEPT ![v] = h]
    /\ visitStack' = Below
    /\ UNCHANGED <<dfn, stack, components, parentCycle, containing>>

(* v is a component of its own: one entry is popped, v joins the partition. *)
StartVisitVertex(v) ==
  /\ IsHeadDfn(v, dfn[v])
  /\ ~IsLoop(v)
  /\ dfn' = [dfn EXCEPT ![v] = DFN_INF]
  /\ headDfn' = [headDfn EXCEPT ![v] = dfn[v]]
  /\ stack' = SubSeq(stack, 1, Len(stack) - 1)
  /\ components' =
       [components EXCEPT
          ![Top.partition] = Append(@, [label |-> v, cycle |-> FALSE])]
  /\ containing' = Emplace(containing, v, Top.partition)
  /\ visitStack' = Below
  /\ UNCHANGED parentCycle

(* v heads a cycle: its members are unnumbered and visited again, inside   *)
(* the new cycle.                                                          *)
StartVisitCycle(v) ==
  /\ IsHeadDfn(v, dfn[v])
  /\ IsLoop(v)
  /\ dfn' = [l \in Labels |->
               IF l = v THEN DFN_INF ELSE IF l \in Above(v) THEN 0 ELSE dfn[l]]
  /\ headDfn' = [l \in Labels |->
               IF l = v THEN dfn[v] ELSE IF l \in Above(v) THEN 0 ELSE headDfn[l]]
  /\ stack' = SubSeq(stack, 1, PositionOf(v) - 1)
  /\ parentCycle' = [parentCycle EXCEPT ![v] = Top.partition]
  /\ visitStack' =
       PushTasks(Append(Below, VisitTask("ContinueVisit", v, Top.partition)),
                 Unvisited(v, dfn'), v)
  /\ UNCHANGED <<components, containing>>

StartVisit(v) ==
  /\ visitStack # <<>>
  /\ Top.type = "StartVisit"
  /\ v = Top.vertex
  /\ \/ StartVisitInner(v)
     \/ StartVisitVertex(v)
     \/ StartVisitCycle(v)
  /\ UNCHANGED <<children, num>>

(***************************************************************************)
(* WtoBuilder::continue_visit                                              *)
(***************************************************************************)
ContinueVisit(v) ==
  /\ visitStack # <<>>
  /\ Top.type = "ContinueVisit"
  /\ v = Top.vertex
  /\ components' =
       [components EXCEPT
          ![v] = Append(@, [label |-> v, cycle |-> FALSE]),
          ![Top.partition] = Append(@, [label |-> v, cycle |-> TRUE])]
  /\ containing' = Emplace(containing, v, v)
  /\ visitStack' = Below
  /\ UNCHANGED <<children, dfn, headDfn, num, stack, parentCycle>>

WtoDone == visitStack = <<>>

BuildStep ==
  \E v \in Labels : PushSuccessors(v) \/ StartVisit(v) \/ ContinueVisit(v)

(***************************************************************************)
(* The finished Wto.                                                       *)
(***************************************************************************)

(* Fault: the containing cycle of a cycle, also for plain labels. *)
HeadOfCycle(l) ==
  IF containing[l] \in {Absent, NoCycle} THEN NoCycle ELSE parentCycle[l]

(* Wto::head: the head of the innermost cycle around a label that the      *)
(* label does not head itself, or NoCycle.                                 *)
HeadOf(l) ==
  IF containing[l] \in {Absent, NoCycle} THEN NoCycle
  ELSE IF containing[l] # l THEN containing[l]
  ELSE parentCycle[l]

(* Wto::collect_heads and Wto::nesting: innermost head first. *)
nesting ==
  LET heads[l \in Labels] ==
        IF HeadOf(l) = NoCycle THEN <<>>
        ELSE <<HeadOf(l)>> \o heads[HeadOf(l)]
  IN  heads

(* WtoNesting::operator> : a longer nesting with the same outermost heads. *)
DeeperNesting(m, n) == Len(m) > Len(n) /\ IsSuffix(n, m)

(* Wto::begin/end and WtoCycle::begin/end: the partitions are stored in    *)
(* reverse.                                                                *)
InOrder(c) == Reverse(components[c])

(* is_component_member: all labels inside the cycle headed by c. *)
Members ==
  LET inside[c \in Cycles] ==
        UNION {IF x.cycle THEN inside[x.label] ELSE {x.label} :
                 x \in ToSet(components[c])}
  IN  inside

(* Wto::for_each_loop_head: the labels the callback is invoked for. *)
LoopHeads == {x.label : x \in {y \in ToSet(components[NoCycle]) : y.cycle}}

WtoNext ==
  \/ BuildStep
  \/ WtoDone /\ UNCHANGED wtoVars

WtoSpec == WtoInit /\ [][WtoNext]_wtoVars

(* The builder is one sequential loop that runs until its stack is empty. *)
WtoFairSpec == WtoSpec /\ WF_wtoVars(BuildStep)

-----------------------------------------------------------------------------
(***************************************************************************)
(* Properties.                                                             *)
(***************************************************************************)

(* Every variable of the builder stays in its range. *)
WtoTypeOK ==
  /\ children \in [Labels -> SUBSET Labels]
  /\ dfn \in [Labels -> 0 .. DFN_INF]
  /\ headDfn \in [Labels -> 0 .. DFN_INF]
  /\ num \in 0 .. DFN_INF - 1
  /\ stack \in Seq(Labels)
  /\ visitStack \in Seq(Task)
  /\ components \in [Cycles -> Seq(Component)]
  /\ parentCycle \in [Labels -> Cycles]
  /\ containing \in [Labels -> Cycles \cup {Absent}]

(* The labels reachable from S along edges that stay inside `within`. *)
ReachableFrom(S, within) ==
  {l \in Labels :
     \A C \in SUBSET Labels :
       (/\ S \subseteq C
        /\ \A u \in C : children[u] \cap within \subseteq C) => l \in C}

(* The labels in the order of the Wto, all levels flattened. *)
Flat ==
  LET flat[c \in Cycles] ==
        FlattenSeq([i \in 1 .. Len(components[c]) |->
                      LET x == InOrder(c)[i]
                      IN  IF x.cycle THEN flat[x.label] ELSE <<x.label>>])
  IN  flat[NoCycle]

(* The heads of all cycles around a label, its own cycle included. *)
HeadsAround(l) == {c \in Labels : components[c] # <<>> /\ l \in Members[c]}

(* A label numbered by push_successors is placed in the Wto exactly once   *)
(* and a label the entry does not reach not at all: the iterator would     *)
(* skip a label that start_visit or continue_visit lost.                   *)
EachReachableLabelOnce ==
  WtoDone =>
    /\ IsInjective(Flat)
    /\ ToSet(Flat) = ReachableFrom({EntryLabel}, Labels)

(* The labels of a component of some partition. *)
LabelsIn(x) == IF x.cycle THEN Members[x.label] ELSE {x.label}

(* A partition lists the labels of its cycle, each in one component, and   *)
(* the head of the cycle on its own.                                       *)
IsPartition(c) ==
  LET K == InOrder(c)
  IN  /\ Members[c] = UNION {LabelsIn(K[i]) : i \in DOMAIN K}
      /\ \A i, j \in DOMAIN K : i # j => LabelsIn(K[i]) \cap LabelsIn(K[j]) = {}
      /\ \A i \in DOMAIN K : K[i].cycle => K[i].label # c /\ K[i].label \in Members[K[i].label]
      /\ c \in Members[c] => \E i \in DOMAIN K : K[i] = [label |-> c, cycle |-> FALSE]

(* No edge leads from a component to an earlier one of its partition, or   *)
(* from a plain label to itself, but to the head of the cycle.             *)
IsOrdered(c) ==
  LET K == InOrder(c)
  IN  \A i, j \in DOMAIN K : \A p \in LabelsIn(K[i]), l \in LabelsIn(K[j]) :
        l \in children[p] /\ l # c => i < j \/ (i = j /\ K[i].cycle)

(* The result is a weak topological ordering: an edge goes forward, stays  *)
(* inside a cycle, or goes back to the head of a cycle around its source.  *)
(* The iterator detects stability only at heads and visits a component     *)
(* once per iteration, so every other backward edge would make it stop     *)
(* before the fixpoint.  The entry comes first: until it is met labels are *)
(* skipped.                                                                *)
PartitionsAreOrdered ==
  WtoDone =>
    /\ Members \in [Cycles -> SUBSET Labels]
    /\ \A c \in Cycles : IsPartition(c) /\ IsOrdered(c)
    /\ \A l \in Members[NoCycle] : children[l] \subseteq Members[NoCycle]
    /\ components[NoCycle] # <<>>
    /\ InOrder(NoCycle)[1] = [label |-> EntryLabel, cycle |-> FALSE]

(* A cycle is a real loop: inside it every member reaches the head again   *)
(* and is reached from it, so widening is only applied where the program   *)
(* can iterate.                                                            *)
CyclesAreLoops ==
  WtoDone =>
    \A h \in Labels : components[h] # <<>> =>
      /\ components[h][Len(components[h])] = [label |-> h, cycle |-> FALSE]
      /\ Members[h] \subseteq ReachableFrom({h}, Members[h])
      /\ \A l \in Members[h] :
            \E c \in children[l] \cap Members[h] :
              h \in ReachableFrom({c}, Members[h])

(* When start_visit finds no loop it pops one entry of _stack without      *)
(* looking at it: that entry is the visited vertex.  When it finds a loop  *)
(* the vertex is on the stack, so the popping loop ends.                   *)
PopsTheVisitedVertex ==
  (~WtoDone /\ Top.type = "StartVisit") =>
    /\ Top.vertex \in ToSet(stack)
    /\ (IsHeadDfn(Top.vertex, dfn[Top.vertex]) /\ ~IsLoop(Top.vertex)) =>
         stack[Len(stack)] = Top.vertex

(* The heads nesting() collects through the weak pointers of               *)
(* _containing_cycle are the cycles that really hold the label in their    *)
(* partitions, innermost first, the cycle it heads left out.               *)
NestingMatchesPartitions ==
  WtoDone =>
    \A l \in ToSet(Flat) :
      /\ ToSet(nesting[l]) = HeadsAround(l) \ {l}
      /\ \A i, j \in DOMAIN nesting[l] :
           i < j => nesting[l][i] \in Members[nesting[l][j]]

(* Where the builder stops for good: at the end of every graph. *)
BuilderTerminates == <>WtoDone
=============================================================================
