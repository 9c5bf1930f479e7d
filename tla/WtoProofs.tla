----------------------------- MODULE WtoProofs -----------------------------
(***************************************************************************)
(* Theorems about the construction of the weak topological ordering, for   *)
(* every control-flow graph.                                               *)
(***************************************************************************)
EXTENDS Wto, Induction, SequenceTheorems

(* The tasks and the partitions the builder works on. *)
BuilderTypes ==
  /\ children \in CfgGraphs
  /\ visitStack \in Seq(Task)
  /\ components \in [Cycles -> Seq(Component)]

LEMMA FrontType ==
  ASSUME NEW A, NEW w \in Seq(A), w # <<>>
  PROVE  /\ SubSeq(w, 1, Len(w) - 1) \in Seq(A)
         /\ Len(SubSeq(w, 1, Len(w) - 1)) = Len(w) - 1
         /\ \A i \in 1 .. Len(w) - 1 : SubSeq(w, 1, Len(w) - 1)[i] = w[i]
         /\ w[Len(w)] \in A
<1> DEFINE n == Len(w) - 1
<1>1. n \in Nat /\ n \in Int /\ 1 \in Int
  OBVIOUS
<1>2. \A i \in 1 .. n : w[i] \in A
  OBVIOUS
<1>0. w[Len(w)] \in A
  OBVIOUS
<1> HIDE DEF n
<1>3. /\ SubSeq(w, 1, n) \in Seq(A)
      /\ Len(SubSeq(w, 1, n)) = IF 1 <= n THEN n - 1 + 1 ELSE 0
      /\ \A i \in 1 .. n - 1 + 1 : SubSeq(w, 1, n)[i] = w[1 + i - 1]
  BY <1>1, <1>2, SubSeqProperties
<1>4. Len(SubSeq(w, 1, n)) = n /\ \A i \in 1 .. n : SubSeq(w, 1, n)[i] = w[i]
  BY <1>1, <1>3
<1> QED
  BY <1>0, <1>3, <1>4 DEF n

LEMMA TaskFacts ==
  ASSUME NEW t \in Task
  PROVE  /\ t.type \in {"PushSuccessors", "StartVisit", "ContinueVisit"}
         /\ t.partition \in Cycles
         /\ t.type = "PushSuccessors" =>
              /\ t.todo \in SUBSET Labels
              /\ \A S \in SUBSET Labels : [t EXCEPT !.todo = S] \in Task
         /\ t.type # "PushSuccessors" => t.vertex \in Labels
  BY DEF Task

LEMMA PushTasksType ==
  ASSUME NEW vs \in Seq(Task), NEW S \in SUBSET Labels, NEW p \in Cycles
  PROVE  PushTasks(vs, S, p) \in Seq(Task)
<1>1. [type |-> "PushSuccessors", todo |-> S, partition |-> p] \in Task
  BY DEF Task
<1> QED
  BY <1>1 DEF PushTasks

LEMMA VisitTaskType ==
  ASSUME NEW type \in {"StartVisit", "ContinueVisit"}, NEW v \in Labels, NEW p \in Cycles
  PROVE  VisitTask(type, v, p) \in Task
  BY DEF VisitTask, Task

LEMMA BuilderTypesInit ==
  ASSUME WtoInit
  PROVE  BuilderTypes
<1>1. <<>> \in Seq(Task) /\ {EntryLabel} \in SUBSET Labels /\ NoCycle \in Cycles
  BY LabelsAssumption DEF Cycles
<1>2. visitStack \in Seq(Task)
  BY <1>1, PushTasksType DEF WtoInit
<1> QED
  BY <1>2 DEF WtoInit, BuilderTypes

LEMMA BuilderTypesStep ==
  ASSUME BuilderTypes, BuildStep
  PROVE  BuilderTypes'
<1>1. PICK v \in Labels : PushSuccessors(v) \/ StartVisit(v) \/ ContinueVisit(v)
  BY DEF BuildStep
<1>2. visitStack # <<>> /\ UNCHANGED children
  BY <1>1 DEF PushSuccessors, StartVisit, ContinueVisit
<1>3. Below \in Seq(Task) /\ Top \in Task
  BY <1>2, FrontType DEF BuilderTypes, Below, Top
<1>4. Top.partition \in Cycles /\ v \in Cycles
  BY <1>3, TaskFacts DEF Cycles
<1>5. \A S \in SUBSET Labels : \A d : Unvisited(v, d) \in SUBSET Labels
  BY CfgAssumption DEF BuilderTypes, Unvisited
<1>6. CASE PushSuccessors(v)
  <2>1. PopSuccessor(v) \in Seq(Task)
    <3>1. [Top EXCEPT !.todo = Top.todo \ {v}] \in Task
      BY <1>3, <1>6, TaskFacts DEF PushSuccessors
    <3> QED
      BY <1>3, <3>1 DEF PopSuccessor
  <2>2. Append(PopSuccessor(v), VisitTask("StartVisit", v, Top.partition)) \in Seq(Task)
    <3>1. VisitTask("StartVisit", v, Top.partition) \in Task
      BY <1>4, VisitTaskType
    <3> QED
      BY <2>1, <3>1
  <2>3. \A S \in SUBSET Labels :
          PushTasks(Append(PopSuccessor(v), VisitTask("StartVisit", v, Top.partition)),
                    S, Top.partition) \in Seq(Task)
    BY <1>4, <2>2, PushTasksType
  <2>4. visitStack' \in Seq(Task)
    BY <1>5, <1>6, <2>1, <2>3 DEF PushSuccessors
  <2> QED
    BY <1>2, <1>6, <2>4 DEF BuilderTypes, PushSuccessors
<1>7. CASE StartVisit(v)
  <2>1. visitStack' \in Seq(Task)
    <3>1. CASE StartVisitInner(v) \/ StartVisitVertex(v)
      BY <1>3, <3>1 DEF StartVisitInner, StartVisitVertex
    <3>2. CASE StartVisitCycle(v)
      <4>1. VisitTask("ContinueVisit", v, Top.partition) \in Task
        BY <1>4, VisitTaskType
      <4>2. Append(Below, VisitTask("ContinueVisit", v, Top.partition)) \in Seq(Task)
        BY <1>3, <4>1
      <4>3. \A S \in SUBSET Labels :
              PushTasks(Append(Below, VisitTask("ContinueVisit", v, Top.partition)), S, v)
                \in Seq(Task)
        BY <1>4, <4>2, PushTasksType
      <4> QED
        BY <1>5, <3>2, <4>3 DEF StartVisitCycle
    <3> QED
      BY <1>7, <3>1, <3>2 DEF StartVisit
  <2>2. components' \in [Cycles -> Seq(Component)]
    <3>1. \A b \in BOOLEAN : [label |-> v, cycle |-> b] \in Component
      BY DEF Component
    <3>2. CASE UNCHANGED components
      BY <3>2 DEF BuilderTypes
    <3>3. CASE StartVisitVertex(v)
      <4>1. components[Top.partition] \in Seq(Component)
        BY <1>4 DEF BuilderTypes
      <4>2. Append(components[Top.partition], [label |-> v, cycle |-> FALSE]) \in Seq(Component)
        BY <3>1, <4>1, AppendProperties
      <4> QED
        BY <3>3, <4>2 DEF BuilderTypes, StartVisitVertex
    <3> QED
      BY <1>7, <3>2, <3>3 DEF StartVisit, StartVisitInner, StartVisitCycle
  <2> QED
    BY <1>2, <2>1, <2>2 DEF BuilderTypes
<1>8. CASE ContinueVisit(v)
  <2>1. [label |-> v, cycle |-> TRUE] \in Component /\ [label |-> v, cycle |-> FALSE] \in Component
    BY DEF Component
  <2>2. components' \in [Cycles -> Seq(Component)]
    <3>1. components[Top.partition] \in Seq(Component) /\ components[v] \in Seq(Component)
      BY <1>4 DEF BuilderTypes
    <3>2. /\ Append(components[Top.partition], [label |-> v, cycle |-> TRUE]) \in Seq(Component)
          /\ Append(components[v], [label |-> v, cycle |-> FALSE]) \in Seq(Component)
      BY <2>1, <3>1, AppendProperties
    <3> QED
      BY <1>8, <3>2 DEF BuilderTypes, ContinueVisit
  <2> QED
    BY <1>2, <1>3, <1>8, <2>2 DEF BuilderTypes, ContinueVisit
<1> QED
  BY <1>1, <1>6, <1>7, <1>8
-----------------------------------------------------------------------------
(***************************************************************************)
(* The inductive invariant of the builder.                                 *)
(*                                                                         *)
(* A label is untouched or reset (number 0), on _stack, or closed (number  *)
(* DFN_INF).  On _stack it is pending while its StartVisit task is there,  *)
(* and settled afterwards.                                                 *)
(***************************************************************************)
Numbered(l) == dfn[l] # 0 /\ dfn[l] # DFN_INF

Pending(l) == Numbered(l) /\ headDfn[l] = 0

Settled(l) == Numbered(l) /\ headDfn[l] # 0

Tasks == 1 .. Len(visitStack)

IsPush(i) == visitStack[i].type = "PushSuccessors"

IsStart(i, v) == visitStack[i].type = "StartVisit" /\ visitStack[i].vertex = v

IsContinue(i, h) == visitStack[i].type = "ContinueVisit" /\ visitStack[i].vertex = h

(* The cycle that h heads is being built. *)
Building(h) == \E i \in Tasks : IsContinue(i, h)

(* The partitions that may still grow. *)
IsOpen(c) == c = NoCycle \/ Building(c)

(* The number of the vertex of a task: the cycle heads keep theirs. *)
NumberOf(i) ==
  IF visitStack[i].type = "StartVisit" THEN dfn[visitStack[i].vertex]
  ELSE headDfn[visitStack[i].vertex]

NumberTypes ==
  /\ dfn \in [Labels -> 0 .. DFN_INF]
  /\ headDfn \in [Labels -> 0 .. DFN_INF]
  /\ num \in 0 .. DFN_INF - 1
  /\ stack \in Seq(Labels)

(* _stack holds the numbered labels in increasing order. *)
StackInv ==
  /\ \A i \in 1 .. Len(stack) : Numbered(stack[i]) /\ dfn[stack[i]] <= num
  /\ \A l \in Labels : Numbered(l) => \E i \in 1 .. Len(stack) : stack[i] = l
  /\ \A i, j \in 1 .. Len(stack) : i < j => dfn[stack[i]] < dfn[stack[j]]
  /\ \A l \in Labels : dfn[l] = 0 => headDfn[l] = 0

(* The tasks of _visit_stack, from the outermost to the innermost. *)
VisitInv ==
  /\ \A i \in Tasks : \A v \in Labels : IsStart(i, v) => Pending(v)
  /\ \A v \in Labels : Pending(v) => \E i \in Tasks : IsStart(i, v)
  /\ \A i \in Tasks : \A h \in Labels : IsContinue(i, h) =>
       dfn[h] = DFN_INF /\ headDfn[h] # 0 /\ headDfn[h] <= num
  /\ \A i, j \in Tasks : i < j /\ ~IsPush(i) /\ ~IsPush(j) => NumberOf(i) < NumberOf(j)
  /\ \A i \in Tasks : IsPush(i) /\ i > 1 =>
       /\ ~IsPush(i - 1)
       /\ visitStack[i].todo \subseteq children[visitStack[i - 1].vertex]

(* A task adds to the innermost partition that was opened below it. *)
PartitionInv ==
  \A i \in Tasks, p \in Cycles : visitStack[i].partition = p =>
    /\ p = NoCycle \/ \E j \in Tasks : j < i /\ IsContinue(j, p)
    /\ \A j \in Tasks, h \in Labels :
         j < i /\ IsContinue(j, h) => p # NoCycle /\ headDfn[h] <= headDfn[p]

(* The entry is at the bottom. *)
EntryFirst ==
  /\ visitStack # <<>> /\ IsPush(1) =>
       /\ Len(visitStack) = 1
       /\ visitStack[1].todo = {EntryLabel}
       /\ \A l \in Labels : dfn[l] = 0
  /\ visitStack # <<>> /\ ~IsPush(1) => IsStart(1, EntryLabel)
  /\ visitStack # <<>> => visitStack[1].partition = NoCycle
  /\ visitStack = <<>> =>
       /\ components[NoCycle] # <<>>
       /\ components[NoCycle][Len(components[NoCycle])] = [label |-> EntryLabel, cycle |-> FALSE]

(* A settled label leads back to a label below it on _stack, in the same   *)
(* cycle; its children were numbered before it settled.                    *)
LowInv ==
  \A u \in Labels : Settled(u) =>
    /\ headDfn[u] < dfn[u]
    /\ \E s \in Labels : /\ Numbered(s) /\ dfn[s] = headDfn[u]
                         /\ \E q \in Labels : s \in children[q]
    /\ \A h \in Labels : Building(h) /\ headDfn[h] < dfn[u] => headDfn[h] < headDfn[u]
    /\ \A c \in children[u] : dfn[c] # 0 /\ headDfn[u] <= dfn[c]
    /\ \A c \in children[u], v \in Labels :
         Pending(v) /\ dfn[u] < dfn[v] => dfn[c] = DFN_INF \/ dfn[c] < dfn[v]

(* The labels above a pending one were reached from it. *)
TreeInv ==
  \A v, u \in Labels :
    /\ Pending(v) /\ Numbered(u) /\ dfn[v] < dfn[u]
    /\ \A h \in Labels : Building(h) => ~(dfn[v] < headDfn[h] /\ headDfn[h] < dfn[u])
    => \E w \in Labels :
         /\ Numbered(w) /\ dfn[v] <= dfn[w] /\ dfn[w] < dfn[u] /\ u \in children[w]
         /\ Pending(w) \/ (Settled(u) /\ headDfn[w] <= headDfn[u])

(* Y holds what is visited while the cycle of h is built. *)
Region(i, h, Y) ==
  /\ h \in Y
  /\ \A z \in Y : z = h \/ dfn[z] = 0 \/ headDfn[h] < dfn[z]
  /\ \A z \in Y : \A c \in children[z] : c \in Y \/ dfn[c] = DFN_INF
  /\ \A u \in Labels : Numbered(u) /\ headDfn[h] < dfn[u] => u \in Y
  /\ \A j \in Tasks : i < j /\ IsPush(j) => visitStack[j].todo \subseteq Y

RegionInv ==
  \A i \in Tasks, h \in Labels : IsContinue(i, h) =>
    \E Y \in SUBSET Labels : Region(i, h, Y)

(* C holds what the tasks above i will visit. *)
Covers(i, C) ==
  /\ \A j \in Tasks : i < j /\ IsPush(j) =>
       \A y \in visitStack[j].todo : dfn[y] = 0 => y \in C
  /\ \A y \in C : \A x \in children[y] : dfn[x] = 0 => x \in C

(* The unnumbered children of a vertex will be visited before its task is  *)
(* on top again.                                                           *)
WhiteInv ==
  \A i \in Tasks : ~IsPush(i) =>
    \A z \in children[visitStack[i].vertex] : dfn[z] = 0 =>
      \A C \in SUBSET Labels : Covers(i, C) => z \in C

LabelsAt(m, x) == IF x.cycle THEN m[x.label] ELSE {x.label}

(* m is what Members stands for, C the partitions. *)
IsMembers(C, m) ==
  /\ m \in [Cycles -> SUBSET Labels]
  /\ \A c \in Cycles : \A l \in Labels :
       l \in m[c] <=> \E i \in 1 .. Len(C[c]) : l \in LabelsAt(m, C[c][i])

(* The partition of c so far, in the reverse of its final order. *)
PartInv(g, C, m, c) ==
  /\ \A i, j \in 1 .. Len(C[c]) :
       i # j => LabelsAt(m, C[c][i]) \cap LabelsAt(m, C[c][j]) = {}
  /\ \A i \in 1 .. Len(C[c]) : C[c][i].cycle =>
       /\ C[c][i].label # c
       /\ C[c][i].label \in m[C[c][i].label]
  /\ c \in m[c] => \E i \in 1 .. Len(C[c]) : C[c][i] = [label |-> c, cycle |-> FALSE]
  /\ \A i, j \in 1 .. Len(C[c]) :
       \A p \in LabelsAt(m, C[c][i]), l \in LabelsAt(m, C[c][j]) :
         l \in g[p] /\ l # c => j < i \/ (i = j /\ C[c][i].cycle)

Ordered(g, C, m) == IsMembers(C, m) /\ \A c \in Cycles : PartInv(g, C, m, c)

(* What is in the partitions is closed, and so are the children of what is *)
(* in them; the partitions that may still grow share no label, and no edge *)
(* leads from an outer one into an inner one.                              *)
PlacedInv(m) ==
  /\ Ordered(children, components, m)
  /\ \A c \in Cycles, h \in Labels : \A i \in 1 .. Len(components[c]) :
       components[c][i].cycle /\ components[c][i].label = h =>
         /\ ~Building(h)
         /\ c = NoCycle \/ headDfn[c] < headDfn[h]
  /\ \A c \in Cycles : components[c] # <<>> => c = NoCycle \/ dfn[c] = DFN_INF
  /\ \A c \in Cycles : \A l \in m[c] :
       /\ dfn[l] = DFN_INF /\ ~Building(l)
       /\ \A k \in children[l] : dfn[k] = DFN_INF
  /\ \A l \in Labels : dfn[l] = DFN_INF =>
       Building(l) \/ \E c \in Cycles : IsOpen(c) /\ l \in m[c]
  /\ \A c, b \in Cycles : IsOpen(c) /\ IsOpen(b) /\ c # b => m[c] \cap m[b] = {}
  /\ \A h \in Labels, c \in Cycles :
       Building(h) /\ IsOpen(c) /\ (c = NoCycle \/ headDfn[c] < headDfn[h]) =>
         \A p \in m[c] : children[p] \cap (m[h] \cup {h}) = {}

BuilderInv ==
  /\ BuilderTypes
  /\ NumberTypes
  /\ StackInv
  /\ VisitInv
  /\ PartitionInv
  /\ EntryFirst
  /\ LowInv
  /\ TreeInv
  /\ RegionInv
  /\ WhiteInv
  /\ \E m : PlacedInv(m)

-----------------------------------------------------------------------------
(***************************************************************************)
(* What the invariant says about the numbers.                              *)
(***************************************************************************)

LEMMA GraphFacts ==
  ASSUME BuilderTypes
  PROVE  /\ \A l \in Labels : children[l] \in SUBSET Labels
         /\ \A l \in Labels : EntryLabel \notin children[l]
  BY CfgAssumption DEF BuilderTypes

LEMMA NumberFacts ==
  ASSUME NumberTypes, StackInv
  PROVE  /\ \A l \in Labels : dfn[l] \in Nat /\ headDfn[l] \in Nat
         /\ \A l \in Labels : Numbered(l) => 0 < dfn[l] /\ dfn[l] <= num /\ dfn[l] < DFN_INF
         /\ \A k, l \in Labels : Numbered(k) /\ dfn[k] = dfn[l] => k = l
         /\ num \in Nat /\ num < DFN_INF /\ DFN_INF \in Nat
<1>1. DFN_INF \in Nat /\ num \in Nat /\ num < DFN_INF
  BY DfnAssumption DEF NumberTypes
<1>2. \A l \in Labels : dfn[l] \in Nat /\ headDfn[l] \in Nat
  BY <1>1 DEF NumberTypes
<1>3. ASSUME NEW l \in Labels, Numbered(l)
      PROVE  0 < dfn[l] /\ dfn[l] <= num /\ dfn[l] < DFN_INF
  <2>1. PICK i \in 1 .. Len(stack) : stack[i] = l
    BY <1>3 DEF StackInv
  <2>2. dfn[l] <= num
    BY <2>1 DEF StackInv
  <2> QED
    BY <1>1, <1>2, <1>3, <2>2 DEF Numbered
<1>4. ASSUME NEW k \in Labels, NEW l \in Labels, Numbered(k), dfn[k] = dfn[l]
      PROVE  k = l
  <2>1. Numbered(l)
    BY <1>4 DEF Numbered
  <2>2. PICK i \in 1 .. Len(stack) : stack[i] = k
    BY <1>4 DEF StackInv
  <2>3. PICK j \in 1 .. Len(stack) : stack[j] = l
    BY <2>1 DEF StackInv
  <2>4. ~(i < j) /\ ~(j < i)
    BY <1>2, <1>4, <2>2, <2>3 DEF StackInv
  <2>5. i = j
    <3>1. i \in Int /\ j \in Int
      OBVIOUS
    <3> QED
      BY <2>4, <3>1
  <2> QED
    BY <2>2, <2>3, <2>5
<1> QED
  BY <1>1, <1>2, <1>3, <1>4

(* Labels that only lead back to each other and to nothing below them      *)
(* cannot be on _stack.                                                    *)
LEMMA NoSettledBetween ==
  ASSUME NumberTypes, StackInv, LowInv, NEW b \in Nat, NEW e \in Nat,
         \A u \in Labels : Numbered(u) /\ b < dfn[u] /\ dfn[u] < e =>
           Settled(u) /\ b < headDfn[u]
  PROVE  \A u \in Labels : ~(Numbered(u) /\ b < dfn[u] /\ dfn[u] < e)
<1> DEFINE T == {dfn[u] : u \in {l \in Labels : Numbered(l) /\ b < dfn[l] /\ dfn[l] < e}}
<1> SUFFICES ASSUME T # {} PROVE FALSE
  OBVIOUS
<1>1. T \subseteq Nat
  BY NumberFacts
<1>2. PICK n \in T : \A k \in T : n <= k
  <2> HIDE DEF T
  <2> QED BY <1>1, LeastNatural
<1>3. PICK u \in Labels : Numbered(u) /\ b < dfn[u] /\ dfn[u] < e /\ dfn[u] = n
  BY <1>2
<1>4. Settled(u) /\ b < headDfn[u] /\ headDfn[u] < dfn[u]
  BY <1>3 DEF LowInv
<1>5. PICK s \in Labels : Numbered(s) /\ dfn[s] = headDfn[u]
  BY <1>4 DEF LowInv
<1>6. dfn[s] \in Nat /\ dfn[u] \in Nat
  BY NumberFacts
<1>7. dfn[s] \in T
  BY <1>3, <1>4, <1>5, <1>6
<1> QED
  BY <1>2, <1>3, <1>4, <1>5, <1>6, <1>7

LEMMA TopTask ==
  ASSUME BuilderTypes, visitStack # <<>>
  PROVE  /\ Len(visitStack) \in Tasks /\ Len(visitStack) \in Nat /\ Len(visitStack) > 0
         /\ \A i \in Tasks : i \in Int /\ i <= Len(visitStack) /\ visitStack[i] \in Task
         /\ Len(Below) = Len(visitStack) - 1
         /\ \A i \in Tasks : i < Len(visitStack) => i \in 1 .. Len(visitStack) - 1
         /\ \A i \in 1 .. Len(visitStack) - 1 : i \in Tasks /\ Below[i] = visitStack[i]
<1>1. visitStack \in Seq(Task)
  BY DEF BuilderTypes
<1>2. Len(visitStack) \in Nat /\ Len(visitStack) > 0
  BY <1>1
<1>3. \A i \in Tasks : visitStack[i] \in Task
  BY <1>1 DEF Tasks
<1>4. Len(Below) = Len(visitStack) - 1 /\ \A i \in 1 .. Len(visitStack) - 1 : Below[i] = visitStack[i]
  BY <1>1, FrontType DEF Below
<1> QED
  BY <1>2, <1>3, <1>4 DEF Tasks

LEMMA TaskOrder ==
  ASSUME BuilderTypes, NumberTypes, VisitInv, NEW i \in Tasks, NEW j \in Tasks,
         ~IsPush(i), ~IsPush(j)
  PROVE  /\ i < j => NumberOf(i) < NumberOf(j)
         /\ NumberOf(i) = NumberOf(j) => i = j
         /\ NumberOf(i) \in Nat
         /\ visitStack[i].vertex \in Labels
<1>1. i \in Int /\ j \in Int
  BY DEF Tasks
<1>2. visitStack[i] \in Task /\ visitStack[j] \in Task
  BY DEF Tasks, BuilderTypes
<1>3. visitStack[i].vertex \in Labels /\ visitStack[j].vertex \in Labels
  BY <1>2, TaskFacts DEF IsPush
<1>4. NumberOf(i) \in Nat /\ NumberOf(j) \in Nat
  BY <1>3, DfnAssumption DEF NumberOf, NumberTypes
<1>5. (i < j => NumberOf(i) < NumberOf(j)) /\ (j < i => NumberOf(j) < NumberOf(i))
  BY DEF VisitInv
<1> QED
  BY <1>1, <1>3, <1>4, <1>5

(* The white children of a vertex are gone when its task is on top. *)
LEMMA NoWhiteChild ==
  ASSUME BuilderTypes, WhiteInv, visitStack # <<>>, ~IsPush(Len(visitStack)),
         NEW z \in children[Top.vertex]
  PROVE  dfn[z] # 0
<1>1. Len(visitStack) \in Tasks /\ Len(visitStack) \in Nat
  BY TopTask
<1>2. Covers(Len(visitStack), {})
  BY <1>1 DEF Covers, Tasks
<1>3. {} \in SUBSET Labels
  OBVIOUS
<1> QED
  BY <1>1, <1>2, <1>3 DEF WhiteInv, Top

LEMMA StartOnTop ==
  ASSUME BuilderInv, visitStack # <<>>, Top.type = "StartVisit",
         NEW v \in Labels, v = Top.vertex
  PROVE  /\ Pending(v)
         /\ \A c \in children[v] : c \in Labels /\ dfn[c] # 0
         /\ \A w \in Labels : Pending(w) => w = v \/ dfn[w] < dfn[v]
         /\ \A h \in Labels : Building(h) => headDfn[h] < dfn[v]
         /\ \A u \in Labels : Numbered(u) /\ dfn[v] < dfn[u] => Settled(u)
         /\ \A i \in Tasks : IsStart(i, v) => i = Len(visitStack)
<1> DEFINE L == Len(visitStack)
<1>1. L \in Tasks /\ \A i \in Tasks : i \in Int /\ i <= L
  BY TopTask DEF BuilderInv
<1>2. IsStart(L, v) /\ ~IsPush(L) /\ NumberOf(L) = dfn[v]
  BY DEF IsStart, IsPush, NumberOf, Top
<1>3. Pending(v)
  BY <1>1, <1>2 DEF BuilderInv, VisitInv
<1>4. \A c \in children[v] : c \in Labels /\ dfn[c] # 0
  BY <1>2, NoWhiteChild, GraphFacts DEF BuilderInv
<1>5. \A i \in Tasks : ~IsPush(i) => i = L \/ NumberOf(i) < dfn[v]
  <2> SUFFICES ASSUME NEW i \in Tasks, ~IsPush(i), i # L
               PROVE  NumberOf(i) < dfn[v]
    OBVIOUS
  <2>1. i < L
    BY <1>1
  <2> HIDE DEF L
  <2> QED
    BY <1>1, <1>2, <2>1, TaskOrder DEF BuilderInv
<1>6. \A w \in Labels : Pending(w) => w = v \/ dfn[w] < dfn[v]
  <2> SUFFICES ASSUME NEW w \in Labels, Pending(w)
               PROVE  w = v \/ dfn[w] < dfn[v]
    OBVIOUS
  <2>1. PICK i \in Tasks : IsStart(i, w)
    BY DEF BuilderInv, VisitInv
  <2>2. ~IsPush(i) /\ NumberOf(i) = dfn[w]
    BY <2>1 DEF IsStart, IsPush, NumberOf
  <2> QED
    BY <1>2, <1>5, <2>1, <2>2 DEF IsStart
<1>7. \A h \in Labels : Building(h) => headDfn[h] < dfn[v]
  <2> SUFFICES ASSUME NEW h \in Labels, Building(h)
               PROVE  headDfn[h] < dfn[v]
    OBVIOUS
  <2>1. PICK i \in Tasks : IsContinue(i, h)
    BY DEF Building
  <2>2. ~IsPush(i) /\ NumberOf(i) = headDfn[h]
    BY <2>1 DEF IsContinue, IsPush, NumberOf
  <2>3. i # L
    BY <1>2, <2>1 DEF IsContinue, IsStart
  <2> QED
    BY <1>5, <2>2, <2>3
<1>8. \A u \in Labels : Numbered(u) /\ dfn[v] < dfn[u] => Settled(u)
  <2>1. \A u \in Labels : dfn[u] \in Nat
    BY NumberFacts DEF BuilderInv
  <2> QED
    BY <1>6, <2>1 DEF Settled, Pending
<1>9. \A i \in Tasks : IsStart(i, v) => i = L
  <2> SUFFICES ASSUME NEW i \in Tasks, IsStart(i, v)
               PROVE  i = L
    OBVIOUS
  <2>1. ~IsPush(i) /\ NumberOf(i) = dfn[v]
    BY DEF IsStart, IsPush, NumberOf
  <2> HIDE DEF L
  <2> QED
    BY <1>1, <1>2, <2>1, TaskOrder DEF BuilderInv
<1> QED
  BY <1>3, <1>4, <1>6, <1>7, <1>8, <1>9

LEMMA MinDfnFacts ==
  ASSUME NumberTypes, StackInv, LowInv, NEW c \in Labels, dfn[c] # 0
  PROVE  /\ MinDfn(c) \in Nat /\ MinDfn(c) # 0 /\ MinDfn(c) <= dfn[c]
         /\ Settled(c) => MinDfn(c) = headDfn[c]
         /\ ~Settled(c) => MinDfn(c) = dfn[c]
<1>1. dfn[c] \in Nat /\ headDfn[c] \in Nat
  BY NumberFacts
<1>2. Settled(c) => headDfn[c] < dfn[c]
  BY DEF LowInv
<1> QED
  BY <1>1, <1>2 DEF MinDfn, Settled, Numbered

(* Everything above the visited vertex was reached through one of its      *)
(* children that leads back at least as far.                               *)
LEMMA AboveReached ==
  ASSUME BuilderInv, visitStack # <<>>, Top.type = "StartVisit",
         NEW v \in Labels, v = Top.vertex
  PROVE  \A u \in Labels : Numbered(u) /\ dfn[v] < dfn[u] =>
           \E c \in children[v] : Settled(c) /\ dfn[v] < dfn[c] /\ headDfn[c] <= headDfn[u]
<1> DEFINE Good(u) == \E c \in children[v] :
                        Settled(c) /\ dfn[v] < dfn[c] /\ headDfn[c] <= headDfn[u]
           T == {dfn[u] : u \in {l \in Labels : Numbered(l) /\ dfn[v] < dfn[l] /\ ~Good(l)}}
<1>0. \A l \in Labels : dfn[l] \in Nat /\ headDfn[l] \in Nat
  BY NumberFacts DEF BuilderInv
<1> SUFFICES ASSUME T # {} PROVE FALSE
  OBVIOUS
<1>1. T \subseteq Nat
  BY <1>0
<1>2. PICK n \in T : \A k \in T : n <= k
  <2> HIDE DEF T
  <2> QED BY <1>1, LeastNatural
<1>3. PICK u \in Labels : Numbered(u) /\ dfn[v] < dfn[u] /\ ~Good(u) /\ dfn[u] = n
  BY <1>2
<1>4. \A w \in Labels : Numbered(w) /\ dfn[v] < dfn[w] /\ dfn[w] < dfn[u] => Good(w)
  <2> SUFFICES ASSUME NEW w \in Labels, Numbered(w), dfn[v] < dfn[w], ~Good(w)
               PROVE  ~(dfn[w] < dfn[u])
    OBVIOUS
  <2>1. dfn[w] \in T
    <3> HIDE DEF Good
    <3> QED OBVIOUS
  <2>2. n <= dfn[w] /\ n \in Nat
    BY <1>1, <1>2, <2>1
  <2> QED
    BY <1>0, <1>3, <2>2
<1> HIDE DEF T, Good
<1>5. Pending(v) /\ Settled(u) /\ \A h \in Labels : Building(h) => headDfn[h] < dfn[v]
  BY <1>3, StartOnTop
<1>6. PICK w \in Labels :
         /\ Numbered(w) /\ dfn[v] <= dfn[w] /\ dfn[w] < dfn[u] /\ u \in children[w]
         /\ Pending(w) \/ (Settled(u) /\ headDfn[w] <= headDfn[u])
  <2>1. \A h \in Labels : Building(h) => ~(dfn[v] < headDfn[h] /\ headDfn[h] < dfn[u])
    BY <1>0, <1>5
  <2>2. TreeInv
    BY DEF BuilderInv
  <2> QED
    BY <1>3, <1>5, <2>1, <2>2 DEF TreeInv
<1>7. CASE w = v
  BY <1>0, <1>3, <1>5, <1>6, <1>7 DEF Good
<1>8. CASE w # v
  <2>1. dfn[w] # dfn[v]
    BY <1>6, <1>8, NumberFacts DEF BuilderInv
  <2>2. dfn[v] < dfn[w]
    BY <1>0, <1>6, <2>1
  <2>3. Good(w) /\ ~Pending(w)
    BY <1>4, <1>6, <2>2, StartOnTop DEF Settled, Pending
  <2>4. headDfn[w] <= headDfn[u]
    BY <1>6, <2>3
  <2>5. PICK c \in children[v] : Settled(c) /\ dfn[v] < dfn[c] /\ headDfn[c] <= headDfn[w]
    BY <2>3 DEF Good
  <2>6. c \in Labels
    BY StartOnTop
  <2>7. headDfn[c] <= headDfn[u]
    BY <1>0, <2>4, <2>5, <2>6
  <2> QED
    BY <1>3, <2>5, <2>7 DEF Good
<1> QED
  BY <1>7, <1>8

(* When no child leads below v, nothing above v does. *)
LEMMA AboveStays ==
  ASSUME BuilderInv, visitStack # <<>>, Top.type = "StartVisit",
         NEW v \in Labels, v = Top.vertex, NEW h \in Nat,
         \A c \in children[v] : h <= MinDfn(c)
  PROVE  \A u \in Labels : Numbered(u) /\ dfn[v] < dfn[u] => h <= headDfn[u]
<1> SUFFICES ASSUME NEW u \in Labels, Numbered(u), dfn[v] < dfn[u]
             PROVE  h <= headDfn[u]
  OBVIOUS
<1>1. PICK c \in children[v] : Settled(c) /\ dfn[v] < dfn[c] /\ headDfn[c] <= headDfn[u]
  BY AboveReached
<1>2. c \in Labels /\ dfn[c] # 0
  BY StartOnTop
<1>3. MinDfn(c) = headDfn[c]
  BY <1>1, <1>2, MinDfnFacts DEF BuilderInv
<1>4. headDfn[c] \in Nat /\ headDfn[u] \in Nat
  BY <1>2, NumberFacts DEF BuilderInv
<1> QED
  BY <1>1, <1>3, <1>4

(* A vertex that is a component of its own is on top of _stack, and all    *)
(* its children are in closed components.                                  *)
LEMMA VertexOnTop ==
  ASSUME BuilderInv, visitStack # <<>>, Top.type = "StartVisit",
         NEW v \in Labels, v = Top.vertex, ~IsLoop(v)
  PROVE  /\ \A u \in Labels : ~(Numbered(u) /\ dfn[v] < dfn[u])
         /\ \A c \in children[v] : dfn[c] = DFN_INF
<1>0. \A l \in Labels : dfn[l] \in Nat /\ headDfn[l] \in Nat
  BY NumberFacts DEF BuilderInv
<1>1. \A c \in children[v] : dfn[v] + 1 <= MinDfn(c)
  <2> SUFFICES ASSUME NEW c \in children[v]
               PROVE  dfn[v] + 1 <= MinDfn(c)
    OBVIOUS
  <2>1. c \in Labels /\ dfn[c] # 0
    BY StartOnTop
  <2>2. MinDfn(c) \in Nat
    BY <2>1, MinDfnFacts DEF BuilderInv
  <2> QED
    BY <1>0, <2>2 DEF IsLoop
<1>2. \A u \in Labels : Numbered(u) /\ dfn[v] < dfn[u] => dfn[v] + 1 <= headDfn[u]
  BY <1>0, <1>1, AboveStays
<1>3. \A u \in Labels : Numbered(u) /\ dfn[v] < dfn[u] /\ dfn[u] < DFN_INF =>
        Settled(u) /\ dfn[v] < headDfn[u]
  BY <1>0, <1>2, StartOnTop
<1>4. \A u \in Labels : ~(Numbered(u) /\ dfn[v] < dfn[u] /\ dfn[u] < DFN_INF)
  <2>1. DFN_INF \in Nat /\ dfn[v] \in Nat
    BY <1>0, DfnAssumption
  <2> QED
    BY <1>3, <2>1, NoSettledBetween DEF BuilderInv
<1>5. \A u \in Labels : ~(Numbered(u) /\ dfn[v] < dfn[u])
  BY <1>4, NumberFacts DEF BuilderInv
<1>6. ASSUME NEW c \in children[v]
      PROVE  dfn[c] = DFN_INF
  <2>1. c \in Labels /\ dfn[c] # 0
    BY StartOnTop
  <2>2. MinDfn(c) \in Nat /\ MinDfn(c) <= dfn[c]
    BY <2>1, MinDfnFacts DEF BuilderInv
  <2>3. dfn[v] < dfn[c]
    BY <1>0, <1>1, <2>1, <2>2
  <2> QED
    BY <1>5, <2>1, <2>3 DEF Numbered
<1> QED
  BY <1>5, <1>6

(* The entry is the first label on _stack while its task is on top: it is  *)
(* a component of its own, because no edge leads to it.                    *)
LEMMA EntryOnTop ==
  ASSUME BuilderInv, visitStack # <<>>, Top.type = "StartVisit", Top.vertex = EntryLabel
  PROVE  IsHeadDfn(EntryLabel, dfn[EntryLabel]) /\ ~IsLoop(EntryLabel)
<1> DEFINE e == EntryLabel
<1>e. e \in Labels
  BY LabelsAssumption
<1>0. \A l \in Labels : dfn[l] \in Nat /\ headDfn[l] \in Nat
  BY NumberFacts DEF BuilderInv
<1>p. Pending(e)
  BY <1>e, StartOnTop
<1>1. \A u \in Labels : Numbered(u) => dfn[e] <= dfn[u]
  <2>1. visitStack[1].type = "StartVisit" /\ visitStack[1].vertex = e /\ 1 \in Tasks
    <3>1. Len(visitStack) \in Tasks /\ Len(visitStack) \in Nat /\ Len(visitStack) > 0
      BY TopTask DEF BuilderInv
    <3>2. ~IsPush(1)
      BY <1>p, <1>e, <3>1 DEF BuilderInv, EntryFirst, Pending, Numbered
    <3> QED
      BY <3>1, <3>2 DEF BuilderInv, EntryFirst, IsStart, Tasks
  <2>2. ASSUME NEW u \in Labels, Numbered(u), 0 < dfn[u], dfn[u] < dfn[e]
        PROVE  Settled(u) /\ 0 < headDfn[u]
    <3> SUFFICES ASSUME Pending(u) PROVE FALSE
      BY <1>0, <2>2 DEF Settled, Pending
    <3>1. PICK i \in Tasks : IsStart(i, u)
      BY DEF BuilderInv, VisitInv
    <3>2. ~IsPush(i) /\ ~IsPush(1) /\ NumberOf(i) = dfn[u] /\ NumberOf(1) = dfn[e]
      BY <2>1, <3>1 DEF IsStart, IsPush, NumberOf
    <3>3. i \in Int /\ 1 <= i
      BY DEF Tasks
    <3>4. 1 < i => NumberOf(1) < NumberOf(i)
      BY <2>1, <3>2, TaskOrder DEF BuilderInv
    <3> QED
      BY <1>0, <1>e, <2>2, <3>2, <3>3, <3>4
  <2>3. \A u \in Labels : ~(Numbered(u) /\ 0 < dfn[u] /\ dfn[u] < dfn[e])
    <3>1. 0 \in Nat /\ dfn[e] \in Nat
      BY <1>0, <1>e
    <3> HIDE DEF e
    <3> QED
      BY <2>2, <3>1, NoSettledBetween DEF BuilderInv
  <2> QED
    BY <1>0, <1>e, <2>3 DEF Numbered
<1>2. ASSUME NEW c \in children[e]
      PROVE  dfn[e] < MinDfn(c)
  <2>1. c \in Labels /\ dfn[c] # 0 /\ c # e
    BY <1>e, StartOnTop, GraphFacts DEF BuilderInv
  <2>2. MinDfn(c) \in Nat /\ (Settled(c) => MinDfn(c) = headDfn[c])
        /\ (~Settled(c) => MinDfn(c) = dfn[c])
    BY <2>1, MinDfnFacts DEF BuilderInv
  <2>3. CASE Settled(c)
    <3>1. PICK s \in Labels : /\ Numbered(s) /\ dfn[s] = headDfn[c]
                              /\ \E q \in Labels : s \in children[q]
      BY <2>1, <2>3 DEF BuilderInv, LowInv
    <3>2. s # e
      BY <3>1, GraphFacts DEF BuilderInv
    <3>3. dfn[s] # dfn[e]
      BY <1>e, <3>1, <3>2, NumberFacts DEF BuilderInv
    <3> QED
      BY <1>0, <1>1, <1>e, <2>2, <2>3, <3>1, <3>3
  <2>4. CASE ~Settled(c)
    <3>1. CASE dfn[c] = DFN_INF
      BY <1>e, <1>p, <2>2, <2>4, <3>1, NumberFacts DEF BuilderInv, Pending
    <3>2. CASE dfn[c] # DFN_INF
      <4>1. Numbered(c)
        BY <2>1, <3>2 DEF Numbered
      <4>2. dfn[c] # dfn[e]
        BY <1>e, <2>1, <4>1, NumberFacts DEF BuilderInv
      <4> QED
        BY <1>0, <1>1, <1>e, <2>1, <2>2, <2>4, <4>1, <4>2
    <3> QED
      BY <3>1, <3>2
  <2> QED
    BY <2>3, <2>4
<1>3. \A c \in children[e] : MinDfn(c) \in Nat
  BY <1>e, StartOnTop, MinDfnFacts DEF BuilderInv
<1> QED
  BY <1>0, <1>2, <1>3, <1>e DEF IsHeadDfn, IsLoop

(* When the members of a cycle are done, nothing above its head is left on *)
(* _stack, and the children of the head are in closed components.          *)
LEMMA ContinueOnTop ==
  ASSUME BuilderInv, visitStack # <<>>, Top.type = "ContinueVisit",
         NEW v \in Labels, v = Top.vertex
  PROVE  /\ dfn[v] = DFN_INF /\ headDfn[v] # 0 /\ Building(v)
         /\ \A u \in Labels : Numbered(u) => ~(headDfn[v] < dfn[u])
         /\ \A c \in children[v] : c \in Labels /\ dfn[c] = DFN_INF
         /\ \A i \in Tasks : IsContinue(i, v) => i = Len(visitStack)
         /\ \A i \in Tasks : ~IsPush(i) => i = Len(visitStack) \/ NumberOf(i) < headDfn[v]
         /\ Len(visitStack) # 1
<1> DEFINE L == Len(visitStack)
<1>1. L \in Tasks /\ L \in Nat /\ \A i \in Tasks : i \in Int /\ i <= L
  BY TopTask DEF BuilderInv
<1>2. IsContinue(L, v) /\ ~IsPush(L) /\ NumberOf(L) = headDfn[v]
  BY DEF IsContinue, IsPush, NumberOf, Top
<1>3. dfn[v] = DFN_INF /\ headDfn[v] # 0 /\ headDfn[v] <= num
  BY <1>1, <1>2 DEF BuilderInv, VisitInv
<1>4. \A c \in children[v] : c \in Labels /\ dfn[c] # 0
  BY <1>2, NoWhiteChild, GraphFacts DEF BuilderInv
<1>5. \A i \in Tasks : ~IsPush(i) => i = L \/ NumberOf(i) < headDfn[v]
  <2> SUFFICES ASSUME NEW i \in Tasks, ~IsPush(i), i # L
               PROVE  NumberOf(i) < headDfn[v]
    OBVIOUS
  <2>1. i < L
    BY <1>1
  <2> HIDE DEF L
  <2> QED
    BY <1>1, <1>2, <2>1, TaskOrder DEF BuilderInv
<1>6. \A i \in Tasks : IsContinue(i, v) => i = L
  <2> SUFFICES ASSUME NEW i \in Tasks, IsContinue(i, v)
               PROVE  i = L
    OBVIOUS
  <2>1. ~IsPush(i) /\ NumberOf(i) = headDfn[v]
    BY DEF IsContinue, IsPush, NumberOf
  <2> HIDE DEF L
  <2> QED
    BY <1>1, <1>2, <2>1, TaskOrder DEF BuilderInv
<1>7. Building(v)
  BY <1>1, <1>2 DEF Building
<1>0. (\A l \in Labels : dfn[l] \in Nat /\ headDfn[l] \in Nat) /\ DFN_INF \in Nat
  BY NumberFacts, DfnAssumption DEF BuilderInv
<1>8. \A u \in Labels : Numbered(u) => ~(headDfn[v] < dfn[u])
  <2>1. ASSUME NEW u \in Labels, Numbered(u), headDfn[v] < dfn[u], dfn[u] < DFN_INF
        PROVE  Settled(u) /\ headDfn[v] < headDfn[u]
    <3>1. Settled(u)
      <4> SUFFICES ASSUME Pending(u) PROVE FALSE
        BY <2>1 DEF Settled, Pending
      <4>1. PICK i \in Tasks : IsStart(i, u)
        BY DEF BuilderInv, VisitInv
      <4>2. ~IsPush(i) /\ NumberOf(i) = dfn[u] /\ i # L
        BY <1>2, <4>1 DEF IsStart, IsContinue, IsPush, NumberOf
      <4> QED
        BY <1>0, <1>5, <2>1, <4>2
    <3> QED
      BY <1>7, <2>1, <3>1 DEF BuilderInv, LowInv
  <2>2. \A u \in Labels : ~(Numbered(u) /\ headDfn[v] < dfn[u] /\ dfn[u] < DFN_INF)
    BY <1>0, <2>1, NoSettledBetween DEF BuilderInv
  <2> QED
    BY <2>2, NumberFacts DEF BuilderInv
<1>9. ASSUME NEW c \in children[v]
      PROVE  dfn[c] = DFN_INF
  <2>1. PICK Y \in SUBSET Labels : Region(L, v, Y)
    BY <1>1, <1>2 DEF BuilderInv, RegionInv
  <2>2. c \in Y \/ dfn[c] = DFN_INF
    BY <2>1 DEF Region
  <2>3. c \in Y => c = v \/ dfn[c] = 0 \/ headDfn[v] < dfn[c]
    BY <2>1 DEF Region
  <2> QED
    BY <1>3, <1>4, <1>8, <2>2, <2>3 DEF Numbered
<1>10. L # 1
  BY <1>2 DEF BuilderInv, EntryFirst, IsContinue, IsPush, IsStart
<1> QED
  BY <1>3, <1>4, <1>5, <1>6, <1>7, <1>8, <1>9, <1>10

LEMMA VisitPop ==
  ASSUME BuilderTypes, visitStack # <<>>, visitStack' = Below
  PROVE  /\ \A i : i \in Tasks' <=> i \in Tasks /\ i # Len(visitStack)
         /\ \A i \in Tasks' : visitStack'[i] = visitStack[i]
         /\ Len(visitStack') = Len(visitStack) - 1
<1>1. /\ Len(visitStack) \in Nat /\ Len(visitStack) > 0
      /\ Len(Below) = Len(visitStack) - 1
      /\ \A i \in 1 .. Len(visitStack) - 1 : Below[i] = visitStack[i]
  BY TopTask
<1>2. Tasks' = 1 .. Len(visitStack) - 1
  BY <1>1 DEF Tasks
<1> QED
  BY <1>1, <1>2 DEF Tasks

LEMMA VisitPopTasks ==
  ASSUME BuilderTypes, visitStack # <<>>, visitStack' = Below
  PROVE  /\ \A i \in Tasks' : i \in Tasks /\ i # Len(visitStack) /\ visitStack'[i] = visitStack[i]
         /\ \A i \in Tasks : i # Len(visitStack) => i \in Tasks'
         /\ \A i \in Tasks' : IsPush(i)' <=> IsPush(i)
         /\ \A i \in Tasks' : \A l : IsStart(i, l)' <=> IsStart(i, l)
         /\ \A i \in Tasks' : \A l : IsContinue(i, l)' <=> IsContinue(i, l)
<1>1. \A i \in Tasks' : i \in Tasks /\ i # Len(visitStack) /\ visitStack'[i] = visitStack[i]
  BY VisitPop
<1>2. \A i \in Tasks : i # Len(visitStack) => i \in Tasks'
  BY VisitPop
<1>3. \A i \in Tasks' : IsPush(i)' <=> IsPush(i)
  BY <1>1 DEF IsPush
<1>4. \A i \in Tasks' : \A l : IsStart(i, l)' <=> IsStart(i, l)
  BY <1>1 DEF IsStart
<1>5. \A i \in Tasks' : \A l : IsContinue(i, l)' <=> IsContinue(i, l)
  BY <1>1 DEF IsContinue
<1> QED
  BY <1>1, <1>2, <1>3, <1>4, <1>5

(* What every step keeps that only takes the visit task of a vertex off    *)
(* _visit_stack and closes at most that vertex.                            *)
LEMMA PopKeeps ==
  ASSUME BuilderInv, visitStack # <<>>, ~IsPush(Len(visitStack)), visitStack' = Below,
         children' = children, num' = num,
         \A l \in Labels : dfn'[l] = dfn[l] \/ (dfn'[l] = DFN_INF /\ Numbered(l)),
         \A l \in Labels : dfn[l] = DFN_INF => headDfn'[l] = headDfn[l],
         \A l \in Labels : dfn'[l] # dfn[l] => IsStart(Len(visitStack), l),
         \A l \in Labels : Pending(l)' <=> Pending(l) /\ ~IsStart(Len(visitStack), l)
  PROVE  /\ VisitInv' /\ PartitionInv' /\ RegionInv' /\ WhiteInv'
         /\ Len(visitStack) # 1 => EntryFirst'
         /\ \A i \in Tasks', h \in Labels, Y \in SUBSET Labels :
              IsContinue(i, h) /\ Region(i, h, Y) => Region(i, h, Y)'
<1> DEFINE L == Len(visitStack)
<1>1. /\ \A i \in Tasks' : i \in Tasks /\ i # L /\ visitStack'[i] = visitStack[i]
      /\ \A i \in Tasks : i # L => i \in Tasks'
      /\ \A i \in Tasks' : IsPush(i)' <=> IsPush(i)
      /\ \A i \in Tasks' : \A l : IsStart(i, l)' <=> IsStart(i, l)
      /\ \A i \in Tasks' : \A l : IsContinue(i, l)' <=> IsContinue(i, l)
  BY VisitPopTasks DEF BuilderInv
<1>2. /\ \A l \in Labels : dfn[l] \in Nat /\ headDfn[l] \in Nat
      /\ num \in Nat /\ num < DFN_INF /\ DFN_INF \in Nat
  BY NumberFacts DEF BuilderInv
<1>3. \A i \in Tasks : visitStack[i] \in Task
  BY TopTask DEF BuilderInv
<1>4. \A i \in Tasks, g \in Labels : IsContinue(i, g) =>
        dfn[g] = DFN_INF /\ headDfn[g] # 0 /\ headDfn[g] <= num /\ headDfn'[g] = headDfn[g]
  BY DEF BuilderInv, VisitInv
<1>5. ASSUME NEW i \in Tasks', NEW l \in Labels, IsStart(i, l)
      PROVE  ~IsStart(L, l)
  <2>1. i \in Tasks /\ i # L /\ L \in Tasks
    BY <1>1, TopTask DEF BuilderInv
  <2> SUFFICES ASSUME IsStart(L, l) PROVE FALSE
    OBVIOUS
  <2>2. ~IsPush(i) /\ ~IsPush(L) /\ NumberOf(i) = NumberOf(L)
    BY <1>5 DEF IsStart, IsPush, NumberOf
  <2> HIDE DEF L
  <2> QED
    BY <2>1, <2>2, TaskOrder DEF BuilderInv
<1>6. ASSUME NEW i \in Tasks', ~IsPush(i)
      PROVE  NumberOf(i)' = NumberOf(i)
  <2>1. i \in Tasks /\ visitStack'[i] = visitStack[i] /\ visitStack[i].vertex \in Labels
    BY <1>1, <1>6, TaskOrder DEF BuilderInv
  <2>2. visitStack[i].type = "StartVisit" \/ visitStack[i].type = "ContinueVisit"
    BY <1>3, <1>6, <2>1, TaskFacts DEF IsPush
  <2>3. CASE visitStack[i].type = "StartVisit"
    <3>1. ~IsStart(L, visitStack[i].vertex)
      BY <1>5, <2>1, <2>3 DEF IsStart
    <3> QED
      BY <2>1, <2>3, <3>1 DEF NumberOf
  <2>4. CASE visitStack[i].type = "ContinueVisit"
    BY <1>4, <2>1, <2>4 DEF NumberOf, IsContinue
  <2> QED
    BY <2>2, <2>3, <2>4
<1>7. VisitInv'
  <2>1. \A i \in Tasks' : \A w \in Labels : IsStart(i, w)' => Pending(w)'
    BY <1>1, <1>5 DEF BuilderInv, VisitInv
  <2>2. \A w \in Labels : Pending(w)' => \E i \in Tasks' : IsStart(i, w)'
    <3> SUFFICES ASSUME NEW w \in Labels, Pending(w), ~IsStart(L, w)
                 PROVE  \E i \in Tasks' : IsStart(i, w)'
      OBVIOUS
    <3>1. PICK i \in Tasks : IsStart(i, w)
      BY DEF BuilderInv, VisitInv
    <3> QED
      BY <1>1, <3>1
  <2>3. \A i \in Tasks' : \A g \in Labels : IsContinue(i, g)' =>
          dfn'[g] = DFN_INF /\ headDfn'[g] # 0 /\ headDfn'[g] <= num'
    BY <1>1, <1>4
  <2>4. \A i, j \in Tasks' : i < j /\ ~IsPush(i)' /\ ~IsPush(j)' => NumberOf(i)' < NumberOf(j)'
    BY <1>1, <1>6 DEF BuilderInv, VisitInv
  <2>5. \A i \in Tasks' : IsPush(i)' /\ i > 1 =>
          /\ ~IsPush(i - 1)'
          /\ visitStack'[i].todo \subseteq children'[visitStack'[i - 1].vertex]
    <3> SUFFICES ASSUME NEW i \in Tasks', IsPush(i), i > 1
                 PROVE  /\ ~IsPush(i - 1)'
                        /\ visitStack'[i].todo \subseteq children'[visitStack'[i - 1].vertex]
      BY <1>1
    <3>1. i - 1 \in Tasks'
      BY DEF Tasks
    <3> QED
      BY <1>1, <3>1 DEF BuilderInv, VisitInv
  <2> QED
    BY <2>1, <2>2, <2>3, <2>4, <2>5 DEF VisitInv
<1>8. PartitionInv'
  <2> SUFFICES ASSUME NEW i \in Tasks', NEW p \in Cycles, visitStack'[i].partition = p
               PROVE  /\ p = NoCycle \/ \E j \in Tasks' : j < i /\ IsContinue(j, p)'
                      /\ \A j \in Tasks', g \in Labels : j < i /\ IsContinue(j, g)' =>
                           p # NoCycle /\ headDfn'[g] <= headDfn'[p]
    BY DEF PartitionInv
  <2>1. i \in Tasks /\ visitStack[i].partition = p /\ i < L
    BY <1>1, TopTask DEF BuilderInv
  <2>2. /\ p = NoCycle \/ \E j \in Tasks : j < i /\ IsContinue(j, p)
        /\ \A j \in Tasks, g \in Labels :
             j < i /\ IsContinue(j, g) => p # NoCycle /\ headDfn[g] <= headDfn[p]
    BY <2>1 DEF BuilderInv, PartitionInv
  <2>4. p # NoCycle => p \in Labels /\ headDfn'[p] = headDfn[p]
    BY <1>4, <2>2 DEF Cycles
  <2>5. \A j \in Tasks : j < i => j \in Tasks'
    BY <1>1, <2>1, TopTask DEF BuilderInv
  <2>6. p = NoCycle \/ \E j \in Tasks' : j < i /\ IsContinue(j, p)'
    BY <1>1, <2>2, <2>5
  <2>7. \A j \in Tasks', g \in Labels : j < i /\ IsContinue(j, g)' =>
          p # NoCycle /\ headDfn'[g] <= headDfn'[p]
    BY <1>1, <1>4, <2>2, <2>4
  <2> QED
    BY <2>6, <2>7
<1>9. ASSUME NEW i \in Tasks', NEW g \in Labels, IsContinue(i, g),
             NEW Y \in SUBSET Labels, Region(i, g, Y)
      PROVE  Region(i, g, Y)'
  <2>0. IsContinue(i, g)
    BY <1>9
  <2>1. Region(i, g, Y)
    BY <1>9
  <2>2. headDfn'[g] = headDfn[g] /\ headDfn[g] < DFN_INF
    BY <1>1, <1>2, <1>4, <2>0
  <2>3. \A z \in Y : z = g \/ dfn'[z] = 0 \/ headDfn'[g] < dfn'[z]
    BY <2>1, <2>2 DEF Region
  <2>4. \A z \in Y : \A c \in children'[z] : c \in Y \/ dfn'[c] = DFN_INF
    <3>1. \A z \in Y : \A c \in children[z] : c \in Labels
      BY GraphFacts DEF BuilderInv
    <3> QED
      BY <2>1, <3>1 DEF Region, Numbered
  <2>5. \A u \in Labels : Numbered(u)' /\ headDfn'[g] < dfn'[u] => u \in Y
    BY <2>1, <2>2 DEF Region, Numbered
  <2>6. \A j \in Tasks' : i < j /\ IsPush(j)' => visitStack'[j].todo \subseteq Y
    BY <1>1, <2>1 DEF Region
  <2> QED
    BY <2>1, <2>3, <2>4, <2>5, <2>6 DEF Region
<1>r. RegionInv'
  BY <1>1, <1>9 DEF BuilderInv, RegionInv
<1>10. WhiteInv'
  <2>0. \A l \in Labels : dfn'[l] = 0 <=> dfn[l] = 0
    BY <1>2 DEF Numbered
  <2> SUFFICES ASSUME NEW i \in Tasks', ~IsPush(i),
                      NEW z \in children[visitStack[i].vertex], dfn'[z] = 0,
                      NEW C \in SUBSET Labels, Covers(i, C)'
               PROVE  z \in C
    BY <1>1 DEF WhiteInv
  <2>1. visitStack[i].vertex \in Labels /\ i \in Tasks
    BY <1>1, TaskOrder DEF BuilderInv
  <2>2. z \in Labels /\ dfn[z] = 0
    BY <2>0, <2>1, GraphFacts DEF BuilderInv
  <2>3. Covers(i, C)
    <3>1. \A j \in Tasks : i < j /\ IsPush(j) =>
            \A y \in visitStack[j].todo : dfn[y] = 0 => y \in C
      <4> SUFFICES ASSUME NEW j \in Tasks, i < j, IsPush(j),
                          NEW y \in visitStack[j].todo, dfn[y] = 0
                   PROVE  y \in C
        OBVIOUS
      <4>1. j \in Tasks' /\ visitStack'[j] = visitStack[j] /\ IsPush(j)'
        BY <1>1
      <4>2. y \in Labels
        BY <1>3, TaskFacts DEF IsPush
      <4> QED
        BY <2>0, <4>1, <4>2 DEF Covers
    <3>2. \A y \in C : \A x \in children[y] : dfn[x] = 0 => x \in C
      BY <2>0, GraphFacts DEF Covers, BuilderInv
    <3> QED
      BY <3>1, <3>2 DEF Covers
  <2> QED
    BY <2>1, <2>2, <2>3 DEF BuilderInv, WhiteInv
<1>11. L # 1 => EntryFirst'
  <2> SUFFICES ASSUME L # 1
               PROVE  EntryFirst'
    OBVIOUS
  <2>1. 1 \in Tasks' /\ visitStack' # <<>>
    <3>1. L \in Nat /\ L > 0 /\ Len(visitStack') = L - 1
      BY VisitPop, TopTask DEF BuilderInv
    <3>2. 1 \in Tasks'
      BY <3>1 DEF Tasks
    <3>3. visitStack' # <<>>
      BY <3>1
    <3> QED
      BY <3>2, <3>3
  <2>2. ~IsPush(1)
    BY DEF BuilderInv, EntryFirst
  <2>3. IsStart(1, EntryLabel) /\ visitStack[1].partition = NoCycle
    BY <2>2 DEF BuilderInv, EntryFirst
  <2> QED
    BY <1>1, <2>1, <2>2, <2>3 DEF EntryFirst
<1> QED
  BY <1>7, <1>8, <1>9, <1>r, <1>10, <1>11

LEMMA BuildingFacts ==
  ASSUME BuilderInv, NEW h \in Labels, Building(h)
  PROVE  dfn[h] = DFN_INF /\ headDfn[h] # 0 /\ headDfn[h] <= num /\ headDfn[h] < DFN_INF
<1>1. dfn[h] = DFN_INF /\ headDfn[h] # 0 /\ headDfn[h] <= num
  BY DEF Building, BuilderInv, VisitInv
<1> QED
  BY <1>1, NumberFacts DEF BuilderInv

(* The components of a partition are closed. *)
LEMMA PlacedFacts ==
  ASSUME BuilderInv, NEW m, PlacedInv(m), NEW c \in Cycles,
         NEW i \in 1 .. Len(components[c])
  PROVE  /\ components[c][i].label \in Labels
         /\ components[c][i].cycle \in BOOLEAN
         /\ dfn[components[c][i].label] = DFN_INF
         /\ c = NoCycle \/ (c \in Labels /\ dfn[c] = DFN_INF)
<1>1. components[c] \in Seq(Component)
  BY DEF BuilderInv, BuilderTypes
<1>2. components[c][i] \in Component /\ components[c] # <<>>
  BY <1>1
<1>3. components[c][i].label \in Labels /\ components[c][i].cycle \in BOOLEAN
  BY <1>2 DEF Component
<1>4. c = NoCycle \/ (c \in Labels /\ dfn[c] = DFN_INF)
  BY <1>2 DEF PlacedInv, Cycles
<1> DEFINE x == components[c][i]
<1>5. CASE x.cycle
  <2>1. x.label \in m[x.label]
    BY <1>5 DEF PlacedInv, Ordered, PartInv
  <2>2. x.label \in Cycles
    BY <1>3 DEF Cycles
  <2> HIDE DEF x
  <2>3. dfn[x.label] = DFN_INF
    BY <2>1, <2>2 DEF PlacedInv
  <2> QED
    BY <1>3, <1>4, <2>3 DEF x
<1>6. CASE ~x.cycle
  <2>1. LabelsAt(m, x) = {x.label}
    BY <1>6 DEF LabelsAt
  <2>2. x.label \in m[c]
    BY <1>3, <2>1 DEF PlacedInv, Ordered, IsMembers
  <2>3. dfn[x.label] = DFN_INF
    <3> HIDE DEF x
    <3> QED BY <2>2 DEF PlacedInv
  <2> QED
    BY <1>3, <1>4, <2>3
<1> QED
  BY <1>3, <1>5, <1>6

(* A step that closes no label keeps what is known of the partitions. *)
LEMMA PlacedSame ==
  ASSUME BuilderInv, NEW m, PlacedInv(m), components' = components, children' = children,
         \A l \in Labels : dfn'[l] = DFN_INF <=> dfn[l] = DFN_INF,
         \A l \in Labels : Building(l)' <=> Building(l),
         \A l \in Labels : dfn[l] = DFN_INF => headDfn'[l] = headDfn[l]
  PROVE  PlacedInv(m)'
<1>0. m \in [Cycles -> SUBSET Labels]
  BY DEF PlacedInv, Ordered, IsMembers
<1>1. Ordered(children', components', m)
  BY DEF PlacedInv
<1>2. \A c \in Cycles, h \in Labels : \A i \in 1 .. Len(components'[c]) :
        components'[c][i].cycle /\ components'[c][i].label = h =>
          /\ ~Building(h)'
          /\ c = NoCycle \/ headDfn'[c] < headDfn'[h]
  <2> SUFFICES ASSUME NEW c \in Cycles, NEW h \in Labels, NEW i \in 1 .. Len(components[c]),
                      components[c][i].cycle, components[c][i].label = h
               PROVE  ~Building(h)' /\ (c = NoCycle \/ headDfn'[c] < headDfn'[h])
    OBVIOUS
  <2>1. dfn[h] = DFN_INF /\ (c = NoCycle \/ (c \in Labels /\ dfn[c] = DFN_INF))
    BY PlacedFacts
  <2>2. ~Building(h) /\ (c = NoCycle \/ headDfn[c] < headDfn[h])
    BY DEF PlacedInv
  <2> QED
    BY <2>1, <2>2
<1>3. \A c \in Cycles : components'[c] # <<>> => c = NoCycle \/ dfn'[c] = DFN_INF
  BY DEF PlacedInv, Cycles
<1>4. \A c \in Cycles : \A l \in m[c] :
        /\ dfn'[l] = DFN_INF /\ ~Building(l)'
        /\ \A k \in children'[l] : dfn'[k] = DFN_INF
  <2> SUFFICES ASSUME NEW c \in Cycles, NEW l \in m[c]
               PROVE  /\ dfn'[l] = DFN_INF /\ ~Building(l)'
                      /\ \A k \in children[l] : dfn'[k] = DFN_INF
    OBVIOUS
  <2>1. l \in Labels /\ children[l] \in SUBSET Labels
    BY <1>0, GraphFacts DEF BuilderInv
  <2> QED
    BY <2>1 DEF PlacedInv
<1>o. \A c \in Cycles : IsOpen(c)' <=> IsOpen(c)
  BY DEF IsOpen, Cycles
<1>5. \A l \in Labels : dfn'[l] = DFN_INF =>
        Building(l)' \/ \E c \in Cycles : IsOpen(c)' /\ l \in m[c]
  BY <1>o DEF PlacedInv
<1>6. \A c, b \in Cycles : IsOpen(c)' /\ IsOpen(b)' /\ c # b => m[c] \cap m[b] = {}
  BY <1>o DEF PlacedInv
<1>7. \A h \in Labels, c \in Cycles :
        Building(h)' /\ IsOpen(c)' /\ (c = NoCycle \/ headDfn'[c] < headDfn'[h]) =>
          \A p \in m[c] : children'[p] \cap (m[h] \cup {h}) = {}
  <2> SUFFICES ASSUME NEW h \in Labels, NEW c \in Cycles, Building(h), IsOpen(c),
                      c = NoCycle \/ headDfn'[c] < headDfn'[h]
               PROVE  \A p \in m[c] : children[p] \cap (m[h] \cup {h}) = {}
    BY <1>o
  <2>1. headDfn'[h] = headDfn[h]
    BY BuildingFacts
  <2>2. c = NoCycle \/ headDfn'[c] = headDfn[c]
    BY BuildingFacts DEF IsOpen, Cycles
  <2> QED
    BY <2>1, <2>2 DEF PlacedInv
<1> QED
  BY <1>1, <1>2, <1>3, <1>4, <1>5, <1>6, <1>7 DEF PlacedInv

-----------------------------------------------------------------------------
(***************************************************************************)
(* start_visit of a vertex that belongs to the cycle of another one.       *)
(***************************************************************************)
LEMMA InnerNumbers ==
  ASSUME BuilderInv, visitStack # <<>>, Top.type = "StartVisit",
         NEW v \in Labels, v = Top.vertex, StartVisitInner(v), UNCHANGED <<children, num>>
  PROVE  \E h \in Nat :
           /\ h # 0 /\ h < dfn[v] /\ IsHeadDfn(v, h)
           /\ \E c \in children[v] : h = MinDfn(c)
           /\ headDfn' = [headDfn EXCEPT ![v] = h]
           /\ \A l \in Labels : headDfn'[l] = IF l = v THEN h ELSE headDfn[l]
           /\ \A l \in Labels : Numbered(l)' <=> Numbered(l)
           /\ \A l \in Labels : Pending(l)' <=> Pending(l) /\ l # v
           /\ \A l \in Labels : Settled(l)' <=> Settled(l) \/ l = v
           /\ \A l \in Labels : Building(l)' <=> Building(l)
           /\ \A l \in Labels : Building(l) => l # v
<1>1. PICK h \in {MinDfn(c) : c \in children[v]} :
        /\ IsHeadDfn(v, h) /\ h # dfn[v]
        /\ headDfn' = [headDfn EXCEPT ![v] = h]
  BY DEF StartVisitInner
<1>2. PICK c \in children[v] : h = MinDfn(c)
  OBVIOUS
<1>3. c \in Labels /\ dfn[c] # 0 /\ Pending(v)
  BY StartOnTop
<1>4. h \in Nat /\ h # 0
  BY <1>2, <1>3, MinDfnFacts DEF BuilderInv
<1>5. dfn[v] \in Nat /\ h <= dfn[v]
  BY <1>1, NumberFacts DEF IsHeadDfn, BuilderInv
<1>6. h < dfn[v]
  BY <1>1, <1>4, <1>5
<1>7. \A l \in Labels : headDfn'[l] = IF l = v THEN h ELSE headDfn[l]
  BY <1>1 DEF BuilderInv, NumberTypes
<1>8. \A l \in Labels : Numbered(l)' <=> Numbered(l)
  BY DEF Numbered, StartVisitInner
<1>9. \A l \in Labels : Pending(l)' <=> Pending(l) /\ l # v
  BY <1>4, <1>7, <1>8 DEF Pending
<1>10. \A l \in Labels : Settled(l)' <=> Settled(l) \/ l = v
  BY <1>3, <1>4, <1>7, <1>8 DEF Settled, Pending
<1>11. \A l \in Labels : Building(l)' <=> Building(l)
  <2>1. visitStack' = Below
    BY DEF StartVisitInner
  <2>2. ~ \E l : IsContinue(Len(visitStack), l)
    BY DEF IsContinue, Top
  <2> QED
    BY <2>1, <2>2, VisitPopTasks DEF Building, BuilderInv
<1>12. \A l \in Labels : Building(l) => l # v
  <2>1. \A l \in Labels : Building(l) => dfn[l] = DFN_INF
    BY DEF Building, BuilderInv, VisitInv
  <2> QED
    BY <1>3, <2>1 DEF Pending, Numbered
<1> QED
  BY <1>1, <1>2, <1>4, <1>6, <1>7, <1>8, <1>9, <1>10, <1>11, <1>12

LEMMA InnerStep ==
  ASSUME BuilderInv, BuilderTypes', visitStack # <<>>, Top.type = "StartVisit",
         NEW v \in Labels, v = Top.vertex, StartVisitInner(v), UNCHANGED <<children, num>>
  PROVE  BuilderInv'
<1>1. PICK h \in Nat :
        /\ h # 0 /\ h < dfn[v] /\ IsHeadDfn(v, h)
        /\ \E c \in children[v] : h = MinDfn(c)
        /\ headDfn' = [headDfn EXCEPT ![v] = h]
        /\ \A l \in Labels : headDfn'[l] = IF l = v THEN h ELSE headDfn[l]
        /\ \A l \in Labels : Numbered(l)' <=> Numbered(l)
        /\ \A l \in Labels : Pending(l)' <=> Pending(l) /\ l # v
        /\ \A l \in Labels : Settled(l)' <=> Settled(l) \/ l = v
        /\ \A l \in Labels : Building(l)' <=> Building(l)
        /\ \A l \in Labels : Building(l) => l # v
  BY InnerNumbers
<1>2. /\ visitStack' = Below /\ dfn' = dfn /\ stack' = stack /\ num' = num
      /\ components' = components /\ children' = children
  BY DEF StartVisitInner
<1>3. /\ Pending(v)
      /\ \A c \in children[v] : c \in Labels /\ dfn[c] # 0
      /\ \A w \in Labels : Pending(w) => w = v \/ dfn[w] < dfn[v]
      /\ \A g \in Labels : Building(g) => headDfn[g] < dfn[v]
      /\ \A u \in Labels : Numbered(u) /\ dfn[v] < dfn[u] => Settled(u)
  BY StartOnTop
<1>4. IsStart(Len(visitStack), v) /\ \A l : IsStart(Len(visitStack), l) => l = v
  BY DEF IsStart, Top
<1>5. /\ \A l \in Labels : dfn[l] \in Nat /\ headDfn[l] \in Nat
      /\ num \in Nat /\ num < DFN_INF /\ DFN_INF \in Nat
  BY NumberFacts DEF BuilderInv
<1>6. Numbered(v) /\ dfn[v] < DFN_INF
  BY <1>3, NumberFacts DEF Pending, BuilderInv
<1>7. NumberTypes'
  BY <1>1, <1>2, <1>5, <1>6 DEF BuilderInv, NumberTypes
<1>8. StackInv'
  <2>1. \A l \in Labels : dfn'[l] = 0 => headDfn'[l] = 0
    BY <1>1, <1>2, <1>6 DEF BuilderInv, StackInv, Numbered
  <2> QED
    BY <1>2, <2>1 DEF BuilderInv, StackInv, Numbered
<1>9. /\ VisitInv' /\ PartitionInv' /\ RegionInv' /\ WhiteInv'
      /\ Len(visitStack) # 1 => EntryFirst'
  <2>1. ~IsPush(Len(visitStack))
    BY DEF IsPush, Top
  <2>2. \A l \in Labels : dfn[l] = DFN_INF => headDfn'[l] = headDfn[l]
    BY <1>1, <1>6 DEF Numbered
  <2>3. \A l \in Labels : Pending(l)' <=> Pending(l) /\ ~IsStart(Len(visitStack), l)
    BY <1>1, <1>4
  <2>4. \A l \in Labels : dfn'[l] = dfn[l]
    BY <1>2
  <2> QED
    BY <1>2, <2>1, <2>2, <2>3, <2>4, PopKeeps
<1>10. EntryFirst'
  <2> SUFFICES ASSUME Len(visitStack) = 1 PROVE FALSE
    BY <1>9
  <2>1. v = EntryLabel
    BY <1>4 DEF BuilderInv, EntryFirst, IsStart, IsPush
  <2>2. IsHeadDfn(v, dfn[v]) /\ \A c \in children[v] : MinDfn(c) \in Nat
    BY <1>3, <2>1, EntryOnTop, MinDfnFacts DEF BuilderInv
  <2> QED
    BY <1>1, <1>5, <2>2 DEF IsHeadDfn
<1>11. LowInv'
  <2> SUFFICES ASSUME NEW u \in Labels, Settled(u)'
               PROVE  /\ headDfn'[u] < dfn'[u]
                      /\ \E s \in Labels : /\ Numbered(s)' /\ dfn'[s] = headDfn'[u]
                                           /\ \E q \in Labels : s \in children'[q]
                      /\ \A g \in Labels : Building(g)' /\ headDfn'[g] < dfn'[u] =>
                           headDfn'[g] < headDfn'[u]
                      /\ \A c \in children'[u] : dfn'[c] # 0 /\ headDfn'[u] <= dfn'[c]
                      /\ \A c \in children'[u], w \in Labels :
                           Pending(w)' /\ dfn'[u] < dfn'[w] =>
                             dfn'[c] = DFN_INF \/ dfn'[c] < dfn'[w]
    BY DEF LowInv
  <2>1. CASE u # v
    <3>1. Settled(u) /\ LowInv
      BY <1>1, <2>1 DEF BuilderInv
    <3>2. \A g \in Labels : Building(g)' /\ headDfn'[g] < dfn'[u] => headDfn'[g] < headDfn'[u]
      BY <1>1, <1>2, <2>1, <3>1 DEF LowInv
    <3>3. \E s \in Labels : /\ Numbered(s)' /\ dfn'[s] = headDfn'[u]
                            /\ \E q \in Labels : s \in children'[q]
      BY <1>1, <1>2, <2>1, <3>1 DEF LowInv
    <3>4. \A c \in children'[u], w \in Labels : Pending(w)' /\ dfn'[u] < dfn'[w] =>
            dfn'[c] = DFN_INF \/ dfn'[c] < dfn'[w]
      BY <1>1, <1>2, <2>1, <3>1 DEF LowInv
    <3>5. /\ headDfn'[u] < dfn'[u]
          /\ \A c \in children'[u] : dfn'[c] # 0 /\ headDfn'[u] <= dfn'[c]
      BY <1>1, <1>2, <2>1, <3>1 DEF LowInv
    <3> QED
      BY <3>2, <3>3, <3>4, <3>5
  <2>2. CASE u = v
    <3>1. PICK c \in children[v] : h = MinDfn(c)
      BY <1>1
    <3>2. c \in Labels /\ dfn[c] # 0 /\ (Settled(c) => h = headDfn[c]) /\ (~Settled(c) => h = dfn[c])
      BY <1>3, <3>1, MinDfnFacts DEF BuilderInv
    <3>3. h # DFN_INF
      BY <1>1, <1>5, <1>6
    <3>4. \E s \in Labels : /\ Numbered(s) /\ dfn[s] = h
                            /\ \E q \in Labels : s \in children[q]
      <4>1. CASE Settled(c)
        BY <3>2, <4>1 DEF BuilderInv, LowInv
      <4>2. CASE ~Settled(c)
        <5>1. Numbered(c) /\ dfn[c] = h
          BY <3>2, <3>3, <4>2 DEF Numbered
        <5> QED
          BY <3>2, <5>1
      <4> QED
        BY <4>1, <4>2
    <3>5. ASSUME NEW g \in Labels, Building(g)
          PROVE  headDfn[g] < h
      <4>1. PICK i \in Tasks : IsContinue(i, g)
        BY <3>5 DEF Building
      <4>2. PICK Y \in SUBSET Labels : Region(i, g, Y)
        BY <4>1 DEF BuilderInv, RegionInv
      <4>3. dfn[g] = DFN_INF /\ headDfn[g] < dfn[v]
        BY <1>3, <3>5, BuildingFacts
      <4>4. v \in Y
        BY <1>6, <4>2, <4>3 DEF Region
      <4>5. dfn[c] = DFN_INF \/ headDfn[g] < dfn[c]
        BY <3>1, <3>2, <4>2, <4>3, <4>4 DEF Region
      <4>6. CASE Settled(c)
        <5>1. headDfn[g] < dfn[c]
          BY <4>5, <4>6 DEF Settled, Numbered
        <5> QED
          BY <3>2, <3>5, <4>6, <5>1 DEF BuilderInv, LowInv
      <4>7. CASE ~Settled(c)
        BY <3>2, <3>3, <4>5, <4>7
      <4> QED
        BY <4>6, <4>7
    <3>6. \A x \in children[v] : dfn[x] # 0 /\ h <= dfn[x]
      <4> SUFFICES ASSUME NEW x \in children[v]
                   PROVE  dfn[x] # 0 /\ h <= dfn[x]
        OBVIOUS
      <4>1. x \in Labels /\ dfn[x] # 0
        BY <1>3
      <4>2. MinDfn(x) \in Nat /\ MinDfn(x) <= dfn[x]
        BY <4>1, MinDfnFacts DEF BuilderInv
      <4>3. h <= MinDfn(x)
        BY <1>1 DEF IsHeadDfn
      <4> QED
        BY <1>5, <4>1, <4>2, <4>3
    <3>7. \A w \in Labels : Pending(w)' => ~(dfn[v] < dfn[w])
      BY <1>1, <1>3, <1>5
    <3>8. \E s \in Labels : /\ Numbered(s)' /\ dfn'[s] = headDfn'[u]
                            /\ \E q \in Labels : s \in children'[q]
      BY <1>1, <1>2, <2>2, <3>4
    <3>9. \A g \in Labels : Building(g)' /\ headDfn'[g] < dfn'[u] => headDfn'[g] < headDfn'[u]
      BY <1>1, <1>2, <2>2, <3>5
    <3> QED
      BY <1>1, <1>2, <2>2, <3>6, <3>7, <3>8, <3>9
  <2> QED
    BY <2>1, <2>2
<1>12. TreeInv'
  <2> SUFFICES ASSUME NEW a \in Labels, NEW u \in Labels,
                      Pending(a)', Numbered(u)', dfn'[a] < dfn'[u],
                      \A g \in Labels : Building(g)' => ~(dfn'[a] < headDfn'[g] /\ headDfn'[g] < dfn'[u])
               PROVE  \E w \in Labels :
                        /\ Numbered(w)' /\ dfn'[a] <= dfn'[w] /\ dfn'[w] < dfn'[u] /\ u \in children'[w]
                        /\ Pending(w)' \/ (Settled(u)' /\ headDfn'[w] <= headDfn'[u])
    BY DEF TreeInv
  <2>1. Pending(a) /\ a # v /\ Numbered(u) /\ dfn[a] < dfn[u]
    BY <1>1, <1>2
  <2>2. \A g \in Labels : Building(g) => ~(dfn[a] < headDfn[g] /\ headDfn[g] < dfn[u])
    BY <1>1, <1>2
  <2>3. PICK w \in Labels :
          /\ Numbered(w) /\ dfn[a] <= dfn[w] /\ dfn[w] < dfn[u] /\ u \in children[w]
          /\ Pending(w) \/ (Settled(u) /\ headDfn[w] <= headDfn[u])
    <3>1. TreeInv
      BY DEF BuilderInv
    <3> QED
      BY <2>1, <2>2, <3>1 DEF TreeInv
  <2>4. Pending(w)' \/ (Settled(u)' /\ headDfn'[w] <= headDfn'[u])
    <3>1. CASE w = v
      <4>1. Settled(u) /\ u # v
        BY <1>3, <1>5, <2>1, <2>3, <3>1
      <4>2. h <= headDfn[u]
        <5>1. MinDfn(u) = headDfn[u]
          BY <2>1, <4>1, MinDfnFacts DEF BuilderInv, Numbered
        <5> QED
          BY <1>1, <2>3, <3>1, <5>1 DEF IsHeadDfn
      <4> QED
        BY <1>1, <3>1, <4>1, <4>2
    <3>2. CASE w # v /\ Pending(w)
      BY <1>1, <3>2
    <3>3. CASE w # v /\ Settled(u) /\ headDfn[w] <= headDfn[u]
      <4>1. u # v
        BY <1>3, <3>3 DEF Settled, Pending
      <4> QED
        BY <1>1, <3>3, <4>1
    <3> QED
      BY <2>3, <3>1, <3>2, <3>3
  <2> QED
    BY <1>1, <1>2, <2>3, <2>4
<1>13. \E m : PlacedInv(m)'
  <2>1. PICK m : PlacedInv(m)
    BY DEF BuilderInv
  <2>2. \A l \in Labels : dfn[l] = DFN_INF => headDfn'[l] = headDfn[l]
    BY <1>1, <1>6 DEF Numbered
  <2>3. PlacedInv(m)'
    BY <1>1, <1>2, <2>1, <2>2, PlacedSame
  <2> QED
    BY <2>3
<1> QED
  BY <1>7, <1>8, <1>9, <1>10, <1>11, <1>12, <1>13 DEF BuilderInv

-----------------------------------------------------------------------------
(***************************************************************************)
(* Adding a component with the labels S at the front of a partition.       *)
(***************************************************************************)
Placeable(g, C, m, p, x, S) ==
  /\ ~x.cycle => S = {x.label} /\ (x.label \in g[x.label] => x.label = p)
  /\ x.cycle => S = m[x.label] /\ x.label # p /\ x.label \in S
  /\ \A c \in Cycles : \A i \in 1 .. Len(C[c]) : ~(C[c][i].cycle /\ C[c][i].label = p)
  /\ S \cap m[p] = {}
  /\ p \in S => x = [label |-> p, cycle |-> FALSE]
  /\ \A k \in m[p] : \A l \in S : l \in g[k] => l = p

LEMMA PlaceOne ==
  ASSUME NEW g, NEW C \in [Cycles -> Seq(Component)], NEW m, Ordered(g, C, m),
         NEW p \in Cycles, NEW x \in Component, NEW S \in SUBSET Labels,
         Placeable(g, C, m, p, x, S)
  PROVE  Ordered(g, [C EXCEPT ![p] = Append(C[p], x)], [m EXCEPT ![p] = m[p] \cup S])
<1> USE DEF Placeable
<1> DEFINE C2 == [C EXCEPT ![p] = Append(C[p], x)]
           m2 == [m EXCEPT ![p] = m[p] \cup S]
           n == Len(C[p])
<1>0. m \in [Cycles -> SUBSET Labels]
  BY DEF Ordered, IsMembers
<1>1. m2 \in [Cycles -> SUBSET Labels] /\ m2[p] = m[p] \cup S
      /\ \A c \in Cycles : c # p => m2[c] = m[c]
  BY <1>0
<1>2. \A c \in Cycles : c # p => C2[c] = C[c]
  OBVIOUS
<1>3. /\ n \in Nat /\ Len(C2[p]) = n + 1 /\ C2[p][n + 1] = x
      /\ \A i \in 1 .. n : C2[p][i] = C[p][i]
  <2>1. C[p] \in Seq(Component) /\ C2[p] = Append(C[p], x)
    OBVIOUS
  <2> QED
    BY <2>1, AppendProperties
<1>x. x.label \in Labels /\ x.label \in Cycles /\ x.cycle \in BOOLEAN
  BY DEF Component, Cycles
<1>4. \A c \in Cycles : \A i \in 1 .. Len(C[c]) :
        C[c][i].label \in Labels /\ C[c][i].label \in Cycles
  <2> SUFFICES ASSUME NEW c \in Cycles, NEW i \in 1 .. Len(C[c])
               PROVE  C[c][i].label \in Labels
    BY DEF Cycles
  <2>1. C[c][i] \in Component
    OBVIOUS
  <2> QED
    BY <2>1 DEF Component
<1> HIDE DEF C2, m2, n
<1>5. \A c \in Cycles : \A i \in 1 .. Len(C[c]) : LabelsAt(m2, C[c][i]) = LabelsAt(m, C[c][i])
  BY <1>1, <1>4 DEF LabelsAt
<1>6. LabelsAt(m2, x) = S
  BY <1>1, <1>x DEF LabelsAt
<1>7. \A i \in 1 .. n + 1 : i \in 1 .. n \/ i = n + 1
  BY <1>3
<1>8. 1 .. n = 1 .. Len(C[p])
  BY DEF n
<1>9. IsMembers(C2, m2)
  <2> SUFFICES ASSUME NEW c \in Cycles, NEW l \in Labels
               PROVE  l \in m2[c] <=> \E i \in 1 .. Len(C2[c]) : l \in LabelsAt(m2, C2[c][i])
    BY <1>1 DEF IsMembers
  <2>1. l \in m[c] <=> \E i \in 1 .. Len(C[c]) : l \in LabelsAt(m, C[c][i])
    BY DEF Ordered, IsMembers
  <2>2. CASE c # p
    BY <1>1, <1>2, <1>5, <2>1, <2>2
  <2>3. CASE c = p
    <3>1. ASSUME l \in m2[c]
          PROVE  \E i \in 1 .. Len(C2[c]) : l \in LabelsAt(m2, C2[c][i])
      <4>1. CASE l \in S
        <5>1. n + 1 \in 1 .. Len(C2[c]) /\ l \in LabelsAt(m2, C2[c][n + 1])
          BY <1>3, <1>6, <2>3, <4>1
        <5> QED BY <5>1
      <4>2. CASE l \in m[c]
        <5>1. PICK i \in 1 .. n : l \in LabelsAt(m, C[c][i])
          BY <1>8, <2>1, <2>3, <4>2
        <5>2. l \in LabelsAt(m2, C2[c][i]) /\ i \in 1 .. Len(C2[c])
          BY <1>3, <1>5, <1>8, <2>3, <5>1
        <5> QED BY <5>2
      <4> QED
        BY <1>1, <2>3, <3>1, <4>1, <4>2
    <3>2. ASSUME NEW i \in 1 .. Len(C2[c]), l \in LabelsAt(m2, C2[c][i])
          PROVE  l \in m2[c]
      <4>1. CASE i = n + 1
        BY <1>1, <1>3, <1>6, <2>3, <3>2, <4>1
      <4>2. CASE i \in 1 .. n
        <5>1. C2[c][i] = C[c][i] /\ i \in 1 .. Len(C[c])
          BY <1>3, <1>8, <2>3, <4>2
        <5>2. l \in LabelsAt(m, C[c][i])
          BY <1>5, <3>2, <5>1
        <5> QED
          BY <1>1, <2>1, <2>3, <5>1, <5>2
      <4> QED
        BY <1>3, <1>7, <2>3, <4>1, <4>2
    <3> QED
      BY <3>1, <3>2
  <2> QED
    BY <2>2, <2>3
<1>10. ASSUME NEW c \in Cycles, c # p
       PROVE  PartInv(g, C2, m2, c)
  <2>1. PartInv(g, C, m, c)
    BY DEF Ordered
  <2>2. \A i \in 1 .. Len(C[c]) : C[c][i].cycle => m2[C[c][i].label] = m[C[c][i].label]
    BY <1>1, <1>4
  <2> QED
    <3>1. \A i, j \in 1 .. Len(C[c]) :
            i # j => LabelsAt(m2, C[c][i]) \cap LabelsAt(m2, C[c][j]) = {}
      BY <1>5, <2>1 DEF PartInv
    <3>2. \A i \in 1 .. Len(C[c]) : C[c][i].cycle =>
            C[c][i].label # c /\ C[c][i].label \in m2[C[c][i].label]
      BY <2>1, <2>2 DEF PartInv
    <3>3. c \in m2[c] => \E i \in 1 .. Len(C[c]) : C[c][i] = [label |-> c, cycle |-> FALSE]
      BY <1>1, <1>10, <2>1 DEF PartInv
    <3>4. \A i, j \in 1 .. Len(C[c]) :
            \A k \in LabelsAt(m2, C[c][i]), l \in LabelsAt(m2, C[c][j]) :
              l \in g[k] /\ l # c => j < i \/ (i = j /\ C[c][i].cycle)
      BY <1>5, <2>1 DEF PartInv
    <3>5. C2[c] = C[c]
      BY <1>2, <1>10
    <3> QED
      BY <3>1, <3>2, <3>3, <3>4, <3>5 DEF PartInv
<1>11. PartInv(g, C2, m2, p)
  <2>1. PartInv(g, C, m, p)
    BY DEF Ordered
  <2>2. \A i \in 1 .. n : LabelsAt(m, C[p][i]) \subseteq m[p]
    <3> SUFFICES ASSUME NEW i \in 1 .. n, NEW l \in LabelsAt(m, C[p][i])
                 PROVE  l \in m[p]
      OBVIOUS
    <3>1. l \in Labels
      BY <1>0, <1>4, <1>8 DEF LabelsAt
    <3> QED
      BY <1>8, <3>1 DEF Ordered, IsMembers
  <2>3. \A i \in 1 .. n : /\ LabelsAt(m2, C2[p][i]) = LabelsAt(m, C[p][i])
                          /\ C2[p][i] = C[p][i]
    BY <1>3, <1>5, <1>8
  <2>4. LabelsAt(m2, C2[p][n + 1]) = S
    BY <1>3, <1>6
  <2>5. \A i, j \in 1 .. n + 1 :
          i # j => LabelsAt(m2, C2[p][i]) \cap LabelsAt(m2, C2[p][j]) = {}
    <3> SUFFICES ASSUME NEW i \in 1 .. n + 1, NEW j \in 1 .. n + 1, i # j
                 PROVE  LabelsAt(m2, C2[p][i]) \cap LabelsAt(m2, C2[p][j]) = {}
      OBVIOUS
    <3>1. CASE i \in 1 .. n /\ j \in 1 .. n
      BY <1>8, <2>1, <2>3, <3>1 DEF PartInv
    <3>2. CASE i = n + 1 /\ j \in 1 .. n
      BY <2>2, <2>3, <2>4, <3>2
    <3>3. CASE i \in 1 .. n /\ j = n + 1
      BY <2>2, <2>3, <2>4, <3>3
    <3> QED
      BY <1>7, <3>1, <3>2, <3>3
  <2>6. ASSUME NEW i \in 1 .. n + 1, C2[p][i].cycle
        PROVE  C2[p][i].label # p /\ C2[p][i].label \in m2[C2[p][i].label]
    <3>1. CASE i = n + 1
      BY <1>1, <1>3, <1>x, <2>6, <3>1
    <3>2. CASE i \in 1 .. n
      <4>1. C[p][i].label # p /\ C[p][i].label \in m[C[p][i].label] /\ C[p][i].label \in Cycles
        BY <1>4, <1>8, <2>1, <2>3, <2>6, <3>2 DEF PartInv
      <4> QED
        BY <1>1, <2>3, <3>2, <4>1
    <3> QED
      BY <1>7, <3>1, <3>2
  <2>7. p \in m2[p] => \E i \in 1 .. n + 1 : C2[p][i] = [label |-> p, cycle |-> FALSE]
    <3>1. CASE p \in S
      <4>1. C2[p][n + 1] = [label |-> p, cycle |-> FALSE] /\ n + 1 \in 1 .. n + 1
        BY <1>3, <3>1
      <4> QED BY <4>1
    <3>2. CASE p \in m[p]
      <4>1. PICK i \in 1 .. n : C[p][i] = [label |-> p, cycle |-> FALSE]
        BY <1>8, <2>1, <3>2 DEF PartInv
      <4>2. C2[p][i] = [label |-> p, cycle |-> FALSE] /\ i \in 1 .. n + 1
        BY <1>3, <2>3, <4>1
      <4> QED BY <4>2
    <3> QED
      BY <1>1, <3>1, <3>2
  <2>8. ASSUME NEW i \in 1 .. n + 1, NEW j \in 1 .. n + 1,
               NEW k \in LabelsAt(m2, C2[p][i]), NEW l \in LabelsAt(m2, C2[p][j]),
               l \in g[k], l # p
        PROVE  j < i \/ (i = j /\ C2[p][i].cycle)
    <3>1. CASE i = n + 1 /\ j \in 1 .. n
      BY <1>3, <3>1
    <3>2. CASE i = n + 1 /\ j = n + 1
      <4>1. k \in S /\ l \in S
        BY <2>4, <2>8, <3>2
      <4>2. x.cycle
        BY <2>8, <4>1
      <4> QED
        BY <1>3, <3>2, <4>2
    <3>3. CASE i \in 1 .. n /\ j = n + 1
      BY <2>2, <2>3, <2>4, <2>8, <3>3
    <3>4. CASE i \in 1 .. n /\ j \in 1 .. n
      BY <1>8, <2>1, <2>3, <2>8, <3>4 DEF PartInv
    <3> QED
      BY <1>7, <3>1, <3>2, <3>3, <3>4
  <2> QED
    BY <1>3, <2>5, <2>6, <2>7, <2>8 DEF PartInv
<1>12. Ordered(g, C2, m2)
  BY <1>9, <1>10, <1>11 DEF Ordered
<1> QED
  BY <1>12 DEF C2, m2

-----------------------------------------------------------------------------
(***************************************************************************)
(* start_visit of a vertex that is a component of its own.                 *)
(***************************************************************************)

(* The entry that start_visit pops unseen. *)
LEMMA TopOfStack ==
  ASSUME NumberTypes, StackInv, NEW v \in Labels, Numbered(v),
         \A u \in Labels : ~(Numbered(u) /\ dfn[v] < dfn[u])
  PROVE  stack # <<>> /\ stack[Len(stack)] = v
<1>1. stack \in Seq(Labels) /\ Len(stack) \in Nat
  BY DEF NumberTypes
<1>2. PICK i \in 1 .. Len(stack) : stack[i] = v
  BY DEF StackInv
<1>3. stack # <<>> /\ Len(stack) \in 1 .. Len(stack)
  BY <1>1, <1>2
<1>4. stack[Len(stack)] \in Labels /\ Numbered(stack[Len(stack)])
  BY <1>1, <1>3 DEF StackInv
<1>5. i < Len(stack) => dfn[v] < dfn[stack[Len(stack)]]
  BY <1>2, <1>3 DEF StackInv
<1>6. i = Len(stack)
  BY <1>1, <1>2, <1>4, <1>5
<1> QED
  BY <1>2, <1>3, <1>6

LEMMA OpenPartition ==
  ASSUME BuilderInv, visitStack # <<>>
  PROVE  /\ Top.partition \in Cycles
         /\ IsOpen(Top.partition)
         /\ Top.partition # NoCycle =>
              \E j \in Tasks : j < Len(visitStack) /\ IsContinue(j, Top.partition)
         /\ \A j \in Tasks, h \in Labels : j < Len(visitStack) /\ IsContinue(j, h) =>
              Top.partition # NoCycle /\ headDfn[h] <= headDfn[Top.partition]
<1>1. Len(visitStack) \in Tasks /\ visitStack[Len(visitStack)] \in Task
  BY TopTask DEF BuilderInv
<1>2. Top.partition \in Cycles
  BY <1>1, TaskFacts DEF Top
<1>3. /\ Top.partition # NoCycle =>
           \E j \in Tasks : j < Len(visitStack) /\ IsContinue(j, Top.partition)
      /\ \A j \in Tasks, h \in Labels : j < Len(visitStack) /\ IsContinue(j, h) =>
           Top.partition # NoCycle /\ headDfn[h] <= headDfn[Top.partition]
  BY <1>1, <1>2 DEF BuilderInv, PartitionInv, Top
<1>4. IsOpen(Top.partition)
  BY <1>3 DEF IsOpen, Building
<1> QED
  BY <1>2, <1>3, <1>4

LEMMA VertexNumbers ==
  ASSUME BuilderInv, visitStack # <<>>, Top.type = "StartVisit",
         NEW v \in Labels, v = Top.vertex, StartVisitVertex(v), UNCHANGED <<children, num>>
  PROVE  /\ \A l \in Labels : dfn'[l] = IF l = v THEN DFN_INF ELSE dfn[l]
         /\ \A l \in Labels : headDfn'[l] = IF l = v THEN dfn[v] ELSE headDfn[l]
         /\ \A l \in Labels : Numbered(l)' <=> Numbered(l) /\ l # v
         /\ \A l \in Labels : Pending(l)' <=> Pending(l) /\ l # v
         /\ \A l \in Labels : Settled(l)' <=> Settled(l)
         /\ \A l \in Labels : Building(l)' <=> Building(l)
         /\ \A l \in Labels : Building(l) => l # v
<1>3. Pending(v)
  BY StartOnTop
<1>6. \A l \in Labels : dfn'[l] = IF l = v THEN DFN_INF ELSE dfn[l]
  BY DEF BuilderInv, NumberTypes, StartVisitVertex
<1>7. \A l \in Labels : headDfn'[l] = IF l = v THEN dfn[v] ELSE headDfn[l]
  BY DEF BuilderInv, NumberTypes, StartVisitVertex
<1>8. \A l \in Labels : Numbered(l)' <=> Numbered(l) /\ l # v
  BY <1>6 DEF Numbered
<1>9. \A l \in Labels : Pending(l)' <=> Pending(l) /\ l # v
  BY <1>7, <1>8 DEF Pending
<1>10. \A l \in Labels : Settled(l)' <=> Settled(l)
  BY <1>3, <1>7, <1>8 DEF Settled, Pending
<1>11. \A l \in Labels : Building(l)' <=> Building(l)
  <2>1. visitStack' = Below
    BY DEF StartVisitVertex
  <2>2. ~ \E l : IsContinue(Len(visitStack), l)
    BY DEF IsContinue, Top
  <2> QED
    BY <2>1, <2>2, VisitPopTasks DEF Building, BuilderInv
<1>12. \A l \in Labels : Building(l) => l # v
  BY <1>3, BuildingFacts DEF Pending, Numbered
<1> QED
  BY <1>6, <1>7, <1>8, <1>9, <1>10, <1>11, <1>12

LEMMA VertexPlaced ==
  ASSUME BuilderInv, visitStack # <<>>, Top.type = "StartVisit",
         NEW v \in Labels, v = Top.vertex, StartVisitVertex(v), UNCHANGED <<children, num>>,
         NEW m, PlacedInv(m)
  PROVE  \E m2 :
           /\ PlacedInv(m2)' /\ m2 \in [Cycles -> SUBSET Labels]
           /\ \A c \in Cycles : m2[c] = IF c = Top.partition THEN m[c] \cup {v} ELSE m[c]
<1>1. /\ \A l \in Labels : dfn'[l] = IF l = v THEN DFN_INF ELSE dfn[l]
      /\ \A l \in Labels : headDfn'[l] = IF l = v THEN dfn[v] ELSE headDfn[l]
      /\ \A l \in Labels : Building(l)' <=> Building(l)
      /\ \A l \in Labels : Building(l) => l # v
  BY VertexNumbers
<1>2. Pending(v) /\ dfn[v] # DFN_INF
  BY StartOnTop DEF Pending, Numbered
<1>3. \A c \in children[v] : c \in Labels /\ dfn[c] = DFN_INF
  BY StartOnTop, VertexOnTop DEF StartVisitVertex
<1>4. PlacedInv(m)
  OBVIOUS
<1> DEFINE x == [label |-> v, cycle |-> FALSE]
<1>5. PICK p \in Cycles : p = Top.partition /\ IsOpen(p)
  BY OpenPartition
<1>m. PICK m2 : m2 = [m EXCEPT ![p] = m[p] \cup {v}]
  OBVIOUS
<1>6. components' = [components EXCEPT ![p] = Append(components[p], x)]
  BY <1>5 DEF StartVisitVertex
<1>0. m \in [Cycles -> SUBSET Labels] /\ components \in [Cycles -> Seq(Component)]
  BY <1>4 DEF PlacedInv, Ordered, IsMembers, BuilderInv, BuilderTypes
<1>n. \A c \in Cycles : v \notin m[c]
  BY <1>2, <1>4 DEF PlacedInv
<1>k. \A c \in Cycles : \A k \in m[c] : k \in Labels /\ v \notin children[k]
  BY <1>0, <1>2, <1>4 DEF PlacedInv
<1>b. \A c \in Cycles : IsOpen(c) => c # v
  BY <1>1, SentinelAssumption DEF IsOpen
<1>7. Ordered(children', components', m2)
  <2>1. x \in Component /\ ~x.cycle /\ x.label = v
    BY DEF Component
  <2>2. v \notin children[v] /\ p # v
    BY <1>2, <1>3, <1>5, <1>b
  <2>3. \A c \in Cycles : \A i \in 1 .. Len(components[c]) :
          ~(components[c][i].cycle /\ components[c][i].label = p)
    <3>1. CASE p = NoCycle
      BY <1>4, <3>1, PlacedFacts, SentinelAssumption
    <3>2. CASE p # NoCycle
      <4>1. p \in Labels /\ Building(p)
        BY <1>5, <3>2 DEF Cycles, IsOpen
      <4> QED
        BY <1>4, <4>1 DEF PlacedInv
    <3> QED
      BY <3>1, <3>2
  <2>4. Ordered(children, components, m)
    BY <1>4 DEF PlacedInv
  <2>5. PICK S : S = {v}
    OBVIOUS
  <2>6. /\ S \in SUBSET Labels /\ S \cap m[p] = {} /\ p \notin S /\ S = {x.label}
        /\ x.label \notin children[x.label]
        /\ \A k \in m[p] : \A l \in S : l \notin children[k]
    BY <1>5, <1>k, <1>n, <2>2, <2>5
  <2> HIDE DEF x
  <2>p. Placeable(children, components, m, p, x, S)
    BY <2>1, <2>3, <2>6 DEF Placeable
  <2>7. Ordered(children, [components EXCEPT ![p] = Append(components[p], x)],
                [m EXCEPT ![p] = m[p] \cup S])
    BY <1>0, <2>1, <2>4, <2>6, <2>p, PlaceOne
  <2> QED
    BY <1>6, <1>m, <2>5, <2>7
<1>8. m2 \in [Cycles -> SUBSET Labels] /\ \A c \in Cycles : m2[c] = IF c = p THEN m[p] \cup {v} ELSE m[c]
  BY <1>0, <1>5, <1>m
<1>9. \A c \in Cycles : components'[c] # <<>> => c = p \/ components[c] # <<>>
  BY <1>0, <1>5, <1>6
<1>10. ASSUME NEW c \in Cycles, NEW i \in 1 .. Len(components'[c]), components'[c][i].cycle
       PROVE  components'[c][i] = components[c][i] /\ i \in 1 .. Len(components[c])
  <2>1. CASE c # p
    BY <1>0, <1>6, <2>1, <1>10
  <2>2. CASE c = p
    <3>1. components[p] \in Seq(Component) /\ components'[c] = Append(components[p], x)
      BY <1>0, <1>5, <1>6, <2>2
    <3>2. /\ Len(components'[c]) = Len(components[p]) + 1 /\ Len(components[p]) \in Nat
          /\ components'[c][Len(components[p]) + 1] = x
          /\ \A j \in 1 .. Len(components[p]) : components'[c][j] = components[p][j]
      <4> HIDE DEF x
      <4> QED BY <3>1, AppendProperties
    <3>3. i # Len(components[p]) + 1
      BY <1>10, <3>2
    <3> QED
      BY <2>2, <3>2, <3>3
  <2> QED
    BY <2>1, <2>2
<1>o. \A c \in Cycles : IsOpen(c)' <=> IsOpen(c)
  BY <1>1 DEF IsOpen, Cycles
<1>11. \A c \in Cycles, h \in Labels : \A i \in 1 .. Len(components'[c]) :
         components'[c][i].cycle /\ components'[c][i].label = h =>
           ~Building(h)' /\ (c = NoCycle \/ headDfn'[c] < headDfn'[h])
  <2> SUFFICES ASSUME NEW c \in Cycles, NEW h \in Labels, NEW i \in 1 .. Len(components'[c]),
                      components'[c][i].cycle, components'[c][i].label = h
               PROVE  ~Building(h)' /\ (c = NoCycle \/ headDfn'[c] < headDfn'[h])
    OBVIOUS
  <2>1. components[c][i].cycle /\ components[c][i].label = h /\ i \in 1 .. Len(components[c])
    BY <1>10
  <2>2. dfn[h] = DFN_INF /\ (c = NoCycle \/ (c \in Labels /\ dfn[c] = DFN_INF))
    BY <1>4, <2>1, PlacedFacts
  <2>3. ~Building(h) /\ (c = NoCycle \/ headDfn[c] < headDfn[h])
    BY <1>4, <2>1 DEF PlacedInv
  <2> QED
    BY <1>1, <1>2, <2>2, <2>3
<1>12. \A c \in Cycles : components'[c] # <<>> => c = NoCycle \/ dfn'[c] = DFN_INF
  <2>1. \A c \in Labels : dfn[c] = DFN_INF => dfn'[c] = DFN_INF
    BY <1>1
  <2>2. p = NoCycle \/ (p \in Labels /\ dfn[p] = DFN_INF)
    BY <1>5, BuildingFacts DEF IsOpen, Cycles
  <2>3. \A c \in Cycles : components[c] # <<>> => c = NoCycle \/ dfn[c] = DFN_INF
    BY <1>4 DEF PlacedInv
  <2> QED
    BY <1>9, <2>1, <2>2, <2>3 DEF Cycles
<1>13. \A c \in Cycles : \A l \in m2[c] :
         /\ dfn'[l] = DFN_INF /\ ~Building(l)'
         /\ \A k \in children'[l] : dfn'[k] = DFN_INF
  <2> SUFFICES ASSUME NEW c \in Cycles, NEW l \in m2[c]
               PROVE  /\ dfn'[l] = DFN_INF /\ ~Building(l)'
                      /\ \A k \in children[l] : dfn'[k] = DFN_INF
    OBVIOUS
  <2>1. l \in Labels /\ children[l] \in SUBSET Labels
    BY <1>8, GraphFacts DEF BuilderInv
  <2>2. CASE l = v
    BY <1>1, <1>3, <2>2
  <2>3. CASE l \in m[c]
    BY <1>1, <1>4, <2>1, <2>3 DEF PlacedInv
  <2> QED
    BY <1>8, <2>2, <2>3
<1>14. \A l \in Labels : dfn'[l] = DFN_INF =>
         Building(l)' \/ \E c \in Cycles : IsOpen(c)' /\ l \in m2[c]
  <2> SUFFICES ASSUME NEW l \in Labels, dfn'[l] = DFN_INF, ~Building(l)
               PROVE  \E c \in Cycles : IsOpen(c) /\ l \in m2[c]
    BY <1>1, <1>o
  <2>1. CASE l = v
    BY <1>5, <1>8, <2>1
  <2>2. CASE l # v
    <3>1. PICK c \in Cycles : IsOpen(c) /\ l \in m[c]
      BY <1>1, <1>4, <2>2 DEF PlacedInv
    <3> QED
      BY <1>8, <3>1
  <2> QED
    BY <2>1, <2>2
<1>15. \A c, b \in Cycles : IsOpen(c)' /\ IsOpen(b)' /\ c # b => m2[c] \cap m2[b] = {}
  <2>1. \A c, b \in Cycles : IsOpen(c) /\ IsOpen(b) /\ c # b => m[c] \cap m[b] = {}
    BY <1>4 DEF PlacedInv
  <2> QED
    BY <1>8, <1>n, <1>o, <2>1
<1>16. \A h \in Labels, c \in Cycles :
         Building(h)' /\ IsOpen(c)' /\ (c = NoCycle \/ headDfn'[c] < headDfn'[h]) =>
           \A k \in m2[c] : children'[k] \cap (m2[h] \cup {h}) = {}
  <2> SUFFICES ASSUME NEW h \in Labels, NEW c \in Cycles, Building(h), IsOpen(c),
                      c = NoCycle \/ headDfn'[c] < headDfn'[h], NEW k \in m2[c]
               PROVE  children[k] \cap (m2[h] \cup {h}) = {}
    BY <1>1, <1>o
  <2>1. h # v /\ c # v /\ h \in Cycles
    BY <1>1, <1>b DEF Cycles
  <2>2. c = NoCycle \/ headDfn[c] < headDfn[h]
    BY <1>1, <2>1 DEF Cycles
  <2>3. CASE c = p
    <3>1. PICK j \in Tasks : IsContinue(j, h)
      BY DEF Building
    <3>2. j < Len(visitStack)
      <4>1. j # Len(visitStack)
        BY <3>1 DEF IsContinue, Top
      <4> QED
        BY <4>1, TopTask DEF BuilderInv
    <3>3. p # NoCycle /\ headDfn[h] <= headDfn[p]
      BY <1>5, <3>1, <3>2, OpenPartition
    <3>4. p \in Labels
      BY <1>5, <3>3 DEF Cycles
    <3>5. headDfn[h] \in Nat /\ headDfn[p] \in Nat
      BY <3>4, NumberFacts DEF BuilderInv
    <3> QED
      BY <2>2, <2>3, <3>3, <3>5
  <2>4. CASE c # p
    <3>1. k \in m[c]
      BY <1>8, <2>4
    <3>2. children[k] \cap (m[h] \cup {h}) = {}
      BY <1>4, <2>2, <3>1 DEF PlacedInv
    <3>3. v \notin children[k]
      BY <1>k, <3>1
    <3> QED
      BY <1>8, <2>1, <3>2, <3>3
  <2> QED
    BY <2>3, <2>4
<1>17. PlacedInv(m2)'
  BY <1>7, <1>11, <1>12, <1>13, <1>14, <1>15, <1>16 DEF PlacedInv
<1> QED
  BY <1>5, <1>8, <1>17

LEMMA VertexStep ==
  ASSUME BuilderInv, BuilderTypes', visitStack # <<>>, Top.type = "StartVisit",
         NEW v \in Labels, v = Top.vertex, StartVisitVertex(v), UNCHANGED <<children, num>>
  PROVE  BuilderInv'
<1>1. /\ \A l \in Labels : dfn'[l] = IF l = v THEN DFN_INF ELSE dfn[l]
      /\ \A l \in Labels : headDfn'[l] = IF l = v THEN dfn[v] ELSE headDfn[l]
      /\ \A l \in Labels : Numbered(l)' <=> Numbered(l) /\ l # v
      /\ \A l \in Labels : Pending(l)' <=> Pending(l) /\ l # v
      /\ \A l \in Labels : Settled(l)' <=> Settled(l)
      /\ \A l \in Labels : Building(l)' <=> Building(l)
      /\ \A l \in Labels : Building(l) => l # v
  BY VertexNumbers
<1>2. /\ visitStack' = Below /\ num' = num /\ children' = children
      /\ dfn' = [dfn EXCEPT ![v] = DFN_INF] /\ headDfn' = [headDfn EXCEPT ![v] = dfn[v]]
      /\ stack' = SubSeq(stack, 1, Len(stack) - 1)
      /\ ~IsLoop(v)
  BY DEF StartVisitVertex
<1>3. /\ Pending(v)
      /\ \A c \in children[v] : c \in Labels /\ dfn[c] # 0
      /\ \A u \in Labels : ~(Numbered(u) /\ dfn[v] < dfn[u])
  BY <1>2, StartOnTop, VertexOnTop
<1>4. IsStart(Len(visitStack), v) /\ \A l : IsStart(Len(visitStack), l) => l = v
  BY DEF IsStart, Top
<1>5. /\ \A l \in Labels : dfn[l] \in Nat /\ headDfn[l] \in Nat
      /\ num \in Nat /\ num < DFN_INF /\ DFN_INF \in Nat
  BY NumberFacts DEF BuilderInv
<1>6. Numbered(v) /\ dfn[v] < DFN_INF /\ dfn[v] \in 0 .. DFN_INF
  BY <1>3, <1>5, NumberFacts DEF Pending, BuilderInv
<1>s. stack # <<>> /\ stack[Len(stack)] = v /\ stack \in Seq(Labels)
  BY <1>3, <1>6, TopOfStack DEF BuilderInv, NumberTypes
<1>t. /\ stack' \in Seq(Labels) /\ Len(stack') = Len(stack) - 1 /\ Len(stack) \in Nat
      /\ \A i \in 1 .. Len(stack) - 1 : stack'[i] = stack[i]
  BY <1>2, <1>s, FrontType
<1>7. NumberTypes'
  BY <1>2, <1>5, <1>6, <1>t DEF BuilderInv, NumberTypes
<1>8. StackInv'
  <2>1. \A l \in Labels : dfn'[l] = 0 => headDfn'[l] = 0
    BY <1>1, <1>6 DEF BuilderInv, StackInv, Numbered
  <2>2. ASSUME NEW i \in 1 .. Len(stack')
        PROVE  /\ i \in 1 .. Len(stack) /\ stack'[i] = stack[i] /\ stack[i] \in Labels
               /\ stack[i] # v /\ dfn'[stack[i]] = dfn[stack[i]]
    <3>1. i \in 1 .. Len(stack) /\ stack'[i] = stack[i] /\ i < Len(stack) /\ Len(stack) \in 1 .. Len(stack)
      BY <1>t
    <3>2. stack[i] \in Labels
      BY <1>s, <3>1
    <3>3. dfn[stack[i]] < dfn[v]
      BY <1>s, <3>1 DEF BuilderInv, StackInv
    <3>4. stack[i] # v
      BY <1>5, <3>3
    <3> QED
      BY <1>1, <3>1, <3>2, <3>4
  <2>3. \A i \in 1 .. Len(stack') :
          dfn'[stack'[i]] # 0 /\ dfn'[stack'[i]] # DFN_INF /\ dfn'[stack'[i]] <= num'
    BY <1>2, <2>2 DEF BuilderInv, StackInv, Numbered
  <2>4. \A l \in Labels : Numbered(l)' => \E i \in 1 .. Len(stack') : stack'[i] = l
    <3> SUFFICES ASSUME NEW l \in Labels, Numbered(l), l # v
                 PROVE  \E i \in 1 .. Len(stack') : stack'[i] = l
      BY <1>1
    <3>1. PICK i \in 1 .. Len(stack) : stack[i] = l
      BY DEF BuilderInv, StackInv
    <3>2. i \in 1 .. Len(stack) - 1
      BY <1>s, <1>t, <3>1
    <3> QED
      BY <1>t, <3>1, <3>2
  <2>5. \A i, j \in 1 .. Len(stack') : i < j => dfn'[stack'[i]] < dfn'[stack'[j]]
    BY <2>2 DEF BuilderInv, StackInv
  <2> QED
    BY <2>1, <2>3, <2>4, <2>5 DEF StackInv, Numbered
<1>9. /\ VisitInv' /\ PartitionInv' /\ RegionInv' /\ WhiteInv'
      /\ Len(visitStack) # 1 => EntryFirst'
  <2>1. ~IsPush(Len(visitStack))
    BY DEF IsPush, Top
  <2>2. \A l \in Labels : dfn[l] = DFN_INF => headDfn'[l] = headDfn[l]
    BY <1>1, <1>6 DEF Numbered
  <2>3. \A l \in Labels : Pending(l)' <=> Pending(l) /\ ~IsStart(Len(visitStack), l)
    BY <1>1, <1>4
  <2>4. \A l \in Labels : dfn'[l] = dfn[l] \/ (dfn'[l] = DFN_INF /\ Numbered(l))
    BY <1>1, <1>6
  <2>5. \A l \in Labels : dfn'[l] # dfn[l] => IsStart(Len(visitStack), l)
    BY <1>1, <1>4
  <2> QED
    BY <1>2, <2>1, <2>2, <2>3, <2>4, <2>5, PopKeeps
<1>10. EntryFirst'
  <2> SUFFICES ASSUME Len(visitStack) = 1 PROVE EntryFirst'
    BY <1>9
  <2>1. v = EntryLabel /\ Top.partition = NoCycle
    BY <1>4 DEF BuilderInv, EntryFirst, IsStart, IsPush, Top
  <2>2. components' = [components EXCEPT
          ![NoCycle] = Append(components[NoCycle], [label |-> v, cycle |-> FALSE])]
    BY <2>1 DEF StartVisitVertex
  <2>3. components \in [Cycles -> Seq(Component)] /\ NoCycle \in Cycles
    BY DEF BuilderInv, BuilderTypes, Cycles
  <2>4. [label |-> v, cycle |-> FALSE] \in Component
    BY DEF Component
  <2>5. components'[NoCycle] = Append(components[NoCycle], [label |-> v, cycle |-> FALSE])
    BY <2>2, <2>3
  <2>6. components[NoCycle] \in Seq(Component)
    BY <2>3
  <2>7. components'[NoCycle] # <<>>
        /\ components'[NoCycle][Len(components'[NoCycle])] = [label |-> v, cycle |-> FALSE]
    BY <2>4, <2>5, <2>6, AppendProperties
  <2>8. visitStack' = <<>>
    <3>1. Len(visitStack') = 0 /\ visitStack' \in Seq(Task)
      BY <1>2, VisitPop DEF BuilderInv, BuilderTypes
    <3> QED
      BY <3>1
  <2> QED
    BY <2>1, <2>7, <2>8 DEF EntryFirst
<1>11. LowInv'
  <2> SUFFICES ASSUME NEW u \in Labels, Settled(u)'
               PROVE  /\ headDfn'[u] < dfn'[u]
                      /\ \E s \in Labels : /\ Numbered(s)' /\ dfn'[s] = headDfn'[u]
                                           /\ \E q \in Labels : s \in children'[q]
                      /\ \A g \in Labels : Building(g)' /\ headDfn'[g] < dfn'[u] =>
                           headDfn'[g] < headDfn'[u]
                      /\ \A c \in children'[u] : dfn'[c] # 0 /\ headDfn'[u] <= dfn'[c]
                      /\ \A c \in children'[u], w \in Labels :
                           Pending(w)' /\ dfn'[u] < dfn'[w] =>
                             dfn'[c] = DFN_INF \/ dfn'[c] < dfn'[w]
    BY DEF LowInv
  <2>1. Settled(u) /\ u # v /\ LowInv /\ Numbered(u)
    BY <1>1, <1>3 DEF BuilderInv, Settled, Pending
  <2>2. \A g \in Labels : Building(g)' /\ headDfn'[g] < dfn'[u] => headDfn'[g] < headDfn'[u]
    BY <1>1, <1>2, <2>1 DEF LowInv
  <2>3. \E s \in Labels : /\ Numbered(s)' /\ dfn'[s] = headDfn'[u]
                          /\ \E q \in Labels : s \in children'[q]
    <3>1. PICK s \in Labels : /\ Numbered(s) /\ dfn[s] = headDfn[u]
                              /\ \E q \in Labels : s \in children[q]
      BY <2>1 DEF LowInv
    <3>2. s # v
      <4>1. headDfn[u] < dfn[u]
        BY <2>1 DEF LowInv
      <4> QED
        BY <1>3, <2>1, <3>1, <4>1
    <3> QED
      BY <1>1, <1>2, <2>1, <3>1, <3>2
  <2>c. \A c \in children[u] : c \in Labels
    BY GraphFacts DEF BuilderInv
  <2>4. \A c \in children'[u], w \in Labels : Pending(w)' /\ dfn'[u] < dfn'[w] =>
          dfn'[c] = DFN_INF \/ dfn'[c] < dfn'[w]
    BY <1>1, <1>2, <2>1, <2>c DEF LowInv
  <2>5. \A c \in children'[u] : dfn'[c] # 0 /\ headDfn'[u] <= dfn'[c]
    <3>1. headDfn[u] <= DFN_INF /\ DFN_INF # 0
      BY <1>5 DEF BuilderInv, NumberTypes
    <3> QED
      BY <1>1, <1>2, <2>1, <2>c, <3>1 DEF LowInv
  <2>6. headDfn'[u] < dfn'[u]
    BY <1>1, <2>1 DEF LowInv
  <2> QED
    BY <2>2, <2>3, <2>4, <2>5, <2>6
<1>12. TreeInv'
  <2> SUFFICES ASSUME NEW a \in Labels, NEW u \in Labels,
                      Pending(a)', Numbered(u)', dfn'[a] < dfn'[u],
                      \A g \in Labels : Building(g)' => ~(dfn'[a] < headDfn'[g] /\ headDfn'[g] < dfn'[u])
               PROVE  \E w \in Labels :
                        /\ Numbered(w)' /\ dfn'[a] <= dfn'[w] /\ dfn'[w] < dfn'[u] /\ u \in children'[w]
                        /\ Pending(w)' \/ (Settled(u)' /\ headDfn'[w] <= headDfn'[u])
    BY DEF TreeInv
  <2>1. Pending(a) /\ a # v /\ u # v /\ Numbered(u) /\ dfn[a] < dfn[u]
    BY <1>1, <1>2
  <2>2. \A g \in Labels : Building(g) => ~(dfn[a] < headDfn[g] /\ headDfn[g] < dfn[u])
    BY <1>1, <1>2, <2>1
  <2>3. PICK w \in Labels :
          /\ Numbered(w) /\ dfn[a] <= dfn[w] /\ dfn[w] < dfn[u] /\ u \in children[w]
          /\ Pending(w) \/ (Settled(u) /\ headDfn[w] <= headDfn[u])
    <3>1. TreeInv
      BY DEF BuilderInv
    <3> QED
      BY <2>1, <2>2, <3>1 DEF TreeInv
  <2>4. w # v
    BY <1>3, <2>1, <2>3
  <2> QED
    BY <1>1, <1>2, <2>1, <2>3, <2>4
<1>13. \E m : PlacedInv(m)'
  <2>1. PICK m : PlacedInv(m)
    BY DEF BuilderInv
  <2> QED
    BY <2>1, VertexPlaced
<1> QED
  BY <1>7, <1>8, <1>9, <1>10, <1>11, <1>12, <1>13 DEF BuilderInv

-----------------------------------------------------------------------------
(***************************************************************************)
(* continue_visit                                                          *)
(***************************************************************************)
LEMMA ContinueNumbers ==
  ASSUME BuilderInv, NEW v \in Labels, ContinueVisit(v)
  PROVE  /\ \A l \in Labels : Numbered(l)' <=> Numbered(l)
         /\ \A l \in Labels : Pending(l)' <=> Pending(l)
         /\ \A l \in Labels : Settled(l)' <=> Settled(l)
         /\ \A l \in Labels : Building(l)' <=> Building(l) /\ l # v
<1>1. visitStack # <<>> /\ Top.type = "ContinueVisit" /\ v = Top.vertex /\ visitStack' = Below
  BY DEF ContinueVisit
<1>2. dfn' = dfn /\ headDfn' = headDfn
  BY DEF ContinueVisit
<1>3. \A l \in Labels : Building(l)' <=> Building(l) /\ l # v
  <2>1. \A l : IsContinue(Len(visitStack), l) <=> l = v
    BY <1>1 DEF IsContinue, Top
  <2>2. \A i \in Tasks : IsContinue(i, v) => i = Len(visitStack)
    BY <1>1, ContinueOnTop
  <2>3. /\ \A i \in Tasks' : i \in Tasks /\ i # Len(visitStack)
        /\ \A i \in Tasks : i # Len(visitStack) => i \in Tasks'
        /\ \A i \in Tasks' : \A l : IsContinue(i, l)' <=> IsContinue(i, l)
    BY <1>1, VisitPopTasks DEF BuilderInv
  <2> QED
    BY <2>1, <2>2, <2>3 DEF Building
<1> QED
  BY <1>2, <1>3 DEF Numbered, Pending, Settled

(* The partition of a cycle's head is an outer one. *)
LEMMA OuterPartition ==
  ASSUME BuilderInv, visitStack # <<>>, Top.type = "ContinueVisit",
         NEW v \in Labels, v = Top.vertex
  PROVE  \E p \in Cycles :
           /\ p = Top.partition /\ p # v /\ IsOpen(p)
           /\ p = NoCycle \/ (p \in Labels /\ Building(p) /\ headDfn[p] < headDfn[v])
           /\ \A g \in Labels : Building(g) => g = v \/ (p # NoCycle /\ headDfn[g] <= headDfn[p])
<1>1. PICK p \in Cycles : p = Top.partition
  BY OpenPartition
<1>2. /\ IsOpen(p)
      /\ p # NoCycle => \E j \in Tasks : j < Len(visitStack) /\ IsContinue(j, p)
      /\ \A j \in Tasks, h \in Labels : j < Len(visitStack) /\ IsContinue(j, h) =>
           p # NoCycle /\ headDfn[h] <= headDfn[p]
  BY <1>1, OpenPartition
<1>3. /\ \A i \in Tasks : IsContinue(i, v) => i = Len(visitStack)
      /\ \A i \in Tasks : ~IsPush(i) => i = Len(visitStack) \/ NumberOf(i) < headDfn[v]
  BY ContinueOnTop
<1>4. /\ Len(visitStack) \in Nat
      /\ \A i \in Tasks : i \in Int /\ i <= Len(visitStack)
  BY TopTask DEF BuilderInv
<1>5. p # v
  BY <1>2, <1>3, <1>4, SentinelAssumption
<1>6. p = NoCycle \/ (p \in Labels /\ Building(p) /\ headDfn[p] < headDfn[v])
  <2> SUFFICES ASSUME p # NoCycle
               PROVE  p \in Labels /\ Building(p) /\ headDfn[p] < headDfn[v]
    OBVIOUS
  <2>1. PICK j \in Tasks : j < Len(visitStack) /\ IsContinue(j, p)
    BY <1>2
  <2>2. ~IsPush(j) /\ NumberOf(j) = headDfn[p]
    BY <2>1 DEF IsContinue, IsPush, NumberOf
  <2> QED
    BY <1>3, <1>4, <2>1, <2>2 DEF Building, Cycles
<1>7. \A g \in Labels : Building(g) => g = v \/ (p # NoCycle /\ headDfn[g] <= headDfn[p])
  <2> SUFFICES ASSUME NEW g \in Labels, Building(g), g # v
               PROVE  p # NoCycle /\ headDfn[g] <= headDfn[p]
    OBVIOUS
  <2>1. PICK j \in Tasks : IsContinue(j, g)
    BY DEF Building
  <2>2. j # Len(visitStack)
    BY <2>1 DEF IsContinue, Top
  <2>3. j < Len(visitStack)
    BY <1>4, <2>2
  <2> QED
    BY <1>2, <2>1, <2>3
<1> QED
  BY <1>1, <1>2, <1>5, <1>6, <1>7

(* The labels and the components after a cycle is added to partition p. *)
CycleAdded(C, C2, m, m2, v, p) ==
  /\ m2 \in [Cycles -> SUBSET Labels]
  /\ \A c \in Cycles : m2[c] = IF c = v THEN m[v] \cup {v}
                               ELSE IF c = p THEN m[p] \cup m[v] \cup {v} ELSE m[c]
  /\ \A c \in Cycles : C2[c] # <<>> => c \in {p, v} \/ C[c] # <<>>
  /\ \A c \in Cycles : \A i \in 1 .. Len(C2[c]) : C2[c][i].cycle =>
       \/ c = p /\ C2[c][i].label = v
       \/ C2[c][i] = C[c][i] /\ i \in 1 .. Len(C[c])

(* The head closes its own partition, and the cycle joins the outer one. *)
LEMMA ContinueOrdered ==
  ASSUME BuilderInv, NEW v \in Labels, ContinueVisit(v), NEW m, PlacedInv(m),
         NEW p \in Cycles, p = Top.partition
  PROVE  \E m2 : Ordered(children, components', m2) /\ CycleAdded(components, components', m, m2, v, p)
<1> DEFINE x == [label |-> v, cycle |-> FALSE]
           y == [label |-> v, cycle |-> TRUE]
<1>1. visitStack # <<>> /\ Top.type = "ContinueVisit" /\ v = Top.vertex
  BY DEF ContinueVisit
<1>2. Building(v) /\ v \in Cycles
  BY <1>1, ContinueOnTop DEF Cycles
<1>3. /\ p # v /\ IsOpen(p)
      /\ p = NoCycle \/ (p \in Labels /\ Building(p) /\ headDfn[p] < headDfn[v])
  BY <1>1, OuterPartition
<1>4. m \in [Cycles -> SUBSET Labels] /\ components \in [Cycles -> Seq(Component)]
      /\ Ordered(children, components, m)
  BY DEF PlacedInv, Ordered, IsMembers, BuilderInv, BuilderTypes
<1>5. components' = [components EXCEPT ![v] = Append(components[v], x),
                                       ![p] = Append(components[p], y)]
  BY DEF ContinueVisit
<1>6. PICK C1 : C1 = [components EXCEPT ![v] = Append(components[v], x)]
  OBVIOUS
<1>7. PICK m1 : m1 = [m EXCEPT ![v] = m[v] \cup {v}]
  OBVIOUS
<1>xy. x \in Component /\ y \in Component /\ ~x.cycle /\ y.cycle /\ x.label = v /\ y.label = v
  BY DEF Component
<1>8. \A c \in Cycles : \A l \in m[c] : l \in Labels /\ ~Building(l)
  BY <1>4 DEF PlacedInv
<1>9. \A c \in Cycles : \A i \in 1 .. Len(components[c]) :
        ~(components[c][i].cycle /\ (components[c][i].label = v \/ components[c][i].label = p))
  <2> SUFFICES ASSUME NEW c \in Cycles, NEW i \in 1 .. Len(components[c]), components[c][i].cycle
               PROVE  components[c][i].label # v /\ components[c][i].label # p
    OBVIOUS
  <2>1. components[c][i].label \in Labels
    BY PlacedFacts
  <2>2. ~Building(components[c][i].label)
    BY <2>1 DEF PlacedInv
  <2> QED
    BY <1>2, <1>3, <2>1, <2>2, SentinelAssumption
<1>10. Ordered(children, C1, m1)
  <2>1. PICK S : S = {v}
    OBVIOUS
  <2>2. S \in SUBSET Labels /\ S \cap m[v] = {} /\ S = {x.label}
    BY <1>2, <1>8, <2>1
  <2>3. \A l \in S : l = v
    BY <2>1
  <2> HIDE DEF x
  <2>4. v \in S => x = [label |-> v, cycle |-> FALSE]
    BY DEF x
  <2>p. Placeable(children, components, m, v, x, S)
    BY <1>9, <1>xy, <2>2, <2>3, <2>4 DEF Placeable
  <2>5. Ordered(children, [components EXCEPT ![v] = Append(components[v], x)],
                [m EXCEPT ![v] = m[v] \cup S])
    BY <1>2, <1>4, <1>xy, <2>2, <2>p, PlaceOne
  <2> QED
    BY <1>6, <1>7, <2>1, <2>5
<1>11. C1 \in [Cycles -> Seq(Component)] /\ C1[p] = components[p] /\ C1[v] = Append(components[v], x)
       /\ \A c \in Cycles : c # v => C1[c] = components[c]
  <2>1. components[v] \in Seq(Component)
    BY <1>2, <1>4
  <2>2. Append(components[v], x) \in Seq(Component)
    BY <1>xy, <2>1, AppendProperties
  <2> QED
    BY <1>2, <1>3, <1>4, <1>6, <2>2
<1>12. m1 \in [Cycles -> SUBSET Labels] /\ m1[v] = m[v] \cup {v}
       /\ \A c \in Cycles : c # v => m1[c] = m[c]
  BY <1>2, <1>4, <1>7
<1>13. /\ components[v] \in Seq(Component) /\ Len(components[v]) \in Nat
       /\ Len(C1[v]) = Len(components[v]) + 1 /\ C1[v][Len(components[v]) + 1] = x
       /\ \A i \in 1 .. Len(components[v]) : C1[v][i] = components[v][i]
  <2>1. components[v] \in Seq(Component)
    BY <1>2, <1>4
  <2> HIDE DEF x
  <2> QED
    BY <1>11, <1>xy, <2>1, AppendProperties
<1>14. ASSUME NEW c \in Cycles, NEW i \in 1 .. Len(C1[c]), C1[c][i].cycle
       PROVE  C1[c][i] = components[c][i] /\ i \in 1 .. Len(components[c])
  <2>1. CASE c # v
    BY <1>11, <2>1
  <2>2. CASE c = v
    <3>1. i # Len(components[v]) + 1
      BY <1>13, <1>14, <2>2
    <3> QED
      BY <1>13, <2>2, <3>1
  <2> QED
    BY <2>1, <2>2
<1> HIDE DEF x, y
<1>15. PICK C2 : C2 = [C1 EXCEPT ![p] = Append(C1[p], y)]
  OBVIOUS
<1>16. PICK m2 : m2 = [m1 EXCEPT ![p] = m1[p] \cup m1[v]]
  OBVIOUS
<1>17. Ordered(children, C2, m2)
  <2>1. PICK S : S = m1[v]
    OBVIOUS
  <2>2. S \in SUBSET Labels /\ v \in S
    BY <1>2, <1>12, <2>1
  <2>3. S \cap m1[p] = {}
    <3>1. m[v] \cap m[p] = {}
      BY <1>2, <1>3 DEF PlacedInv, IsOpen
    <3>2. v \notin m[p]
      BY <1>2, <1>8
    <3> QED
      BY <1>3, <1>12, <2>1, <3>1, <3>2
  <2>4. p \notin S
    BY <1>2, <1>3, <1>8, <1>12, <2>1, SentinelAssumption
  <2>5. \A k \in m1[p] : \A l \in S : l \notin children[k]
    <3>1. \A k \in m[p] : children[k] \cap (m[v] \cup {v}) = {}
      BY <1>2, <1>3 DEF PlacedInv
    <3> QED
      BY <1>3, <1>12, <2>1, <3>1
  <2>6. \A c \in Cycles : \A i \in 1 .. Len(C1[c]) : ~(C1[c][i].cycle /\ C1[c][i].label = p)
    BY <1>9, <1>14
  <2>7. S = m1[y.label] /\ y.label # p /\ y.label \in S
    BY <1>3, <1>xy, <2>1, <2>2
  <2>8. Ordered(children, [C1 EXCEPT ![p] = Append(C1[p], y)], [m1 EXCEPT ![p] = m1[p] \cup S])
    <3>1. C1 \in [Cycles -> Seq(Component)] /\ y \in Component /\ S \in SUBSET Labels
      BY <1>11, <1>xy, <2>2
    <3>2. ~y.cycle => S = {y.label} /\ (y.label \in children[y.label] => y.label = p)
      BY <1>xy
    <3>3. y.cycle => S = m1[y.label] /\ y.label # p /\ y.label \in S
      BY <2>7
    <3>4. p \in S => y = [label |-> p, cycle |-> FALSE]
      BY <2>4
    <3>5. \A k \in m1[p] : \A l \in S : l \in children[k] => l = p
      BY <2>5
    <3>6. Placeable(children, C1, m1, p, y, S)
      BY <2>3, <2>6, <3>2, <3>3, <3>4, <3>5 DEF Placeable
    <3> QED
      BY <1>10, <3>1, <3>6, PlaceOne
  <2> QED
    BY <1>15, <1>16, <2>1, <2>8
<1>18. components' = C2
  BY <1>3, <1>4, <1>5, <1>6, <1>11, <1>15
<1>19. /\ m2 \in [Cycles -> SUBSET Labels]
       /\ \A c \in Cycles : m2[c] = IF c = v THEN m[v] \cup {v}
                                    ELSE IF c = p THEN m[p] \cup m[v] \cup {v} ELSE m[c]
  BY <1>2, <1>3, <1>12, <1>16
<1>20. \A c \in Cycles : components'[c] # <<>> => c \in {p, v} \/ components[c] # <<>>
  BY <1>11, <1>15, <1>18
<1>21. /\ Len(C1[p]) \in Nat
       /\ Len(C2[p]) = Len(C1[p]) + 1 /\ C2[p][Len(C1[p]) + 1] = y
       /\ \A i \in 1 .. Len(C1[p]) : C2[p][i] = C1[p][i]
  <2>1. C1[p] \in Seq(Component) /\ C2[p] = Append(C1[p], y)
    BY <1>11, <1>15
  <2> QED
    BY <1>xy, <2>1, AppendProperties
<1>22. ASSUME NEW c \in Cycles, NEW i \in 1 .. Len(components'[c]), components'[c][i].cycle
       PROVE  \/ c = p /\ components'[c][i].label = v
              \/ components'[c][i] = components[c][i] /\ i \in 1 .. Len(components[c])
  <2>1. CASE c # p
    <3>1. components'[c] = C1[c]
      BY <1>11, <1>15, <1>18, <2>1
    <3> QED
      BY <1>14, <1>22, <3>1
  <2>2. CASE c = p
    <3>1. CASE i = Len(C1[p]) + 1
      BY <1>18, <1>21, <1>xy, <2>2, <3>1
    <3>2. CASE i # Len(C1[p]) + 1
      <4>1. i \in 1 .. Len(C1[p]) /\ components'[c][i] = C1[p][i]
        BY <1>18, <1>21, <2>2, <3>2
      <4> QED
        BY <1>11, <2>2, <4>1
    <3> QED
      BY <3>1, <3>2
  <2> QED
    BY <2>1, <2>2
<1>23. CycleAdded(components, components', m, m2, v, p)
  BY <1>19, <1>20, <1>22 DEF CycleAdded
<1> QED
  BY <1>17, <1>18, <1>23

LEMMA ContinuePlaced ==
  ASSUME BuilderInv, NEW v \in Labels, ContinueVisit(v), NEW m, PlacedInv(m)
  PROVE  \E m2 :
           /\ PlacedInv(m2)' /\ m2 \in [Cycles -> SUBSET Labels]
           /\ \A c \in Cycles : m2[c] = IF c = v THEN m[v] \cup {v}
                                        ELSE IF c = Top.partition THEN m[c] \cup m[v] \cup {v} ELSE m[c]
<1>1. visitStack # <<>> /\ Top.type = "ContinueVisit" /\ v = Top.vertex
      /\ dfn' = dfn /\ headDfn' = headDfn /\ children' = children
  BY DEF ContinueVisit
<1>2. PlacedInv(m)
  OBVIOUS
<1>3. PICK p \in Cycles :
        /\ p = Top.partition /\ p # v /\ IsOpen(p)
        /\ p = NoCycle \/ (p \in Labels /\ Building(p) /\ headDfn[p] < headDfn[v])
        /\ \A g \in Labels : Building(g) => g = v \/ (p # NoCycle /\ headDfn[g] <= headDfn[p])
  BY <1>1, OuterPartition
<1>4. PICK m2 :
        /\ m2 \in [Cycles -> SUBSET Labels]
        /\ Ordered(children, components', m2)
        /\ \A c \in Cycles : m2[c] = IF c = v THEN m[v] \cup {v}
                                     ELSE IF c = p THEN m[p] \cup m[v] \cup {v} ELSE m[c]
        /\ \A c \in Cycles : components'[c] # <<>> => c \in {p, v} \/ components[c] # <<>>
        /\ \A c \in Cycles : \A i \in 1 .. Len(components'[c]) : components'[c][i].cycle =>
             \/ c = p /\ components'[c][i].label = v
             \/ components'[c][i] = components[c][i] /\ i \in 1 .. Len(components[c])
  <2>1. PlacedInv(m) /\ p = Top.partition
    BY <1>2, <1>3
  <2>2. PICK m2 : Ordered(children, components', m2)
                  /\ CycleAdded(components, components', m, m2, v, p)
    BY <2>1, ContinueOrdered
  <2> QED
    BY <2>2 DEF CycleAdded
<1>5. \A l \in Labels : Building(l)' <=> Building(l) /\ l # v
  BY ContinueNumbers
<1>6. /\ Building(v) /\ v \in Cycles /\ dfn[v] = DFN_INF
      /\ \A c \in children[v] : c \in Labels /\ dfn[c] = DFN_INF
  BY <1>1, ContinueOnTop DEF Cycles
<1>7. m \in [Cycles -> SUBSET Labels]
  BY <1>2 DEF PlacedInv, Ordered, IsMembers
<1>8. \A c \in Cycles : IsOpen(c)' <=> IsOpen(c) /\ c # v
  BY <1>5, SentinelAssumption DEF IsOpen, Cycles
<1>9. \A c \in Cycles : \A l \in m[c] :
        /\ l \in Labels /\ dfn[l] = DFN_INF /\ ~Building(l)
        /\ \A k \in children[l] : dfn[k] = DFN_INF
  BY <1>2, <1>7 DEF PlacedInv
<1>n. \A l \in Labels : headDfn[l] \in Nat
  BY NumberFacts DEF BuilderInv
<1>10. \A c \in Cycles, h \in Labels : \A i \in 1 .. Len(components'[c]) :
         components'[c][i].cycle /\ components'[c][i].label = h =>
           ~Building(h)' /\ (c = NoCycle \/ headDfn'[c] < headDfn'[h])
  <2> SUFFICES ASSUME NEW c \in Cycles, NEW h \in Labels, NEW i \in 1 .. Len(components'[c]),
                      components'[c][i].cycle, components'[c][i].label = h
               PROVE  ~Building(h)' /\ (c = NoCycle \/ headDfn[c] < headDfn[h])
    BY <1>1
  <2>1. CASE c = p /\ h = v
    BY <1>3, <1>5, <2>1
  <2>2. CASE components'[c][i] = components[c][i] /\ i \in 1 .. Len(components[c])
    BY <1>2, <1>5, <2>2 DEF PlacedInv
  <2> QED
    BY <1>4, <2>1, <2>2
<1>11. \A c \in Cycles : components'[c] # <<>> => c = NoCycle \/ dfn'[c] = DFN_INF
  <2>1. p = NoCycle \/ dfn[p] = DFN_INF
    BY <1>3, BuildingFacts
  <2>2. \A c \in Cycles : components[c] # <<>> => c = NoCycle \/ dfn[c] = DFN_INF
    BY <1>2 DEF PlacedInv
  <2> QED
    BY <1>1, <1>4, <1>6, <2>1, <2>2
<1>12. \A c \in Cycles : \A l \in m2[c] :
         /\ dfn'[l] = DFN_INF /\ ~Building(l)'
         /\ \A k \in children'[l] : dfn'[k] = DFN_INF
  <2> SUFFICES ASSUME NEW c \in Cycles, NEW l \in m2[c]
               PROVE  /\ dfn[l] = DFN_INF /\ ~Building(l)'
                      /\ \A k \in children[l] : dfn[k] = DFN_INF
    BY <1>1
  <2>1. l = v \/ \E b \in Cycles : l \in m[b]
    BY <1>4, <1>6
  <2> QED
    BY <1>5, <1>6, <1>9, <2>1
<1>13. \A l \in Labels : dfn'[l] = DFN_INF =>
         Building(l)' \/ \E c \in Cycles : IsOpen(c)' /\ l \in m2[c]
  <2> SUFFICES ASSUME NEW l \in Labels, dfn[l] = DFN_INF, ~Building(l)'
               PROVE  \E c \in Cycles : IsOpen(c)' /\ l \in m2[c]
    BY <1>1
  <2>0. IsOpen(p)' /\ m2[p] = m[p] \cup m[v] \cup {v}
    BY <1>3, <1>4, <1>8
  <2>1. CASE l = v
    BY <2>0, <2>1
  <2>2. CASE l # v
    <3>1. PICK c \in Cycles : IsOpen(c) /\ l \in m[c]
      BY <1>2, <1>5, <2>2 DEF PlacedInv
    <3>2. CASE c = v
      BY <2>0, <3>1, <3>2
    <3>3. CASE c # v
      BY <1>4, <1>8, <3>1, <3>3
    <3> QED
      BY <3>2, <3>3
  <2> QED
    BY <2>1, <2>2
<1>14. \A c, b \in Cycles : IsOpen(c)' /\ IsOpen(b)' /\ c # b => m2[c] \cap m2[b] = {}
  <2>1. \A c, b \in Cycles : IsOpen(c) /\ IsOpen(b) /\ c # b => m[c] \cap m[b] = {}
    BY <1>2 DEF PlacedInv
  <2>2. IsOpen(v) /\ \A c \in Cycles : v \notin m[c]
    BY <1>6, <1>9 DEF IsOpen
  <2>3. \A c \in Cycles : IsOpen(c) /\ c # v =>
          m2[c] = IF c = p THEN m[p] \cup m[v] \cup {v} ELSE m[c]
    BY <1>4
  <2> QED
    BY <1>6, <1>8, <2>1, <2>2, <2>3
<1>15. \A h \in Labels, c \in Cycles :
         Building(h)' /\ IsOpen(c)' /\ (c = NoCycle \/ headDfn'[c] < headDfn'[h]) =>
           \A k \in m2[c] : children'[k] \cap (m2[h] \cup {h}) = {}
  <2> SUFFICES ASSUME NEW h \in Labels, NEW c \in Cycles, Building(h), h # v, IsOpen(c), c # v,
                      c = NoCycle \/ headDfn[c] < headDfn[h], NEW k \in m2[c]
               PROVE  children[k] \cap (m2[h] \cup {h}) = {}
    BY <1>1, <1>5, <1>8
  <2>1. p # NoCycle /\ headDfn[h] <= headDfn[p] /\ p \in Labels /\ headDfn[p] < headDfn[v]
    BY <1>3
  <2>2. c # p
    BY <1>n, <2>1
  <2>3. k \in m[c] /\ c # p
    BY <1>4, <2>2
  <2>4. children[k] \cap (m[h] \cup {h}) = {}
    BY <1>2, <2>3 DEF PlacedInv
  <2>5. c = NoCycle \/ headDfn[c] < headDfn[v]
    <3>1. c # NoCycle => c \in Labels
      BY DEF Cycles
    <3> QED
      BY <1>n, <2>1, <3>1
  <2>6. children[k] \cap (m[v] \cup {v}) = {}
    BY <1>2, <1>6, <2>3, <2>5 DEF PlacedInv
  <2>7. m2[h] = IF h = p THEN m[p] \cup m[v] \cup {v} ELSE m[h]
    BY <1>4 DEF Cycles
  <2> QED
    BY <2>4, <2>6, <2>7
<1>16. PlacedInv(m2)'
  BY <1>1, <1>4, <1>10, <1>11, <1>12, <1>13, <1>14, <1>15 DEF PlacedInv
<1> QED
  BY <1>3, <1>4, <1>16

LEMMA ContinueStep ==
  ASSUME BuilderInv, BuilderTypes', NEW v \in Labels, ContinueVisit(v)
  PROVE  BuilderInv'
<1>1. /\ visitStack # <<>> /\ Top.type = "ContinueVisit" /\ v = Top.vertex
      /\ dfn' = dfn /\ headDfn' = headDfn /\ children' = children /\ num' = num
      /\ stack' = stack /\ visitStack' = Below
  BY DEF ContinueVisit
<1>2. /\ \A l \in Labels : Numbered(l)' <=> Numbered(l)
      /\ \A l \in Labels : Pending(l)' <=> Pending(l)
      /\ \A l \in Labels : Settled(l)' <=> Settled(l)
      /\ \A l \in Labels : Building(l)' <=> Building(l) /\ l # v
  BY ContinueNumbers
<1>3. /\ \A u \in Labels : Numbered(u) => ~(headDfn[v] < dfn[u])
      /\ Len(visitStack) # 1
  BY <1>1, ContinueOnTop
<1>4. NumberTypes'
  BY <1>1 DEF BuilderInv, NumberTypes
<1>5. StackInv'
  BY <1>1 DEF BuilderInv, StackInv, Numbered
<1>6. /\ VisitInv' /\ PartitionInv' /\ RegionInv' /\ WhiteInv' /\ EntryFirst'
  <2>1. ~IsPush(Len(visitStack)) /\ \A l : ~IsStart(Len(visitStack), l)
    BY <1>1 DEF IsPush, IsStart, Top
  <2>2. \A l \in Labels : dfn'[l] = dfn[l] /\ headDfn'[l] = headDfn[l]
    BY <1>1
  <2> QED
    BY <1>1, <1>2, <1>3, <2>1, <2>2, PopKeeps
<1>7. LowInv'
  <2>1. LowInv
    BY DEF BuilderInv
  <2> QED
    BY <1>1, <1>2, <2>1 DEF LowInv
<1>8. TreeInv'
  <2> SUFFICES ASSUME NEW a \in Labels, NEW u \in Labels,
                      Pending(a), Numbered(u), dfn[a] < dfn[u],
                      \A g \in Labels : Building(g) /\ g # v =>
                        ~(dfn[a] < headDfn[g] /\ headDfn[g] < dfn[u])
               PROVE  \E w \in Labels :
                        /\ Numbered(w) /\ dfn[a] <= dfn[w] /\ dfn[w] < dfn[u] /\ u \in children[w]
                        /\ Pending(w) \/ (Settled(u) /\ headDfn[w] <= headDfn[u])
    BY <1>1, <1>2 DEF TreeInv
  <2>1. \A g \in Labels : Building(g) => ~(dfn[a] < headDfn[g] /\ headDfn[g] < dfn[u])
    BY <1>3
  <2>2. TreeInv
    BY DEF BuilderInv
  <2> QED
    BY <2>1, <2>2 DEF TreeInv
<1>9. \E m : PlacedInv(m)'
  <2>1. PICK m : PlacedInv(m)
    BY DEF BuilderInv
  <2> QED
    BY <2>1, ContinuePlaced
<1> QED
  BY <1>4, <1>5, <1>6, <1>7, <1>8, <1>9 DEF BuilderInv

-----------------------------------------------------------------------------
(***************************************************************************)
(* start_visit of the head of a cycle.                                     *)
(***************************************************************************)
LEMMA AboveFacts ==
  ASSUME NumberTypes, StackInv, NEW v \in Labels, Numbered(v)
  PROVE  /\ PositionOf(v) \in 1 .. Len(stack) /\ stack[PositionOf(v)] = v
         /\ \A l : l \in Above(v) <=> l \in Labels /\ Numbered(l) /\ dfn[v] < dfn[l]
         /\ \A i \in 1 .. Len(stack) : dfn[stack[i]] < dfn[v] <=> i < PositionOf(v)
<1>1. stack \in Seq(Labels) /\ Len(stack) \in Nat /\ \A i \in 1 .. Len(stack) : stack[i] \in Labels
  BY DEF NumberTypes
<1>2. PICK k \in 1 .. Len(stack) : stack[k] = v
  BY DEF StackInv
<1>3. \A l \in Labels : dfn[l] \in Nat
  BY NumberFacts
<1>4. \A i, j \in 1 .. Len(stack) : i < j => dfn[stack[i]] < dfn[stack[j]]
  BY DEF StackInv
<1>5. \A j \in k + 1 .. Len(stack) : stack[j] # v
  BY <1>1, <1>2, <1>3, <1>4
<1>6. PositionOf(v) \in 1 .. Len(stack) /\ stack[PositionOf(v)] = v
  <2> DEFINE P(i) == stack[i] = v /\ \A j \in i + 1 .. Len(stack) : stack[j] # v
  <2>1. \E i \in 1 .. Len(stack) : P(i)
    BY <1>2, <1>5
  <2>2. PositionOf(v) = CHOOSE i \in 1 .. Len(stack) : P(i)
    BY DEF PositionOf
  <2>3. PositionOf(v) \in 1 .. Len(stack) /\ P(PositionOf(v))
    <3> HIDE DEF P
    <3> QED BY <2>1, <2>2
  <2> QED
    BY <2>3
<1> DEFINE q == PositionOf(v)
<1>7. \A i \in 1 .. Len(stack) : (dfn[stack[i]] < dfn[v] <=> i < q) /\ (dfn[v] < dfn[stack[i]] <=> q < i)
  <2> SUFFICES ASSUME NEW i \in 1 .. Len(stack)
               PROVE  (dfn[stack[i]] < dfn[v] <=> i < q) /\ (dfn[v] < dfn[stack[i]] <=> q < i)
    OBVIOUS
  <2>1. dfn[stack[i]] \in Nat /\ dfn[v] \in Nat /\ i \in Int /\ q \in Int
    BY <1>1, <1>3, <1>6
  <2>2. (i < q => dfn[stack[i]] < dfn[v]) /\ (q < i => dfn[v] < dfn[stack[i]])
    BY <1>4, <1>6
  <2>3. i = q => stack[i] = v
    BY <1>6
  <2> HIDE DEF q
  <2> QED
    BY <2>1, <2>2, <2>3
<1>8. ASSUME NEW l, l \in Above(v)
      PROVE  l \in Labels /\ Numbered(l) /\ dfn[v] < dfn[l]
  <2>1. PICK i \in q + 1 .. Len(stack) : l = stack[i]
    BY <1>8 DEF Above
  <2>2. i \in 1 .. Len(stack) /\ q < i
    BY <1>1, <1>6
  <2> QED
    BY <1>1, <1>7, <2>1, <2>2 DEF StackInv
<1>9. ASSUME NEW l \in Labels, Numbered(l), dfn[v] < dfn[l]
      PROVE  l \in Above(v)
  <2>1. PICK i \in 1 .. Len(stack) : stack[i] = l
    BY <1>9 DEF StackInv
  <2>2. q < i
    BY <1>7, <1>9, <2>1
  <2>3. i \in q + 1 .. Len(stack)
    BY <1>1, <1>6, <2>2
  <2> QED
    BY <2>1, <2>3 DEF Above
<1> QED
  BY <1>6, <1>7, <1>8, <1>9

(* s is w with the task t on top and, when S is not empty, a task above it *)
(* that pushes the successors S.                                           *)
Pushed(w, t, S, p, s) ==
  /\ Len(w) \in Nat
  /\ S = {} => Len(s) = Len(w) + 1
  /\ S # {} => /\ Len(s) = Len(w) + 2
               /\ s[Len(w) + 2] = [type |-> "PushSuccessors", todo |-> S, partition |-> p]
  /\ s[Len(w) + 1] = t
  /\ \A i \in 1 .. Len(w) : s[i] = w[i]

(* What push_successors and start_visit put on _visit_stack. *)
LEMMA PushTasksFacts ==
  ASSUME NEW w \in Seq(Task), NEW t \in Task, NEW S \in SUBSET Labels, NEW p \in Cycles,
         NEW s, s = PushTasks(Append(w, t), S, p)
  PROVE  Pushed(w, t, S, p, s)
<1> DEFINE a == Append(w, t)
           f == [type |-> "PushSuccessors", todo |-> S, partition |-> p]
<1>1. a \in Seq(Task) /\ Len(a) = Len(w) + 1 /\ a[Len(w) + 1] = t
      /\ Len(w) \in Nat /\ \A i \in 1 .. Len(w) : a[i] = w[i]
  BY AppendProperties
<1>2. f \in Task
  BY DEF Task
<1>3. CASE S = {}
  BY <1>1, <1>3 DEF PushTasks, Pushed
<1>4. CASE S # {}
  <2>1. s = Append(a, f)
    BY <1>4 DEF PushTasks
  <2> HIDE DEF a, f
  <2>2. Len(s) = Len(a) + 1 /\ s[Len(a) + 1] = f /\ \A i \in 1 .. Len(a) : s[i] = a[i]
    BY <1>1, <1>2, <2>1, AppendProperties
  <2>3. Len(s) = Len(w) + 2 /\ s[Len(w) + 2] = f
    BY <1>1, <2>2
  <2>4. s[Len(w) + 1] = t /\ \A i \in 1 .. Len(w) : s[i] = w[i]
    BY <1>1, <2>2
  <2> QED
    BY <1>1, <1>4, <2>3, <2>4 DEF f, Pushed
<1> QED
  BY <1>3, <1>4

LEMMA CycleTasks ==
  ASSUME BuilderInv, visitStack # <<>>, NEW v \in Labels, NEW S \in SUBSET Labels,
         NEW L, L = Len(visitStack),
         visitStack' = PushTasks(Append(Below, VisitTask("ContinueVisit", v, Top.partition)), S, v)
  PROVE  /\ L \in Nat /\ L > 0 /\ L \in Tasks'
         /\ \A i \in Tasks : i < L =>
              /\ i \in Tasks' /\ visitStack'[i] = visitStack[i]
              /\ IsPush(i)' <=> IsPush(i)
              /\ \A l : IsStart(i, l)' <=> IsStart(i, l)
              /\ \A l : IsContinue(i, l)' <=> IsContinue(i, l)
         /\ visitStack'[L].partition = Top.partition
         /\ visitStack'[L].vertex = v /\ visitStack'[L].type = "ContinueVisit"
         /\ ~IsPush(L)' /\ \A l : ~IsStart(L, l)' /\ (IsContinue(L, l)' <=> l = v)
         /\ S # {} => L + 1 \in Tasks'
         /\ \A i \in Tasks' : \/ i \in Tasks /\ i < L
                              \/ i = L
                              \/ /\ i = L + 1 /\ S # {} /\ IsPush(i)'
                                 /\ visitStack'[i].todo = S /\ visitStack'[i].partition = v
                                 /\ \A l : ~IsStart(i, l)' /\ ~IsContinue(i, l)'
<1> DEFINE t == VisitTask("ContinueVisit", v, Top.partition)
<1>1. /\ L \in Nat /\ L > 0 /\ Len(Below) = L - 1 /\ Tasks = 1 .. L
      /\ \A i \in 1 .. L - 1 : Below[i] = visitStack[i]
  BY TopTask DEF BuilderInv, Tasks
<1>2. t \in Task /\ Below \in Seq(Task) /\ v \in Cycles
  <2>1. Top.partition \in Cycles
    BY OpenPartition
  <2> QED
    BY <2>1, VisitTaskType, FrontType DEF BuilderInv, BuilderTypes, Below, Cycles
<1>3. t.type = "ContinueVisit" /\ t.vertex = v /\ t.partition = Top.partition
  BY DEF VisitTask
<1> HIDE DEF t
<1>4. /\ S = {} => Len(visitStack') = L
      /\ S # {} => /\ Len(visitStack') = L + 1
                   /\ visitStack'[L + 1] = [type |-> "PushSuccessors", todo |-> S, partition |-> v]
      /\ visitStack'[L] = t
      /\ \A i \in 1 .. L - 1 : visitStack'[i] = visitStack[i]
  <2>1. visitStack' = PushTasks(Append(Below, t), S, v)
    BY DEF t
  <2>2. PICK s : s = PushTasks(Append(Below, t), S, v)
    OBVIOUS
  <2>3. /\ S = {} => Len(s) = L - 1 + 1
        /\ S # {} => /\ Len(s) = L - 1 + 2
                     /\ s[L - 1 + 2] = [type |-> "PushSuccessors", todo |-> S, partition |-> v]
        /\ s[L - 1 + 1] = t
        /\ \A i \in 1 .. L - 1 : s[i] = Below[i]
    <3>1. Pushed(Below, t, S, v, s)
      BY <1>2, <2>2, PushTasksFacts
    <3> QED
      BY <1>1, <3>1 DEF Pushed
  <2>4. L - 1 + 1 = L /\ L - 1 + 2 = L + 1
    BY <1>1
  <2> QED
    BY <1>1, <2>1, <2>2, <2>3, <2>4
<1>5. Tasks' = 1 .. Len(visitStack')
  BY DEF Tasks
<1>6. \A i \in Tasks : i < L => i \in Tasks' /\ visitStack'[i] = visitStack[i]
  BY <1>1, <1>4, <1>5
<1>7. \A i \in Tasks : i < L =>
        /\ IsPush(i)' <=> IsPush(i)
        /\ \A l : IsStart(i, l)' <=> IsStart(i, l)
        /\ \A l : IsContinue(i, l)' <=> IsContinue(i, l)
  BY <1>6 DEF IsPush, IsStart, IsContinue
<1>8. /\ visitStack'[L].partition = Top.partition
      /\ visitStack'[L].vertex = v /\ visitStack'[L].type = "ContinueVisit"
  BY <1>3, <1>4
<1>10. L \in Tasks' /\ (S # {} => L + 1 \in Tasks')
  BY <1>1, <1>4, <1>5
<1>11. \A i \in Tasks' : \/ i \in Tasks /\ i < L
                         \/ i = L
                         \/ /\ i = L + 1 /\ S # {}
                            /\ visitStack'[i] = [type |-> "PushSuccessors", todo |-> S, partition |-> v]
  BY <1>1, <1>4, <1>5
<1>13. ~IsPush(L)' /\ \A l : ~IsStart(L, l)' /\ (IsContinue(L, l)' <=> l = v)
  BY <1>8 DEF IsPush, IsStart, IsContinue
<1>14. \A i \in Tasks' :
         visitStack'[i] = [type |-> "PushSuccessors", todo |-> S, partition |-> v] =>
           /\ IsPush(i)' /\ visitStack'[i].todo = S /\ visitStack'[i].partition = v
           /\ \A l : ~IsStart(i, l)' /\ ~IsContinue(i, l)'
  BY DEF IsPush, IsStart, IsContinue
<1> QED
  BY <1>1, <1>6, <1>7, <1>8, <1>10, <1>11, <1>13, <1>14

(* The effect of start_visit for the head v of a cycle; d and h are the    *)
(* numbers before, e and f those after.                                    *)
CycleReset(d, h, e, f, v) ==
  \A l \in Labels :
    /\ l = v => e[l] = DFN_INF /\ f[l] = d[v]
    /\ l # v /\ Numbered(l) /\ d[v] < d[l] => e[l] = 0 /\ f[l] = 0
    /\ l # v /\ ~(Numbered(l) /\ d[v] < d[l]) => e[l] = d[l] /\ f[l] = h[l]

LEMMA CycleNumbers ==
  ASSUME BuilderInv, visitStack # <<>>, Top.type = "StartVisit",
         NEW v \in Labels, v = Top.vertex, StartVisitCycle(v), UNCHANGED <<children, num>>
  PROVE  /\ CycleReset(dfn, headDfn, dfn', headDfn', v)
         /\ dfn' \in [Labels -> 0 .. DFN_INF] /\ headDfn' \in [Labels -> 0 .. DFN_INF]
         /\ \A l \in Labels : Numbered(l)' <=> Numbered(l) /\ dfn[l] < dfn[v]
         /\ \A l \in Labels : Numbered(l) /\ dfn[l] < dfn[v] =>
              l # v /\ dfn'[l] = dfn[l] /\ headDfn'[l] = headDfn[l]
         /\ \A l \in Labels : Pending(l)' <=> Pending(l) /\ l # v
         /\ \A l \in Labels : Settled(l)' <=> Settled(l) /\ dfn[l] < dfn[v]
         /\ \A l \in Labels : dfn[l] = DFN_INF =>
              l # v /\ dfn'[l] = DFN_INF /\ headDfn'[l] = headDfn[l]
         /\ \A l \in Labels : dfn[l] = 0 => l # v /\ dfn'[l] = 0
         /\ \A l \in Labels : dfn'[l] = 0 => dfn[l] = 0 \/ (Numbered(l) /\ dfn[v] < dfn[l])
<1>1. /\ \A l \in Labels : dfn[l] \in Nat /\ headDfn[l] \in Nat
      /\ num \in Nat /\ num < DFN_INF /\ DFN_INF \in Nat
      /\ \A k, l \in Labels : Numbered(k) /\ dfn[k] = dfn[l] => k = l
  BY NumberFacts DEF BuilderInv
<1>2. Pending(v) /\ Numbered(v) /\ dfn[v] # 0 /\ dfn[v] # DFN_INF
  BY StartOnTop DEF Pending, Numbered
<1>3. \A l \in Labels : l \in Above(v) <=> Numbered(l) /\ dfn[v] < dfn[l]
  BY <1>2, AboveFacts DEF BuilderInv
<1>4. \A l \in Labels :
        /\ dfn'[l] = IF l = v THEN DFN_INF ELSE IF l \in Above(v) THEN 0 ELSE dfn[l]
        /\ headDfn'[l] = IF l = v THEN dfn[v] ELSE IF l \in Above(v) THEN 0 ELSE headDfn[l]
  BY DEF StartVisitCycle
<1>5. CycleReset(dfn, headDfn, dfn', headDfn', v)
  BY <1>3, <1>4 DEF CycleReset
<1>6. dfn' \in [Labels -> 0 .. DFN_INF] /\ headDfn' \in [Labels -> 0 .. DFN_INF]
  <2>1. dfn[v] \in 0 .. DFN_INF /\ 0 \in 0 .. DFN_INF /\ DFN_INF \in 0 .. DFN_INF
    BY <1>1 DEF BuilderInv, NumberTypes
  <2>2. \A l \in Labels : dfn[l] \in 0 .. DFN_INF /\ headDfn[l] \in 0 .. DFN_INF
    BY DEF BuilderInv, NumberTypes
  <2> QED
    BY <2>1, <2>2 DEF StartVisitCycle
<1>7. \A l \in Labels : Numbered(l) /\ dfn[l] < dfn[v] =>
        l # v /\ dfn'[l] = dfn[l] /\ headDfn'[l] = headDfn[l]
  BY <1>1, <1>5 DEF CycleReset
<1>8. \A l \in Labels : Numbered(l)' <=> Numbered(l) /\ dfn[l] < dfn[v]
  <2> SUFFICES ASSUME NEW l \in Labels
               PROVE  Numbered(l)' <=> Numbered(l) /\ dfn[l] < dfn[v]
    OBVIOUS
  <2>1. CASE l = v
    BY <1>1, <1>4, <2>1 DEF Numbered
  <2>2. CASE l # v /\ Numbered(l) /\ dfn[v] < dfn[l]
    BY <1>1, <1>5, <2>2 DEF Numbered, CycleReset
  <2>3. CASE l # v /\ ~(Numbered(l) /\ dfn[v] < dfn[l])
    <3>1. dfn'[l] = dfn[l]
      BY <1>5, <2>3 DEF CycleReset
    <3>2. Numbered(l) => dfn[l] < dfn[v]
      BY <1>1, <2>3
    <3> QED
      BY <3>1, <3>2 DEF Numbered
  <2> QED
    BY <2>1, <2>2, <2>3
<1>9. \A l \in Labels : Pending(l) => l = v \/ dfn[l] < dfn[v]
  BY StartOnTop
<1>10. \A l \in Labels : Pending(l)' <=> Pending(l) /\ l # v
  BY <1>1, <1>7, <1>8, <1>9 DEF Pending
<1>11. \A l \in Labels : Settled(l)' <=> Settled(l) /\ dfn[l] < dfn[v]
  BY <1>7, <1>8 DEF Settled
<1>12. \A l \in Labels : dfn[l] = DFN_INF =>
         l # v /\ dfn'[l] = DFN_INF /\ headDfn'[l] = headDfn[l]
  BY <1>2, <1>5 DEF CycleReset, Numbered
<1>13. \A l \in Labels : dfn[l] = 0 => l # v /\ dfn'[l] = 0
  BY <1>2, <1>5 DEF CycleReset, Numbered
<1>14. \A l \in Labels : dfn'[l] = 0 => dfn[l] = 0 \/ (Numbered(l) /\ dfn[v] < dfn[l])
  <2>1. DFN_INF # 0
    BY DfnAssumption
  <2> QED
    BY <1>5, <2>1 DEF CycleReset
<1> QED
  BY <1>5, <1>6, <1>7, <1>8, <1>10, <1>11, <1>12, <1>13, <1>14

LEMMA CycleStack ==
  ASSUME BuilderInv, visitStack # <<>>, Top.type = "StartVisit",
         NEW v \in Labels, v = Top.vertex, StartVisitCycle(v), UNCHANGED <<children, num>>
  PROVE  NumberTypes' /\ StackInv'
<1>1. /\ dfn' \in [Labels -> 0 .. DFN_INF] /\ headDfn' \in [Labels -> 0 .. DFN_INF]
      /\ \A l \in Labels : Numbered(l)' <=> Numbered(l) /\ dfn[l] < dfn[v]
      /\ \A l \in Labels : Numbered(l) /\ dfn[l] < dfn[v] =>
           l # v /\ dfn'[l] = dfn[l] /\ headDfn'[l] = headDfn[l]
      /\ CycleReset(dfn, headDfn, dfn', headDfn', v)
  BY CycleNumbers
<1>2. PICK q : q = PositionOf(v)
  OBVIOUS
<1>3. Numbered(v)
  BY StartOnTop DEF Pending
<1>4. /\ q \in 1 .. Len(stack) /\ stack[q] = v
      /\ \A i \in 1 .. Len(stack) : dfn[stack[i]] < dfn[v] <=> i < q
  BY <1>2, <1>3, AboveFacts DEF BuilderInv
<1>5. /\ stack \in Seq(Labels) /\ Len(stack) \in Nat /\ \A i \in 1 .. Len(stack) : stack[i] \in Labels
      /\ num \in 0 .. DFN_INF - 1 /\ num' = num
  BY DEF BuilderInv, NumberTypes
<1>6. stack' = SubSeq(stack, 1, q - 1)
  BY <1>2 DEF StartVisitCycle
<1>7. stack' \in Seq(Labels) /\ Len(stack') = q - 1 /\ \A i \in 1 .. q - 1 : stack'[i] = stack[i]
  <2>1. q - 1 \in Nat /\ 1 \in Int /\ q - 1 \in Int /\ \A i \in 1 .. q - 1 : stack[i] \in Labels
    BY <1>4, <1>5
  <2>2. PICK n : n = q - 1
    OBVIOUS
  <2>3. /\ SubSeq(stack, 1, n) \in Seq(Labels)
        /\ Len(SubSeq(stack, 1, n)) = IF 1 <= n THEN n - 1 + 1 ELSE 0
        /\ \A i \in 1 .. n - 1 + 1 : SubSeq(stack, 1, n)[i] = stack[1 + i - 1]
    BY <1>5, <2>1, <2>2, SubSeqProperties
  <2> QED
    BY <1>6, <2>1, <2>2, <2>3
<1>8. NumberTypes'
  BY <1>1, <1>5, <1>7 DEF NumberTypes
<1>9. ASSUME NEW i \in 1 .. Len(stack')
      PROVE  /\ i \in 1 .. Len(stack) /\ stack'[i] = stack[i] /\ stack[i] \in Labels
             /\ Numbered(stack[i]) /\ dfn[stack[i]] <= num
             /\ dfn'[stack[i]] = dfn[stack[i]] /\ i < q
  <2>1. i \in 1 .. Len(stack) /\ i < q /\ stack'[i] = stack[i]
    BY <1>4, <1>5, <1>7
  <2>2. stack[i] \in Labels /\ Numbered(stack[i]) /\ dfn[stack[i]] <= num
    BY <1>5, <2>1 DEF BuilderInv, StackInv
  <2> QED
    BY <1>1, <1>4, <2>1, <2>2
<1>10. StackInv'
  <2>1. \A i \in 1 .. Len(stack') :
          dfn'[stack'[i]] # 0 /\ dfn'[stack'[i]] # DFN_INF /\ dfn'[stack'[i]] <= num'
    BY <1>5, <1>9 DEF Numbered
  <2>2. \A l \in Labels : Numbered(l)' => \E i \in 1 .. Len(stack') : stack'[i] = l
    <3> SUFFICES ASSUME NEW l \in Labels, Numbered(l), dfn[l] < dfn[v]
                 PROVE  \E i \in 1 .. Len(stack') : stack'[i] = l
      BY <1>1
    <3>1. PICK i \in 1 .. Len(stack) : stack[i] = l
      BY DEF BuilderInv, StackInv
    <3>2. i < q
      BY <1>4, <3>1
    <3>3. i \in 1 .. q - 1
      BY <1>4, <1>5, <3>2
    <3> QED
      BY <1>7, <3>1, <3>3
  <2>3. \A i, j \in 1 .. Len(stack') : i < j => dfn'[stack'[i]] < dfn'[stack'[j]]
    BY <1>9 DEF BuilderInv, StackInv
  <2>4. \A l \in Labels : dfn'[l] = 0 => headDfn'[l] = 0
    <3>1. DFN_INF # 0
      BY DfnAssumption
    <3> QED
      BY <1>1, <3>1 DEF BuilderInv, StackInv, CycleReset
  <2> QED
    BY <2>1, <2>2, <2>3, <2>4 DEF StackInv, Numbered
<1> QED
  BY <1>8, <1>10

(* The tasks after start_visit of the head v of a cycle. *)
LEMMA CyclePushed ==
  ASSUME BuilderInv, visitStack # <<>>, Top.type = "StartVisit",
         NEW v \in Labels, v = Top.vertex, StartVisitCycle(v), UNCHANGED <<children, num>>
  PROVE  \E S \in SUBSET Labels :
           /\ \A z : z \in S <=> z \in children[v] /\ dfn'[z] = 0
           /\ visitStack' = PushTasks(Append(Below, VisitTask("ContinueVisit", v, Top.partition)), S, v)
<1>1. PICK S : S = Unvisited(v, dfn')
  OBVIOUS
<1>2. S \in SUBSET Labels
  BY <1>1, GraphFacts DEF Unvisited, BuilderInv
<1>3. \A z : z \in S <=> z \in children[v] /\ dfn'[z] = 0
  BY <1>1 DEF Unvisited
<1>4. visitStack' = PushTasks(Append(Below, VisitTask("ContinueVisit", v, Top.partition)), S, v)
  BY <1>1 DEF StartVisitCycle
<1> QED
  BY <1>2, <1>3, <1>4

LEMMA CycleBuilding ==
  ASSUME BuilderInv, visitStack # <<>>, Top.type = "StartVisit",
         NEW v \in Labels, v = Top.vertex, StartVisitCycle(v), UNCHANGED <<children, num>>
  PROVE  \A l \in Labels : Building(l)' <=> Building(l) \/ l = v
<1>1. PICK S \in SUBSET Labels :
        visitStack' = PushTasks(Append(Below, VisitTask("ContinueVisit", v, Top.partition)), S, v)
  BY CyclePushed
<1>2. PICK L : L = Len(visitStack)
  OBVIOUS
<1>3. /\ L \in Tasks'
      /\ \A i \in Tasks : i < L => i \in Tasks' /\ \A l : IsContinue(i, l)' <=> IsContinue(i, l)
      /\ \A l : IsContinue(L, l)' <=> l = v
      /\ \A i \in Tasks' : \/ i \in Tasks /\ i < L
                           \/ i = L
                           \/ \A l : ~IsContinue(i, l)'
  BY <1>1, <1>2, CycleTasks
<1>4. \A i \in Tasks : i < L \/ (i = L /\ \A l : ~IsContinue(i, l))
  <2>1. \A i \in Tasks : i \in Int /\ i <= L /\ L \in Int
    BY <1>2, TopTask DEF BuilderInv
  <2>2. \A l : ~IsContinue(L, l)
    BY <1>2 DEF IsContinue, Top
  <2> QED
    BY <2>1, <2>2
<1> QED
  BY <1>3, <1>4 DEF Building

LEMMA CycleVisits ==
  ASSUME BuilderInv, visitStack # <<>>, Top.type = "StartVisit",
         NEW v \in Labels, v = Top.vertex, StartVisitCycle(v), UNCHANGED <<children, num>>
  PROVE  VisitInv' /\ PartitionInv' /\ EntryFirst'
<1>1. PICK S \in SUBSET Labels :
        /\ \A z : z \in S <=> z \in children[v] /\ dfn'[z] = 0
        /\ visitStack' = PushTasks(Append(Below, VisitTask("ContinueVisit", v, Top.partition)), S, v)
  BY CyclePushed
<1>2. PICK L : L = Len(visitStack)
  OBVIOUS
<1>3. /\ L \in Nat /\ L > 0 /\ L \in Tasks'
      /\ \A i \in Tasks : i < L =>
           /\ i \in Tasks' /\ visitStack'[i] = visitStack[i]
           /\ IsPush(i)' <=> IsPush(i)
           /\ \A l : IsStart(i, l)' <=> IsStart(i, l)
           /\ \A l : IsContinue(i, l)' <=> IsContinue(i, l)
      /\ visitStack'[L].partition = Top.partition
      /\ visitStack'[L].vertex = v /\ visitStack'[L].type = "ContinueVisit"
      /\ ~IsPush(L)' /\ \A l : ~IsStart(L, l)' /\ (IsContinue(L, l)' <=> l = v)
      /\ \A i \in Tasks' : \/ i \in Tasks /\ i < L
                           \/ i = L
                           \/ /\ i = L + 1 /\ S # {} /\ IsPush(i)'
                              /\ visitStack'[i].todo = S /\ visitStack'[i].partition = v
                              /\ \A l : ~IsStart(i, l)' /\ ~IsContinue(i, l)'
  BY <1>1, <1>2, CycleTasks
<1>4. /\ L \in Tasks /\ IsStart(L, v) /\ (\A l : ~IsContinue(L, l)) /\ ~IsPush(L)
      /\ \A i \in Tasks : i \in Int /\ i <= L /\ visitStack[i] \in Task
  BY <1>2, TopTask DEF BuilderInv, IsStart, IsContinue, IsPush, Top
<1>5. /\ Pending(v)
      /\ \A i \in Tasks : IsStart(i, v) => i = L
      /\ \A w \in Labels : Pending(w) => w = v \/ dfn[w] < dfn[v]
      /\ \A h \in Labels : Building(h) => headDfn[h] < dfn[v]
  BY <1>2, StartOnTop
<1>6. /\ \A l \in Labels : Numbered(l) /\ dfn[l] < dfn[v] => dfn'[l] = dfn[l]
      /\ \A l \in Labels : Pending(l)' <=> Pending(l) /\ l # v
      /\ \A l \in Labels : dfn[l] = DFN_INF => dfn'[l] = DFN_INF /\ headDfn'[l] = headDfn[l]
      /\ dfn'[v] = DFN_INF /\ headDfn'[v] = dfn[v]
  BY CycleNumbers DEF CycleReset
<1>7. \A i \in Tasks, h \in Labels : IsContinue(i, h) =>
        /\ dfn[h] = DFN_INF /\ headDfn[h] # 0 /\ headDfn[h] <= num /\ headDfn'[h] = headDfn[h]
        /\ headDfn[h] < dfn[v] /\ dfn'[h] = DFN_INF
  BY <1>5, <1>6 DEF BuilderInv, VisitInv, Building
<1>8. \A l \in Labels : dfn[l] \in Nat /\ headDfn[l] \in Nat
  BY NumberFacts DEF BuilderInv
<1>9. dfn[v] # 0 /\ dfn[v] <= num
  BY <1>5, NumberFacts DEF Pending, Numbered, BuilderInv
<1>10. ASSUME NEW i \in Tasks, i < L, ~IsPush(i)
       PROVE  /\ NumberOf(i)' = NumberOf(i) /\ NumberOf(i) < dfn[v]
              /\ visitStack[i].vertex \in Labels
  <2>1. visitStack[i].type = "StartVisit" \/ visitStack[i].type = "ContinueVisit"
    BY <1>4, <1>10, TaskFacts DEF IsPush
  <2>2. visitStack[i].vertex \in Labels /\ visitStack'[i] = visitStack[i]
    BY <1>3, <1>4, <1>10, TaskFacts DEF IsPush
  <2>3. CASE visitStack[i].type = "StartVisit"
    <3>1. PICK w \in Labels : w = visitStack[i].vertex
      BY <2>2
    <3>2. IsStart(i, w)
      BY <2>3, <3>1 DEF IsStart
    <3>3. Pending(w) /\ w # v
      BY <1>5, <1>10, <3>2, <1>4 DEF BuilderInv, VisitInv
    <3>4. dfn[w] < dfn[v] /\ dfn'[w] = dfn[w]
      BY <1>5, <1>6, <3>3 DEF Pending
    <3> QED
      BY <2>2, <2>3, <3>1, <3>4 DEF NumberOf
  <2>4. CASE visitStack[i].type = "ContinueVisit"
    <3>1. PICK w \in Labels : w = visitStack[i].vertex
      BY <2>2
    <3>2. IsContinue(i, w)
      BY <2>4, <3>1 DEF IsContinue
    <3> QED
      BY <1>7, <2>2, <2>4, <3>1, <3>2 DEF NumberOf
  <2> QED
    BY <2>1, <2>3, <2>4
<1>11. NumberOf(L)' = dfn[v]
  BY <1>3, <1>6 DEF NumberOf
<1>12. VisitInv'
  <2>1. \A i \in Tasks' : \A w \in Labels : IsStart(i, w)' => Pending(w)'
    <3> SUFFICES ASSUME NEW i \in Tasks', NEW w \in Labels, IsStart(i, w)'
                 PROVE  Pending(w)'
      OBVIOUS
    <3>1. i \in Tasks /\ i < L /\ IsStart(i, w)
      BY <1>3
    <3>2. Pending(w) /\ w # v
      BY <1>4, <1>5, <3>1 DEF BuilderInv, VisitInv
    <3> QED
      BY <1>6, <3>2
  <2>2. \A w \in Labels : Pending(w)' => \E i \in Tasks' : IsStart(i, w)'
    <3> SUFFICES ASSUME NEW w \in Labels, Pending(w), w # v
                 PROVE  \E i \in Tasks' : IsStart(i, w)'
      BY <1>6
    <3>1. PICK i \in Tasks : IsStart(i, w)
      BY DEF BuilderInv, VisitInv
    <3>2. i < L
      <4>1. i # L
        BY <1>4, <3>1 DEF IsStart
      <4> QED BY <1>3, <1>4, <4>1
    <3> QED
      BY <1>3, <3>1, <3>2
  <2>3. \A i \in Tasks' : \A h \in Labels : IsContinue(i, h)' =>
          dfn'[h] = DFN_INF /\ headDfn'[h] # 0 /\ headDfn'[h] <= num'
    <3> SUFFICES ASSUME NEW i \in Tasks', NEW h \in Labels, IsContinue(i, h)'
                 PROVE  dfn'[h] = DFN_INF /\ headDfn'[h] # 0 /\ headDfn'[h] <= num
      OBVIOUS
    <3>1. CASE h = v
      BY <1>6, <1>9, <3>1
    <3>2. CASE h # v
      <4>1. i \in Tasks /\ IsContinue(i, h)
        BY <1>3, <3>2
      <4> QED
        BY <1>7, <4>1
    <3> QED
      BY <3>1, <3>2
  <2>4. ASSUME NEW i \in Tasks', NEW j \in Tasks', i < j, ~IsPush(i)', ~IsPush(j)'
        PROVE  NumberOf(i)' < NumberOf(j)'
    <3>1. CASE j = L
      <4>0. L \in Nat /\ i < L
        BY <1>3, <2>4, <3>1
      <4>1. i # L /\ i # L + 1
        BY <4>0
      <4>2. i \in Tasks
        BY <1>3, <4>1
      <4>3. ~IsPush(i)
        BY <1>3, <2>4, <4>0, <4>2
      <4> QED
        BY <1>10, <1>11, <3>1, <4>0, <4>2, <4>3
    <3>2. CASE j \in Tasks /\ j < L
      <4>1. i \in Tasks /\ i < L /\ ~IsPush(i) /\ ~IsPush(j)
        BY <1>3, <1>4, <2>4, <3>2
      <4>2. NumberOf(i) < NumberOf(j)
        BY <2>4, <3>2, <4>1 DEF BuilderInv, VisitInv
      <4> QED
        BY <1>10, <3>2, <4>1, <4>2
    <3> QED
      BY <1>3, <2>4, <3>1, <3>2
  <2>5. ASSUME NEW i \in Tasks', IsPush(i)', i > 1
        PROVE  ~IsPush(i - 1)' /\ visitStack'[i].todo \subseteq children'[visitStack'[i - 1].vertex]
    <3>1. CASE i \in Tasks /\ i < L
      <4>1. i - 1 \in Tasks /\ i - 1 < L /\ IsPush(i)
        BY <1>3, <2>5, <3>1 DEF Tasks
      <4>2. ~IsPush(i - 1) /\ visitStack[i].todo \subseteq children[visitStack[i - 1].vertex]
        BY <2>5, <3>1, <4>1 DEF BuilderInv, VisitInv
      <4>3. visitStack'[i] = visitStack[i] /\ visitStack'[i - 1] = visitStack[i - 1]
            /\ ~IsPush(i - 1)'
        BY <1>3, <3>1, <4>1, <4>2
      <4> QED
        BY <4>2, <4>3
    <3>2. CASE i = L + 1 /\ visitStack'[i].todo = S
      <4>1. i - 1 = L
        BY <1>3, <3>2
      <4> QED
        BY <1>1, <1>3, <3>2, <4>1
    <3> QED
      BY <1>3, <2>5, <3>1, <3>2
  <2> QED
    BY <2>1, <2>2, <2>3, <2>4, <2>5 DEF VisitInv
<1>13. PartitionInv'
  <2> SUFFICES ASSUME NEW i \in Tasks', NEW p \in Cycles, visitStack'[i].partition = p
               PROVE  /\ p = NoCycle \/ \E j \in Tasks' : j < i /\ IsContinue(j, p)'
                      /\ \A j \in Tasks', h \in Labels : j < i /\ IsContinue(j, h)' =>
                           p # NoCycle /\ headDfn'[h] <= headDfn'[p]
    BY DEF PartitionInv
  <2>1. CASE i <= L
    <3>1. i \in Tasks /\ visitStack[i].partition = p /\ i \in Int
      BY <1>2, <1>3, <1>4, <2>1 DEF Top
    <3>2. /\ p = NoCycle \/ \E j \in Tasks : j < i /\ IsContinue(j, p)
          /\ \A j \in Tasks, g \in Labels :
               j < i /\ IsContinue(j, g) => p # NoCycle /\ headDfn[g] <= headDfn[p]
      BY <3>1 DEF BuilderInv, PartitionInv
    <3>3. p # NoCycle => p \in Labels /\ headDfn'[p] = headDfn[p]
      BY <1>7, <3>2 DEF Cycles
    <3>4. \A j \in Tasks : j < i => j < L
      BY <1>3, <1>4, <2>1, <3>1
    <3>5. \A j \in Tasks' : j < i => j \in Tasks /\ j < L
      BY <1>3, <2>1, <3>1
    <3>6. p = NoCycle \/ \E j \in Tasks' : j < i /\ IsContinue(j, p)'
      BY <1>3, <3>2, <3>4
    <3>7. \A j \in Tasks', g \in Labels : j < i /\ IsContinue(j, g)' =>
            p # NoCycle /\ headDfn'[g] <= headDfn'[p]
      BY <1>3, <1>7, <3>2, <3>3, <3>5
    <3> QED
      BY <3>6, <3>7
  <2>2. CASE i = L + 1 /\ p = v
    <3>1. L < i /\ v # NoCycle
      BY <1>3, <2>2, SentinelAssumption
    <3>2. ASSUME NEW j \in Tasks', NEW h \in Labels, IsContinue(j, h)'
          PROVE  headDfn'[h] <= headDfn'[v]
      <4>1. CASE h = v
        BY <1>6, <1>8, <4>1
      <4>2. CASE h # v
        <5>1. j \in Tasks /\ IsContinue(j, h)
          BY <1>3, <3>2, <4>2
        <5> QED
          BY <1>6, <1>7, <1>8, <5>1
      <4> QED
        BY <4>1, <4>2
    <3> QED
      BY <1>3, <2>2, <3>1, <3>2
  <2>3. i \in Tasks /\ i < L => i <= L
    BY <1>3, <1>4
  <2>4. i = L => i <= L
    BY <1>3
  <2> QED
    BY <1>3, <2>1, <2>2, <2>3, <2>4
<1>14. EntryFirst'
  <2>1. L # 1
    <3> SUFFICES ASSUME L = 1 PROVE FALSE
      OBVIOUS
    <3>1. v = EntryLabel
      BY <1>2, <1>4 DEF BuilderInv, EntryFirst, IsStart, IsPush
    <3> QED
      BY <3>1, EntryOnTop DEF StartVisitCycle
  <2>2. 1 \in Tasks /\ 1 < L
    BY <1>3, <1>4, <2>1, <1>2 DEF Tasks
  <2>3. ~IsPush(1) /\ IsStart(1, EntryLabel) /\ visitStack[1].partition = NoCycle
    BY <1>2, <2>1 DEF BuilderInv, EntryFirst
  <2>4. visitStack' # <<>>
    <3>1. 1 \in Tasks'
      BY <1>3, <2>2
    <3>2. Len(visitStack') # 0
      BY <3>1 DEF Tasks
    <3> QED
      BY <3>2
  <2> QED
    BY <1>3, <2>2, <2>3, <2>4 DEF EntryFirst
<1> QED
  BY <1>12, <1>13, <1>14

LEMMA CycleLows ==
  ASSUME BuilderInv, visitStack # <<>>, Top.type = "StartVisit",
         NEW v \in Labels, v = Top.vertex, StartVisitCycle(v), UNCHANGED <<children, num>>
  PROVE  LowInv' /\ TreeInv'
<1>1. /\ \A l \in Labels : Numbered(l)' <=> Numbered(l) /\ dfn[l] < dfn[v]
      /\ \A l \in Labels : Numbered(l) /\ dfn[l] < dfn[v] =>
           l # v /\ dfn'[l] = dfn[l] /\ headDfn'[l] = headDfn[l]
      /\ \A l \in Labels : Pending(l)' <=> Pending(l) /\ l # v
      /\ \A l \in Labels : Settled(l)' <=> Settled(l) /\ dfn[l] < dfn[v]
      /\ \A l \in Labels : dfn[l] = DFN_INF =>
           l # v /\ dfn'[l] = DFN_INF /\ headDfn'[l] = headDfn[l]
      /\ headDfn'[v] = dfn[v]
  BY CycleNumbers DEF CycleReset
<1>2. \A l \in Labels : Building(l)' <=> Building(l) \/ l = v
  BY CycleBuilding
<1>3. /\ Pending(v) /\ Numbered(v)
      /\ \A w \in Labels : Pending(w) => w = v \/ dfn[w] < dfn[v]
  BY StartOnTop DEF Pending
<1>4. /\ \A l \in Labels : dfn[l] \in Nat /\ headDfn[l] \in Nat
      /\ num \in Nat /\ num < DFN_INF /\ DFN_INF \in Nat
  BY NumberFacts DEF BuilderInv
<1>5. \A g \in Labels : Building(g) => headDfn'[g] = headDfn[g] /\ g # v
  BY <1>1, BuildingFacts
<1>6. LowInv'
  <2> SUFFICES ASSUME NEW u \in Labels, Settled(u)'
               PROVE  /\ headDfn'[u] < dfn'[u]
                      /\ \E s \in Labels : /\ Numbered(s)' /\ dfn'[s] = headDfn'[u]
                                           /\ \E q \in Labels : s \in children'[q]
                      /\ \A g \in Labels : Building(g)' /\ headDfn'[g] < dfn'[u] =>
                           headDfn'[g] < headDfn'[u]
                      /\ \A c \in children'[u] : dfn'[c] # 0 /\ headDfn'[u] <= dfn'[c]
                      /\ \A c \in children'[u], w \in Labels :
                           Pending(w)' /\ dfn'[u] < dfn'[w] =>
                             dfn'[c] = DFN_INF \/ dfn'[c] < dfn'[w]
    BY DEF LowInv
  <2>1. Settled(u) /\ dfn[u] < dfn[v] /\ LowInv /\ Numbered(u)
    BY <1>1 DEF BuilderInv, Settled
  <2>2. dfn'[u] = dfn[u] /\ headDfn'[u] = headDfn[u] /\ headDfn[u] < dfn[u]
    BY <1>1, <2>1 DEF LowInv
  <2>3. \E s \in Labels : /\ Numbered(s)' /\ dfn'[s] = headDfn'[u]
                          /\ \E q \in Labels : s \in children'[q]
    <3>1. PICK s \in Labels : /\ Numbered(s) /\ dfn[s] = headDfn[u]
                              /\ \E q \in Labels : s \in children[q]
      BY <2>1 DEF LowInv
    <3>2. dfn[s] < dfn[v]
      BY <1>4, <2>1, <2>2, <3>1
    <3> QED
      BY <1>1, <2>2, <3>1, <3>2
  <2>4. \A g \in Labels : Building(g)' /\ headDfn'[g] < dfn'[u] => headDfn'[g] < headDfn'[u]
    <3> SUFFICES ASSUME NEW g \in Labels, Building(g)', headDfn'[g] < dfn[u]
                 PROVE  headDfn'[g] < headDfn[u]
      BY <2>2
    <3>1. g # v
      BY <1>1, <1>4, <2>1
    <3>2. Building(g) /\ headDfn[g] < dfn[u] /\ headDfn'[g] = headDfn[g]
      BY <1>2, <1>5, <3>1
    <3> QED
      BY <2>1, <3>2 DEF LowInv
  <2>5. ASSUME NEW c \in children[u]
        PROVE  c \in Labels /\ dfn'[c] = dfn[c] /\ dfn[c] # 0
    <3>1. c \in Labels /\ dfn[c] # 0
      BY <2>1, GraphFacts DEF BuilderInv, LowInv
    <3>2. dfn[c] = DFN_INF \/ dfn[c] < dfn[v]
      BY <1>3, <2>1 DEF LowInv
    <3>3. dfn[c] < dfn[v] => Numbered(c)
      BY <1>3, <1>4, <3>1, NumberFacts DEF Numbered, BuilderInv
    <3> QED
      BY <1>1, <3>1, <3>2, <3>3
  <2>6. \A c \in children'[u] : dfn'[c] # 0 /\ headDfn'[u] <= dfn'[c]
    BY <2>1, <2>2, <2>5 DEF LowInv
  <2>7. \A c \in children'[u], w \in Labels : Pending(w)' /\ dfn'[u] < dfn'[w] =>
          dfn'[c] = DFN_INF \/ dfn'[c] < dfn'[w]
    <3> SUFFICES ASSUME NEW c \in children[u], NEW w \in Labels, Pending(w)', dfn'[u] < dfn'[w]
                 PROVE  dfn'[c] = DFN_INF \/ dfn'[c] < dfn'[w]
      OBVIOUS
    <3>1. Pending(w) /\ dfn'[w] = dfn[w]
      BY <1>1, <1>3 DEF Pending
    <3> QED
      BY <2>1, <2>2, <2>5, <3>1 DEF LowInv
  <2> QED
    BY <2>2, <2>3, <2>4, <2>6, <2>7
<1>7. TreeInv'
  <2> SUFFICES ASSUME NEW a \in Labels, NEW u \in Labels,
                      Pending(a)', Numbered(u)', dfn'[a] < dfn'[u],
                      \A g \in Labels : Building(g)' => ~(dfn'[a] < headDfn'[g] /\ headDfn'[g] < dfn'[u])
               PROVE  \E w \in Labels :
                        /\ Numbered(w)' /\ dfn'[a] <= dfn'[w] /\ dfn'[w] < dfn'[u] /\ u \in children'[w]
                        /\ Pending(w)' \/ (Settled(u)' /\ headDfn'[w] <= headDfn'[u])
    BY DEF TreeInv
  <2>1. /\ Pending(a) /\ Numbered(u) /\ dfn[u] < dfn[v]
        /\ dfn'[a] = dfn[a] /\ dfn'[u] = dfn[u] /\ headDfn'[u] = headDfn[u] /\ dfn[a] < dfn[u]
    BY <1>1, <1>3 DEF Pending
  <2>2. \A g \in Labels : Building(g) => ~(dfn[a] < headDfn[g] /\ headDfn[g] < dfn[u])
    BY <1>2, <1>5, <2>1
  <2>3. PICK w \in Labels :
          /\ Numbered(w) /\ dfn[a] <= dfn[w] /\ dfn[w] < dfn[u] /\ u \in children[w]
          /\ Pending(w) \/ (Settled(u) /\ headDfn[w] <= headDfn[u])
    <3>1. TreeInv
      BY DEF BuilderInv
    <3> QED
      BY <2>1, <2>2, <3>1 DEF TreeInv
  <2>4. dfn[w] < dfn[v]
    BY <1>4, <2>1, <2>3
  <2>5. Numbered(w)' /\ dfn'[w] = dfn[w] /\ headDfn'[w] = headDfn[w] /\ w # v
    BY <1>1, <2>3, <2>4
  <2>6. Pending(w)' \/ (Settled(u)' /\ headDfn'[w] <= headDfn'[u])
    BY <1>1, <2>1, <2>3, <2>5
  <2> QED
    BY <2>1, <2>3, <2>5, <2>6
<1> QED
  BY <1>6, <1>7

LEMMA CycleRegions ==
  ASSUME BuilderInv, visitStack # <<>>, Top.type = "StartVisit",
         NEW v \in Labels, v = Top.vertex, StartVisitCycle(v), UNCHANGED <<children, num>>,
         NEW L, L = Len(visitStack)
  PROVE  /\ RegionInv' /\ WhiteInv'
         /\ \A i \in Tasks', h \in Labels, Z \in SUBSET Labels :
              i < L /\ IsContinue(i, h)' /\ Region(i, h, Z) => Region(i, h, Z)'
         /\ \A i \in Tasks', h \in Labels : IsContinue(i, h)' =>
              (i \in Tasks /\ i < L /\ IsContinue(i, h)) \/ (i = L /\ h = v)
         /\ \E Z \in SUBSET Labels :
              /\ \A z \in Labels : z \in Z <=> z = v \/ (Numbered(z) /\ dfn[v] < dfn[z])
              /\ Region(L, v, Z)'
<1>1. PICK S \in SUBSET Labels :
        /\ \A z : z \in S <=> z \in children[v] /\ dfn'[z] = 0
        /\ visitStack' = PushTasks(Append(Below, VisitTask("ContinueVisit", v, Top.partition)), S, v)
  BY CyclePushed
<1>2. L = Len(visitStack)
  OBVIOUS
<1>3. /\ L \in Nat /\ L > 0 /\ L \in Tasks'
      /\ \A i \in Tasks : i < L =>
           /\ i \in Tasks' /\ visitStack'[i] = visitStack[i]
           /\ IsPush(i)' <=> IsPush(i)
           /\ \A l : IsContinue(i, l)' <=> IsContinue(i, l)
      /\ visitStack'[L].vertex = v
      /\ ~IsPush(L)' /\ \A l : IsContinue(L, l)' <=> l = v
      /\ S # {} => L + 1 \in Tasks'
      /\ \A i \in Tasks' : \/ i \in Tasks /\ i < L
                           \/ i = L
                           \/ /\ i = L + 1 /\ S # {} /\ IsPush(i)' /\ visitStack'[i].todo = S
                              /\ \A l : ~IsContinue(i, l)'
  BY <1>1, <1>2, CycleTasks
<1>4. /\ L \in Tasks /\ ~IsPush(L)
      /\ \A i \in Tasks : i \in Int /\ i <= L /\ visitStack[i] \in Task
  BY <1>2, TopTask DEF BuilderInv, IsPush, Top
<1>p. S # {} => L + 1 \in Tasks' /\ IsPush(L + 1)' /\ visitStack'[L + 1].todo = S
  <2>1. L + 1 # L /\ ~(L + 1 < L)
    BY <1>3
  <2> QED
    BY <1>3, <2>1
<1>5. /\ \A l \in Labels : Numbered(l)' <=> Numbered(l) /\ dfn[l] < dfn[v]
      /\ \A l \in Labels : Numbered(l) /\ dfn[l] < dfn[v] =>
           l # v /\ dfn'[l] = dfn[l] /\ headDfn'[l] = headDfn[l]
      /\ \A l \in Labels : dfn[l] = DFN_INF =>
           l # v /\ dfn'[l] = DFN_INF /\ headDfn'[l] = headDfn[l]
      /\ dfn'[v] = DFN_INF /\ headDfn'[v] = dfn[v]
      /\ \A l \in Labels : dfn[l] = 0 => l # v /\ dfn'[l] = 0
      /\ \A l \in Labels : dfn'[l] = 0 => dfn[l] = 0 \/ (Numbered(l) /\ dfn[v] < dfn[l])
      /\ \A l \in Labels : Numbered(l) /\ dfn[v] < dfn[l] => dfn'[l] = 0
      /\ CycleReset(dfn, headDfn, dfn', headDfn', v)
  <2>1. dfn[v] \in Nat
    BY NumberFacts DEF BuilderInv
  <2> QED
    BY <2>1, CycleNumbers DEF CycleReset
<1>6. /\ Pending(v) /\ Numbered(v)
      /\ \A c \in children[v] : c \in Labels /\ dfn[c] # 0
      /\ \A w \in Labels : Pending(w) => w = v \/ dfn[w] < dfn[v]
      /\ \A h \in Labels : Building(h) => headDfn[h] < dfn[v]
      /\ \A u \in Labels : Numbered(u) /\ dfn[v] < dfn[u] => Settled(u)
  BY StartOnTop DEF Pending
<1>7. /\ \A l \in Labels : dfn[l] \in Nat /\ headDfn[l] \in Nat
      /\ num \in Nat /\ num < DFN_INF /\ DFN_INF \in Nat
      /\ \A k, l \in Labels : Numbered(k) /\ dfn[k] = dfn[l] => k = l
  BY NumberFacts DEF BuilderInv
<1>8. \A u \in Labels : Numbered(u) /\ dfn[v] < dfn[u] => dfn[v] <= headDfn[u]
  <2>1. \A c \in children[v] : dfn[v] <= MinDfn(c)
    BY DEF StartVisitCycle, IsHeadDfn
  <2> QED
    BY <1>7, <2>1, AboveStays
<1>9. PICK Y \in SUBSET Labels : \A z \in Labels : z \in Y <=> z = v \/ (Numbered(z) /\ dfn[v] < dfn[z])
  <2>1. {z \in Labels : z = v \/ (Numbered(z) /\ dfn[v] < dfn[z])} \in SUBSET Labels
    OBVIOUS
  <2> QED
    BY <2>1
<1>y. \A z \in Labels : Numbered(z) /\ dfn[v] <= dfn[z] => z \in Y
  BY <1>6, <1>7, <1>9
<1>10. ASSUME NEW z \in Y, NEW c \in children[z]
       PROVE  c \in Y \/ dfn[c] = DFN_INF
  <2>1. c \in Labels
    BY GraphFacts DEF BuilderInv
  <2>2. CASE z = v
    <3>1. dfn[c] # 0
      BY <1>6, <2>2
    <3>2. dfn[v] <= MinDfn(c) /\ MinDfn(c) \in Nat /\ MinDfn(c) <= dfn[c]
      BY <2>1, <2>2, <3>1, MinDfnFacts DEF StartVisitCycle, IsHeadDfn, BuilderInv
    <3>3. dfn[v] <= dfn[c]
      BY <1>7, <2>1, <3>2
    <3> QED
      BY <1>y, <2>1, <3>1, <3>3 DEF Numbered
  <2>3. CASE z # v
    <3>1. Numbered(z) /\ dfn[v] < dfn[z] /\ z \in Labels
      BY <1>9, <2>3
    <3>2. Settled(z) /\ dfn[v] <= headDfn[z]
      BY <1>6, <1>8, <3>1
    <3>3. dfn[c] # 0 /\ headDfn[z] <= dfn[c]
      BY <3>1, <3>2 DEF BuilderInv, LowInv
    <3>4. dfn[v] <= dfn[c]
      BY <1>7, <2>1, <3>1, <3>2, <3>3
    <3> QED
      BY <1>y, <2>1, <3>3, <3>4 DEF Numbered
  <2> QED
    BY <2>2, <2>3
<1>11. S \subseteq Y
  <2> SUFFICES ASSUME NEW z \in S
               PROVE  z \in Y
    OBVIOUS
  <2>1. z \in children[v] /\ dfn'[z] = 0 /\ z \in Labels /\ dfn[z] # 0
    BY <1>1, <1>6
  <2> QED
    BY <1>5, <1>9, <2>1
<1>t. ASSUME NEW i \in Tasks', NEW g \in Labels, IsContinue(i, g)'
      PROVE  (i \in Tasks /\ i < L /\ IsContinue(i, g)) \/ (i = L /\ g = v)
  BY <1>3, <1>t
<1>r. Region(L, v, Y)'
  <2>2. v \in Y
    BY <1>9
  <2>3. \A z \in Y : z = v \/ dfn'[z] = 0
    BY <1>5, <1>9
  <2>4. \A z \in Y : \A c \in children'[z] : c \in Y \/ dfn'[c] = DFN_INF
    <3>1. \A z \in Y : \A c \in children[z] : c \in Labels
      BY GraphFacts DEF BuilderInv
    <3> QED
      BY <1>5, <1>10, <3>1
  <2>5. \A u \in Labels : Numbered(u)' => ~(headDfn'[v] < dfn'[u])
    BY <1>5, <1>7
  <2>6. \A j \in Tasks' : L < j /\ IsPush(j)' => visitStack'[j].todo \subseteq Y
    <3> SUFFICES ASSUME NEW j \in Tasks', L < j
                 PROVE  visitStack'[j].todo \subseteq Y
      OBVIOUS
    <3>1. ~(j < L) /\ j # L
      <4>1. j \in Int
        BY DEF Tasks
      <4> QED BY <1>3, <4>1
    <3> QED
      BY <1>3, <1>11, <3>1
  <2> QED
    BY <2>2, <2>3, <2>4, <2>5, <2>6 DEF Region
<1>k. ASSUME NEW i \in Tasks', i < L, NEW g \in Labels, IsContinue(i, g)',
             NEW Z \in SUBSET Labels, Region(i, g, Z)
      PROVE  Region(i, g, Z)'
  <2>1. i \in Tasks /\ IsContinue(i, g) /\ Region(i, g, Z)
    <3>1. i \in Tasks
      BY <1>3, <1>k, <1>t
    <3> QED
      BY <1>3, <1>k, <3>1
  <2>3. Building(g)
    BY <2>1 DEF Building
  <2>4. /\ dfn[g] = DFN_INF /\ headDfn[g] < DFN_INF /\ headDfn'[g] = headDfn[g]
        /\ headDfn[g] < dfn[v]
    BY <1>5, <1>6, <2>3, BuildingFacts
  <2>5. Y \subseteq Z
    <3> SUFFICES ASSUME NEW z \in Y
                 PROVE  z \in Z
      OBVIOUS
    <3>1. z \in Labels /\ Numbered(z) /\ headDfn[g] < dfn[z]
      BY <1>6, <1>7, <1>9, <2>4
    <3> QED
      BY <2>1, <3>1 DEF Region
  <2>6. \A z \in Z : z = g \/ dfn'[z] = 0 \/ headDfn'[g] < dfn'[z]
    <3> SUFFICES ASSUME NEW z \in Z
                 PROVE  z = g \/ dfn'[z] = 0 \/ headDfn[g] < dfn'[z]
      BY <2>4
    <3>1. CASE z = v
      BY <1>5, <2>4, <3>1
    <3>2. CASE z # v /\ Numbered(z) /\ dfn[v] < dfn[z]
      BY <1>5, <3>2
    <3>3. CASE z # v /\ ~(Numbered(z) /\ dfn[v] < dfn[z])
      <4>1. dfn'[z] = dfn[z]
        BY <1>5, <3>3 DEF CycleReset
      <4> QED
        BY <2>1, <4>1 DEF Region
    <3> QED
      BY <3>1, <3>2, <3>3
  <2>7. \A z \in Z : \A c \in children'[z] : c \in Z \/ dfn'[c] = DFN_INF
    <3>1. \A z \in Z : \A c \in children[z] : c \in Labels
      BY GraphFacts DEF BuilderInv
    <3> QED
      BY <1>5, <2>1, <3>1 DEF Region
  <2>8. \A u \in Labels : Numbered(u)' /\ headDfn'[g] < dfn'[u] => u \in Z
    BY <1>5, <2>1, <2>4 DEF Region
  <2>9. ASSUME NEW j \in Tasks', i < j, IsPush(j)'
        PROVE  visitStack'[j].todo \subseteq Z
    <3>1. CASE j \in Tasks /\ j < L
      BY <1>3, <2>1, <2>9, <3>1 DEF Region
    <3>2. CASE visitStack'[j].todo = S
      BY <1>11, <2>5, <3>2
    <3> QED
      BY <1>3, <2>9, <3>1, <3>2
  <2> QED
    BY <2>1, <2>6, <2>7, <2>8, <2>9 DEF Region
<1>12. RegionInv'
  <2> SUFFICES ASSUME NEW i \in Tasks', NEW g \in Labels, IsContinue(i, g)'
               PROVE  \E Z \in SUBSET Labels : Region(i, g, Z)'
    BY DEF RegionInv
  <2>1. CASE i = L /\ g = v
    BY <1>r, <2>1
  <2>2. CASE i \in Tasks /\ i < L
    <3>1. IsContinue(i, g)
      BY <1>3, <2>2
    <3>2. PICK Z \in SUBSET Labels : Region(i, g, Z)
      BY <2>2, <3>1 DEF BuilderInv, RegionInv
    <3> QED
      BY <1>k, <2>2, <3>2
  <2> QED
    BY <1>t, <2>1, <2>2
<1>13. ASSUME NEW C \in SUBSET Labels, NEW i \in Tasks', i < L + 1, Covers(i, C)'
       PROVE  \A u \in Labels : Numbered(u) /\ dfn[v] < dfn[u] => u \in C
  <2> DEFINE T == {dfn[u] : u \in {l \in Labels : Numbered(l) /\ dfn[v] < dfn[l] /\ l \notin C}}
  <2> SUFFICES ASSUME T # {} PROVE FALSE
    OBVIOUS
  <2>1. T \subseteq Nat
    BY <1>7
  <2>2. PICK n \in T : \A k \in T : n <= k
    <3> HIDE DEF T
    <3> QED BY <2>1, LeastNatural
  <2>3. PICK u \in Labels : Numbered(u) /\ dfn[v] < dfn[u] /\ u \notin C /\ dfn[u] = n
    BY <2>2
  <2>4. \A w \in Labels : Numbered(w) /\ dfn[v] < dfn[w] /\ dfn[w] < dfn[u] => w \in C
    <3> SUFFICES ASSUME NEW w \in Labels, Numbered(w), dfn[v] < dfn[w], w \notin C
                 PROVE  ~(dfn[w] < dfn[u])
      OBVIOUS
    <3>1. dfn[w] \in T
      OBVIOUS
    <3>2. n <= dfn[w] /\ n \in Nat /\ dfn[w] \in Nat
      BY <2>1, <2>2, <3>1
    <3> QED
      BY <2>3, <3>2
  <2> HIDE DEF T
  <2>5. PICK w \in Labels : Numbered(w) /\ dfn[v] <= dfn[w] /\ dfn[w] < dfn[u] /\ u \in children[w]
    <3>1. \A h \in Labels : Building(h) => ~(dfn[v] < headDfn[h] /\ headDfn[h] < dfn[u])
      BY <1>6, <1>7
    <3>2. TreeInv
      BY DEF BuilderInv
    <3> QED
      BY <1>6, <2>3, <3>1, <3>2 DEF TreeInv
  <2>6. dfn'[u] = 0
    BY <1>5, <2>3
  <2>7. CASE w = v
    <3>1. u \in S
      BY <1>1, <2>5, <2>6, <2>7
    <3>2. L + 1 \in Tasks' /\ IsPush(L + 1)' /\ u \in visitStack'[L + 1].todo
      BY <1>p, <3>1
    <3> QED
      BY <1>13, <2>3, <2>6, <3>2 DEF Covers
  <2>8. CASE w # v
    <3>1. dfn[w] # dfn[v]
      BY <1>7, <2>5, <2>8
    <3>2. dfn[v] < dfn[w]
      BY <1>7, <2>5, <3>1
    <3>3. w \in C
      BY <2>4, <2>5, <3>2
    <3> QED
      BY <1>13, <2>3, <2>5, <2>6, <3>3 DEF Covers
  <2> QED
    BY <2>7, <2>8
<1>14. WhiteInv'
  <2> SUFFICES ASSUME NEW i \in Tasks', ~IsPush(i)',
                      NEW z \in children[visitStack'[i].vertex], dfn'[z] = 0,
                      NEW C \in SUBSET Labels, Covers(i, C)'
               PROVE  z \in C
    BY DEF WhiteInv
  <2>1. CASE i = L
    <3>1. z \in S
      BY <1>1, <1>3, <2>1
    <3>2. L + 1 \in Tasks' /\ IsPush(L + 1)' /\ z \in visitStack'[L + 1].todo
      BY <1>p, <3>1
    <3>3. i < L + 1
      BY <1>3, <2>1
    <3> QED
      BY <3>2, <3>3 DEF Covers
  <2>2. CASE i \in Tasks /\ i < L
    <3>1. visitStack'[i] = visitStack[i] /\ ~IsPush(i) /\ visitStack[i].vertex \in Labels
      BY <1>3, <1>4, <2>2, TaskFacts DEF IsPush
    <3>2. z \in Labels
      BY <3>1, GraphFacts DEF BuilderInv
    <3>3. i < L + 1
      BY <1>3, <1>4, <2>2
    <3>4. \A u \in Labels : Numbered(u) /\ dfn[v] < dfn[u] => u \in C
      BY <1>13, <3>3
    <3>5. Covers(i, C)
      <4>1. ASSUME NEW j \in Tasks, i < j, IsPush(j), NEW y \in visitStack[j].todo, dfn[y] = 0
            PROVE  y \in C
        <5>1. j < L
          BY <1>3, <1>4, <4>1
        <5>2. j \in Tasks' /\ visitStack'[j] = visitStack[j] /\ IsPush(j)'
          BY <1>3, <4>1, <5>1
        <5>3. y \in Labels
          BY <1>4, <4>1, TaskFacts DEF IsPush
        <5>4. dfn'[y] = 0
          BY <1>5, <4>1, <5>3
        <5> QED
          BY <4>1, <5>2, <5>4 DEF Covers
      <4>2. \A y \in C : \A x \in children[y] : dfn[x] = 0 => x \in C
        <5>1. \A y \in C : \A x \in children[y] : x \in Labels
          BY GraphFacts DEF BuilderInv
        <5> QED
          BY <1>5, <5>1 DEF Covers
      <4> QED
        BY <4>1, <4>2 DEF Covers
    <3>6. CASE dfn[z] = 0
      BY <2>2, <3>1, <3>5, <3>6 DEF BuilderInv, WhiteInv
    <3>7. CASE dfn[z] # 0
      BY <1>5, <3>2, <3>4, <3>7
    <3> QED
      BY <3>6, <3>7
  <2> QED
    BY <1>3, <2>1, <2>2
<1> QED
  BY <1>9, <1>12, <1>14, <1>k, <1>r, <1>t


LEMMA CyclePlaced ==
  ASSUME BuilderInv, visitStack # <<>>, Top.type = "StartVisit",
         NEW v \in Labels, v = Top.vertex, StartVisitCycle(v), UNCHANGED <<children, num>>,
         NEW m, PlacedInv(m)
  PROVE  PlacedInv(m)'
<1>0. m \in [Cycles -> SUBSET Labels] /\ v \in Cycles
  BY DEF PlacedInv, Ordered, IsMembers, Cycles
<1>1. /\ \A l \in Labels : dfn[l] = DFN_INF =>
           l # v /\ dfn'[l] = DFN_INF /\ headDfn'[l] = headDfn[l]
      /\ \A l \in Labels : dfn'[l] = DFN_INF => dfn[l] = DFN_INF \/ l = v
      /\ dfn[v] # DFN_INF
  <2>1. CycleReset(dfn, headDfn, dfn', headDfn', v) /\ DFN_INF # 0
    BY CycleNumbers, DfnAssumption
  <2>2. \A l \in Labels : dfn[l] = DFN_INF =>
           l # v /\ dfn'[l] = DFN_INF /\ headDfn'[l] = headDfn[l]
    BY CycleNumbers
  <2>3. \A l \in Labels : dfn'[l] = DFN_INF => dfn[l] = DFN_INF \/ l = v
    BY <2>1 DEF CycleReset
  <2> QED
    BY <2>2, <2>3
<1>2. \A l \in Labels : Building(l)' <=> Building(l) \/ l = v
  BY CycleBuilding
<1>3. components' = components /\ children' = children
  BY DEF StartVisitCycle
<1>4. m[v] = {}
  <2>1. components[v] = <<>>
    BY <1>0, <1>1, SentinelAssumption DEF PlacedInv
  <2>2. Len(components[v]) = 0
    BY <2>1
  <2> QED
    BY <1>0, <2>2 DEF PlacedInv, Ordered, IsMembers
<1>5. Ordered(children', components', m)
  BY <1>3 DEF PlacedInv
<1>6. \A c \in Cycles, h \in Labels : \A i \in 1 .. Len(components'[c]) :
        components'[c][i].cycle /\ components'[c][i].label = h =>
          /\ ~Building(h)'
          /\ c = NoCycle \/ headDfn'[c] < headDfn'[h]
  <2> SUFFICES ASSUME NEW c \in Cycles, NEW h \in Labels, NEW i \in 1 .. Len(components[c]),
                      components[c][i].cycle, components[c][i].label = h
               PROVE  ~Building(h)' /\ (c = NoCycle \/ headDfn'[c] < headDfn'[h])
    BY <1>3
  <2>1. dfn[h] = DFN_INF /\ (c = NoCycle \/ (c \in Labels /\ dfn[c] = DFN_INF))
    BY PlacedFacts
  <2>2. ~Building(h) /\ (c = NoCycle \/ headDfn[c] < headDfn[h])
    BY DEF PlacedInv
  <2> QED
    BY <1>1, <1>2, <2>1, <2>2
<1>7. \A c \in Cycles : components'[c] # <<>> => c = NoCycle \/ dfn'[c] = DFN_INF
  BY <1>1, <1>3 DEF PlacedInv, Cycles
<1>8. \A c \in Cycles : \A l \in m[c] :
        /\ dfn'[l] = DFN_INF /\ ~Building(l)'
        /\ \A k \in children'[l] : dfn'[k] = DFN_INF
  <2> SUFFICES ASSUME NEW c \in Cycles, NEW l \in m[c]
               PROVE  /\ dfn'[l] = DFN_INF /\ ~Building(l)'
                      /\ \A k \in children[l] : dfn'[k] = DFN_INF
    BY <1>3
  <2>1. l \in Labels /\ children[l] \in SUBSET Labels
    BY <1>0, GraphFacts DEF BuilderInv
  <2>2. /\ dfn[l] = DFN_INF /\ ~Building(l)
        /\ \A k \in children[l] : dfn[k] = DFN_INF
    BY DEF PlacedInv
  <2> QED
    BY <1>1, <1>2, <2>1, <2>2
<1>o. \A c \in Cycles : IsOpen(c)' <=> IsOpen(c) \/ c = v
  BY <1>2 DEF IsOpen, Cycles
<1>9. \A l \in Labels : dfn'[l] = DFN_INF =>
        Building(l)' \/ \E c \in Cycles : IsOpen(c)' /\ l \in m[c]
  BY <1>1, <1>2, <1>o DEF PlacedInv
<1>10. \A c, b \in Cycles : IsOpen(c)' /\ IsOpen(b)' /\ c # b => m[c] \cap m[b] = {}
  BY <1>4, <1>o DEF PlacedInv
<1>11. \A h \in Labels, c \in Cycles :
        Building(h)' /\ IsOpen(c)' /\ (c = NoCycle \/ headDfn'[c] < headDfn'[h]) =>
          \A p \in m[c] : children'[p] \cap (m[h] \cup {h}) = {}
  <2> SUFFICES ASSUME NEW h \in Labels, NEW c \in Cycles, Building(h)', IsOpen(c)',
                      c = NoCycle \/ headDfn'[c] < headDfn'[h], NEW p \in m[c]
               PROVE  children[p] \cap (m[h] \cup {h}) = {}
    BY <1>3
  <2>1. c # v
    BY <1>4
  <2>2. IsOpen(c)
    BY <1>o, <2>1
  <2>3. CASE h = v
    <3>1. \A k \in children[p] : dfn[k] = DFN_INF
      BY DEF PlacedInv
    <3> QED
      BY <1>1, <1>4, <2>3, <3>1
  <2>4. CASE h # v
    <3>1. Building(h)
      BY <1>2, <2>4
    <3>2. headDfn'[h] = headDfn[h]
      BY <1>1, <3>1, BuildingFacts
    <3>3. c = NoCycle \/ headDfn'[c] = headDfn[c]
      BY <1>1, <2>2, BuildingFacts DEF IsOpen, Cycles
    <3> QED
      BY <2>2, <3>1, <3>2, <3>3 DEF PlacedInv
  <2> QED
    BY <2>3, <2>4
<1> QED
  BY <1>5, <1>6, <1>7, <1>8, <1>9, <1>10, <1>11 DEF PlacedInv

LEMMA CycleStep ==
  ASSUME BuilderInv, BuilderTypes', visitStack # <<>>, Top.type = "StartVisit",
         NEW v \in Labels, v = Top.vertex, StartVisitCycle(v), UNCHANGED <<children, num>>
  PROVE  BuilderInv'
<1>1. \E m : PlacedInv(m)'
  <2>1. PICK m : PlacedInv(m)
    BY DEF BuilderInv
  <2>2. PlacedInv(m)'
    BY <2>1, CyclePlaced
  <2> QED
    BY <2>2
<1> QED
  BY <1>1, CycleStack, CycleVisits, CycleLows, CycleRegions DEF BuilderInv


-----------------------------------------------------------------------------
(***************************************************************************)
(* push_successors.                                                        *)
(***************************************************************************)

(* The task of v is taken off the top frame. *)
LEMMA PopSuccessorFacts ==
  ASSUME BuilderInv, visitStack # <<>>, Top.type = "PushSuccessors",
         NEW v \in Labels, v \in Top.todo, NEW L, L = Len(visitStack),
         NEW w, w = PopSuccessor(v)
  PROVE  /\ w \in Seq(Task) /\ L \in Nat /\ L > 0 /\ Len(w) \in Nat
         /\ \A i \in Tasks : i \in Int /\ i <= L /\ visitStack[i] \in Task
         /\ L \in Tasks /\ IsPush(L) /\ visitStack[L] = Top
         /\ Len(w) = L - 1 \/ Len(w) = L
         /\ Top.todo = {v} => Len(w) = L - 1
         /\ \A i \in Tasks : i < L => i <= Len(w) /\ w[i] = visitStack[i]
         /\ Len(w) = L =>
              /\ w[L].type = "PushSuccessors" /\ w[L].todo = Top.todo \ {v}
              /\ w[L].partition = Top.partition
         /\ \A y \in Top.todo : y = v \/ (Len(w) = L /\ y \in w[L].todo)
<1>1. /\ L \in Nat /\ L > 0 /\ L \in Tasks /\ Len(Below) = L - 1
      /\ \A i \in Tasks : i \in Int /\ i <= L /\ visitStack[i] \in Task
      /\ \A i \in Tasks : i < L => i \in 1 .. L - 1
      /\ \A i \in 1 .. L - 1 : i \in Tasks /\ Below[i] = visitStack[i]
  BY TopTask DEF BuilderInv
<1>2. IsPush(L) /\ visitStack[L] = Top /\ Top \in Task /\ Below \in Seq(Task)
  BY <1>1, FrontType DEF BuilderInv, BuilderTypes, IsPush, Top, Below
<1>3. CASE Top.todo = {v}
  <2>1. w = Below
    BY <1>3 DEF PopSuccessor
  <2> QED
    BY <1>1, <1>2, <1>3, <2>1
<1>4. CASE Top.todo # {v}
  <2> DEFINE t == [Top EXCEPT !.todo = Top.todo \ {v}]
  <2>1. w = Append(Below, t)
    BY <1>4 DEF PopSuccessor
  <2>2. t \in Task
    BY <1>2, TaskFacts
  <2>3. t.type = "PushSuccessors" /\ t.todo = Top.todo \ {v} /\ t.partition = Top.partition
    <3>1. Top \in [type : {"PushSuccessors"}, todo : SUBSET Labels, partition : Cycles]
      BY <1>2 DEF Task
    <3> QED
      BY <3>1
  <2> HIDE DEF t
  <2>4. /\ w \in Seq(Task) /\ Len(w) = Len(Below) + 1 /\ w[Len(Below) + 1] = t
        /\ \A i \in 1 .. Len(Below) : w[i] = Below[i]
    BY <1>2, <2>1, <2>2, AppendProperties
  <2>5. Len(w) = L /\ w[L] = t
    BY <1>1, <2>4
  <2>6. \A i \in Tasks : i < L => i <= Len(w) /\ w[i] = visitStack[i]
    BY <1>1, <2>4, <2>5
  <2> QED
    BY <1>1, <1>2, <1>4, <2>3, <2>4, <2>5, <2>6
<1> QED
  BY <1>3, <1>4

(* The tasks that stay on _visit_stack. *)
LEMMA KeptTasks ==
  ASSUME BuilderInv, visitStack # <<>>, Top.type = "PushSuccessors",
         NEW v \in Labels, v \in Top.todo, NEW L, L = Len(visitStack),
         NEW w, w = PopSuccessor(v), Len(visitStack') \in Nat, Len(w) <= Len(visitStack'),
         \A i \in 1 .. Len(w) : visitStack'[i] = w[i]
  PROVE  /\ \A i \in Tasks : i < L => i \in Tasks' /\ i <= Len(w)
         /\ \A i \in Tasks : i <= Len(w) =>
              /\ i \in Tasks'
              /\ visitStack'[i].partition = visitStack[i].partition
              /\ IsPush(i)' <=> IsPush(i)
              /\ ~IsPush(i) => visitStack'[i] = visitStack[i]
              /\ IsPush(i) => /\ visitStack'[i].todo \subseteq visitStack[i].todo
                              /\ i < L => visitStack'[i].todo = visitStack[i].todo
              /\ \A l : IsStart(i, l)' <=> IsStart(i, l)
              /\ \A l : IsContinue(i, l)' <=> IsContinue(i, l)
         /\ \A i \in Tasks : \A y : IsPush(i) /\ y \in visitStack[i].todo =>
              y = v \/ (i <= Len(w) /\ y \in visitStack'[i].todo)
         /\ \A i \in Tasks : ~IsPush(i) => i < L /\ i <= Len(w)
<1>1. /\ w \in Seq(Task) /\ L \in Nat /\ L > 0 /\ Len(w) \in Nat
      /\ \A i \in Tasks : i \in Int /\ i <= L /\ visitStack[i] \in Task
      /\ L \in Tasks /\ IsPush(L) /\ visitStack[L] = Top
      /\ Len(w) = L - 1 \/ Len(w) = L
      /\ \A i \in Tasks : i < L => i <= Len(w) /\ w[i] = visitStack[i]
      /\ Len(w) = L =>
           /\ w[L].type = "PushSuccessors" /\ w[L].todo = Top.todo \ {v}
           /\ w[L].partition = Top.partition
      /\ \A y \in Top.todo : y = v \/ (Len(w) = L /\ y \in w[L].todo)
  BY PopSuccessorFacts
<1>2. \A i \in Tasks : i <= Len(w) => i \in Tasks' /\ visitStack'[i] = w[i]
  <2>1. \A i \in Tasks : i \in 1 .. L
    BY DEF Tasks
  <2> QED
    BY <1>1, <2>1 DEF Tasks
<1>3. ASSUME NEW i \in Tasks, i < L
      PROVE  /\ i \in Tasks' /\ i <= Len(w) /\ visitStack'[i] = visitStack[i]
             /\ IsPush(i)' <=> IsPush(i)
             /\ \A l : IsStart(i, l)' <=> IsStart(i, l)
             /\ \A l : IsContinue(i, l)' <=> IsContinue(i, l)
  <2>1. i \in Tasks' /\ i <= Len(w) /\ visitStack'[i] = visitStack[i]
    BY <1>1, <1>2, <1>3
  <2> QED
    BY <2>1 DEF IsPush, IsStart, IsContinue
<1>4. ASSUME Len(w) = L
      PROVE  /\ L \in Tasks' /\ visitStack'[L].partition = Top.partition
             /\ IsPush(L)' /\ visitStack'[L].todo = Top.todo \ {v}
             /\ \A l : ~IsStart(L, l)' /\ ~IsContinue(L, l)'
  <2>1. L \in Tasks' /\ visitStack'[L] = w[L]
    BY <1>1, <1>2, <1>4
  <2>2. visitStack'[L].type = "PushSuccessors"
    BY <1>1, <1>4, <2>1
  <2> QED
    BY <1>1, <1>4, <2>1, <2>2 DEF IsPush, IsStart, IsContinue
<1>5. \A l : ~IsStart(L, l) /\ ~IsContinue(L, l)
  BY <1>1 DEF IsPush, IsStart, IsContinue
<1>6. \A i \in Tasks : i < L \/ i = L
  BY <1>1
<1>7. ASSUME NEW i \in Tasks, i <= Len(w)
      PROVE  /\ i \in Tasks'
             /\ visitStack'[i].partition = visitStack[i].partition
             /\ IsPush(i)' <=> IsPush(i)
             /\ ~IsPush(i) => visitStack'[i] = visitStack[i]
             /\ IsPush(i) => /\ visitStack'[i].todo \subseteq visitStack[i].todo
                             /\ i < L => visitStack'[i].todo = visitStack[i].todo
             /\ \A l : IsStart(i, l)' <=> IsStart(i, l)
             /\ \A l : IsContinue(i, l)' <=> IsContinue(i, l)
  <2>1. CASE i < L
    BY <1>3, <2>1
  <2>2. CASE i = L
    <3>1. Len(w) = L /\ ~(i < L)
      BY <1>1, <1>7, <2>2
    <3> QED
      BY <1>1, <1>4, <1>5, <2>2, <3>1
  <2> QED
    BY <1>6, <2>1, <2>2
<1>8. ASSUME NEW i \in Tasks, NEW y, IsPush(i), y \in visitStack[i].todo
      PROVE  y = v \/ (i <= Len(w) /\ y \in visitStack'[i].todo)
  <2>1. CASE i < L
    BY <1>3, <1>8, <2>1
  <2>2. CASE i = L
    <3>1. y = v \/ Len(w) = L
      BY <1>1, <1>8, <2>2
    <3>2. Len(w) = L => i <= Len(w)
      BY <1>1, <2>2
    <3> QED
      BY <1>1, <1>4, <1>8, <2>2, <3>1, <3>2
  <2> QED
    BY <1>6, <2>1, <2>2
<1>9. \A i \in Tasks : ~IsPush(i) => i < L /\ i <= Len(w)
  BY <1>1, <1>3, <1>6
<1> QED
  BY <1>3, <1>7, <1>8, <1>9


(* A label that was numbered in the meantime is passed over. *)
LEMMA PassStep ==
  ASSUME BuilderInv, BuilderTypes', NEW v \in Labels, PushSuccessors(v), dfn[v] # 0
  PROVE  /\ BuilderInv'
         /\ \A i \in Tasks', h \in Labels, Y \in SUBSET Labels :
              IsContinue(i, h)' /\ Region(i, h, Y) => Region(i, h, Y)'
<1>0. /\ visitStack # <<>> /\ Top.type = "PushSuccessors" /\ v \in Top.todo
      /\ visitStack' = PopSuccessor(v)
      /\ UNCHANGED <<dfn, headDfn, num, stack, children, components>>
  BY DEF PushSuccessors
<1>1. PICK L : L = Len(visitStack)
  OBVIOUS
<1>2. PICK w : w = PopSuccessor(v)
  OBVIOUS
<1>3. /\ w \in Seq(Task) /\ L \in Nat /\ L > 0 /\ Len(w) \in Nat
      /\ \A i \in Tasks : i \in Int /\ i <= L /\ visitStack[i] \in Task
      /\ L \in Tasks /\ IsPush(L) /\ visitStack[L] = Top
      /\ Len(w) = L - 1 \/ Len(w) = L
  BY <1>0, <1>1, <1>2, PopSuccessorFacts
<1>4. visitStack' = w /\ Tasks' = 1 .. Len(w)
  BY <1>0, <1>2 DEF Tasks
<1>5. \A i \in Tasks' : i \in Tasks /\ i <= Len(w)
  BY <1>1, <1>3, <1>4 DEF Tasks
<1>6. /\ \A i \in Tasks : i < L => i \in Tasks' /\ i <= Len(w)
      /\ \A i \in Tasks : i <= Len(w) =>
           /\ i \in Tasks'
           /\ visitStack'[i].partition = visitStack[i].partition
           /\ IsPush(i)' <=> IsPush(i)
           /\ ~IsPush(i) => visitStack'[i] = visitStack[i]
           /\ IsPush(i) => /\ visitStack'[i].todo \subseteq visitStack[i].todo
                           /\ i < L => visitStack'[i].todo = visitStack[i].todo
           /\ \A l : IsStart(i, l)' <=> IsStart(i, l)
           /\ \A l : IsContinue(i, l)' <=> IsContinue(i, l)
      /\ \A i \in Tasks : \A y : IsPush(i) /\ y \in visitStack[i].todo =>
           y = v \/ (i <= Len(w) /\ y \in visitStack'[i].todo)
      /\ \A i \in Tasks : ~IsPush(i) => i < L /\ i <= Len(w)
  <2>1. Len(visitStack') \in Nat /\ Len(w) <= Len(visitStack')
        /\ \A i \in 1 .. Len(w) : visitStack'[i] = w[i]
    BY <1>3, <1>4
  <2> QED
    BY <1>0, <1>1, <1>2, <2>1, KeptTasks
<1>7. /\ \A l \in Labels : Numbered(l)' <=> Numbered(l)
      /\ \A l \in Labels : Pending(l)' <=> Pending(l)
      /\ \A l \in Labels : Settled(l)' <=> Settled(l)
  BY <1>0 DEF Numbered, Pending, Settled
<1>8. \A l \in Labels : Building(l)' <=> Building(l)
  <2>1. \A i \in Tasks : \A l : IsContinue(i, l) => ~IsPush(i)
    BY DEF IsContinue, IsPush
  <2> QED
    BY <1>5, <1>6, <2>1 DEF Building
<1>9. NumberTypes' /\ StackInv'
  BY <1>0 DEF BuilderInv, NumberTypes, StackInv, Numbered
<1>10. \A i \in Tasks : ~IsPush(i) => NumberOf(i)' = NumberOf(i)
  BY <1>0, <1>6 DEF NumberOf
<1>11. VisitInv'
  <2>1. \A i \in Tasks' : \A l \in Labels : IsStart(i, l)' => Pending(l)'
    BY <1>5, <1>6, <1>7 DEF BuilderInv, VisitInv
  <2>2. \A l \in Labels : Pending(l)' => \E i \in Tasks' : IsStart(i, l)'
    <3>1. \A i \in Tasks : \A l : IsStart(i, l) => ~IsPush(i)
      BY DEF IsStart, IsPush
    <3> QED
      BY <1>6, <1>7, <3>1 DEF BuilderInv, VisitInv
  <2>3. \A i \in Tasks' : \A h \in Labels : IsContinue(i, h)' =>
          dfn'[h] = DFN_INF /\ headDfn'[h] # 0 /\ headDfn'[h] <= num'
    BY <1>0, <1>5, <1>6 DEF BuilderInv, VisitInv
  <2>4. \A i, j \in Tasks' : i < j /\ ~IsPush(i)' /\ ~IsPush(j)' => NumberOf(i)' < NumberOf(j)'
    BY <1>5, <1>6, <1>10 DEF BuilderInv, VisitInv
  <2>5. ASSUME NEW i \in Tasks', IsPush(i)', i > 1
        PROVE  ~IsPush(i - 1)' /\ visitStack'[i].todo \subseteq children'[visitStack'[i - 1].vertex]
    <3>1. i - 1 \in Tasks /\ i \in Tasks /\ i <= Len(w) /\ i - 1 <= Len(w) /\ IsPush(i)
      BY <1>3, <1>5, <1>6, <2>5 DEF Tasks
    <3>2. ~IsPush(i - 1) /\ visitStack[i].todo \subseteq children[visitStack[i - 1].vertex]
      BY <2>5, <3>1 DEF BuilderInv, VisitInv
    <3>3. /\ ~IsPush(i - 1)' /\ visitStack'[i - 1] = visitStack[i - 1]
          /\ visitStack'[i].todo \subseteq visitStack[i].todo
      BY <1>6, <3>1, <3>2
    <3> QED
      BY <1>0, <3>2, <3>3
  <2> QED
    BY <2>1, <2>2, <2>3, <2>4, <2>5 DEF VisitInv
<1>12. PartitionInv'
  <2> SUFFICES ASSUME NEW i \in Tasks', NEW p \in Cycles, visitStack'[i].partition = p
               PROVE  /\ p = NoCycle \/ \E j \in Tasks' : j < i /\ IsContinue(j, p)'
                      /\ \A j \in Tasks', h \in Labels : j < i /\ IsContinue(j, h)' =>
                           p # NoCycle /\ headDfn'[h] <= headDfn'[p]
    BY DEF PartitionInv
  <2>1. i \in Tasks /\ visitStack[i].partition = p
    BY <1>5, <1>6
  <2>2. /\ p = NoCycle \/ \E j \in Tasks : j < i /\ IsContinue(j, p)
        /\ \A j \in Tasks, h \in Labels :
             j < i /\ IsContinue(j, h) => p # NoCycle /\ headDfn[h] <= headDfn[p]
    BY <2>1 DEF BuilderInv, PartitionInv
  <2>3. \A j \in Tasks : \A h : IsContinue(j, h) => j <= Len(w)
    BY <1>6 DEF IsContinue, IsPush
  <2>4. p = NoCycle \/ \E j \in Tasks' : j < i /\ IsContinue(j, p)'
    BY <1>6, <2>2, <2>3
  <2>5. \A j \in Tasks', h \in Labels : j < i /\ IsContinue(j, h)' =>
          p # NoCycle /\ headDfn'[h] <= headDfn'[p]
    BY <1>0, <1>5, <1>6, <2>2
  <2> QED
    BY <2>4, <2>5
<1>13. EntryFirst'
  <2>1. ~IsPush(1)
    BY <1>0 DEF BuilderInv, EntryFirst
  <2>2. 1 \in Tasks /\ IsStart(1, EntryLabel) /\ visitStack[1].partition = NoCycle
    BY <1>0, <1>1, <1>3, <2>1 DEF BuilderInv, EntryFirst, Tasks
  <2>3. 1 \in Tasks' /\ ~IsPush(1)' /\ IsStart(1, EntryLabel)' /\ visitStack'[1].partition = NoCycle
    BY <1>6, <2>1, <2>2
  <2>4. visitStack' # <<>>
    <3>1. Len(visitStack') # 0
      BY <1>3, <1>4, <2>3
    <3> QED
      BY <3>1
  <2> QED
    BY <2>3, <2>4 DEF EntryFirst
<1>14. LowInv' /\ TreeInv'
  <2>1. LowInv'
    BY <1>0, <1>7, <1>8 DEF BuilderInv, LowInv
  <2>2. TreeInv'
    BY <1>0, <1>7, <1>8 DEF BuilderInv, TreeInv
  <2> QED
    BY <2>1, <2>2
<1>r. ASSUME NEW i \in Tasks', NEW h \in Labels, IsContinue(i, h)',
             NEW Y \in SUBSET Labels, Region(i, h, Y)
      PROVE  Region(i, h, Y)'
  <2>1. Region(i, h, Y)
    BY <1>r
  <2>2. \A j \in Tasks' : i < j /\ IsPush(j)' => visitStack'[j].todo \subseteq Y
    BY <1>5, <1>6, <2>1 DEF Region
  <2> QED
    BY <1>0, <1>7, <2>1, <2>2 DEF Region
<1>15. RegionInv'
  BY <1>5, <1>6, <1>r DEF BuilderInv, RegionInv
<1>16. WhiteInv'
  <2> SUFFICES ASSUME NEW i \in Tasks', ~IsPush(i)',
                      NEW z \in children'[visitStack'[i].vertex], dfn'[z] = 0,
                      NEW C \in SUBSET Labels, Covers(i, C)'
               PROVE  z \in C
    BY DEF WhiteInv
  <2>1. i \in Tasks /\ ~IsPush(i) /\ visitStack'[i] = visitStack[i]
    BY <1>5, <1>6
  <2>2. \A j \in Tasks : i < j /\ IsPush(j) => \A y \in visitStack[j].todo : dfn[y] = 0 => y \in C
    <3> SUFFICES ASSUME NEW j \in Tasks, i < j, IsPush(j), NEW y \in visitStack[j].todo, dfn[y] = 0
                 PROVE  y \in C
      OBVIOUS
    <3>1. j <= Len(w) /\ y \in visitStack'[j].todo
      BY <1>6
    <3>2. j \in Tasks' /\ IsPush(j)' /\ dfn'[y] = 0
      BY <1>0, <1>6, <3>1
    <3> QED
      BY <3>1, <3>2 DEF Covers
  <2>3. Covers(i, C)
    BY <1>0, <2>2 DEF Covers
  <2> QED
    BY <1>0, <2>1, <2>3 DEF BuilderInv, WhiteInv
<1>17. \E m : PlacedInv(m)'
  <2>1. PICK m : PlacedInv(m)
    BY DEF BuilderInv
  <2>2. PlacedInv(m)'
    BY <1>0, <1>8, <2>1, PlacedSame
  <2> QED
    BY <2>2
<1>18. BuilderInv'
  BY <1>9, <1>11, <1>12, <1>13, <1>14, <1>15, <1>16, <1>17 DEF BuilderInv
<1> QED
  BY <1>r, <1>18


(* The numbers after v got its own. *)
NumberAdded(v) ==
  /\ \A l \in Labels : l # v => dfn'[l] = dfn[l]
  /\ dfn'[v] = num + 1 /\ headDfn[v] = 0 /\ dfn'[v] # 0 /\ dfn'[v] # DFN_INF
  /\ \A l \in Labels : Numbered(l)' <=> Numbered(l) \/ l = v
  /\ \A l \in Labels : Pending(l)' <=> Pending(l) \/ l = v
  /\ \A l \in Labels : Settled(l)' <=> Settled(l)
  /\ \A l \in Labels : Numbered(l) => l # v /\ dfn[l] < num + 1
  /\ \A l \in Labels : dfn'[l] = 0 <=> dfn[l] = 0 /\ l # v
  /\ \A l \in Labels : dfn'[l] = DFN_INF <=> dfn[l] = DFN_INF
  /\ num \in Nat

LEMMA NewNumber ==
  ASSUME BuilderInv, NEW v \in Labels, dfn[v] = 0, num + 1 < DFN_INF, num' = num + 1,
         dfn' = [dfn EXCEPT ![v] = num + 1], headDfn' = headDfn
  PROVE  NumberAdded(v)
<1>1. /\ \A l \in Labels : dfn[l] \in Nat
      /\ num \in Nat /\ num < DFN_INF /\ DFN_INF \in Nat
      /\ \A l \in Labels : Numbered(l) => 0 < dfn[l] /\ dfn[l] <= num /\ dfn[l] < DFN_INF
  BY NumberFacts DEF BuilderInv
<1>2. /\ \A l \in Labels : l # v => dfn'[l] = dfn[l]
      /\ dfn'[v] = num + 1
  BY DEF BuilderInv, NumberTypes
<1>3. headDfn[v] = 0 /\ dfn'[v] # 0 /\ dfn'[v] # DFN_INF /\ DFN_INF # 0
  BY <1>1, <1>2, DfnAssumption DEF BuilderInv, StackInv
<1>4. \A l \in Labels : Numbered(l) => l # v /\ dfn[l] < num + 1
  BY <1>1 DEF Numbered
<1>5. \A l \in Labels : Numbered(l)' <=> Numbered(l) \/ l = v
  BY <1>2, <1>3 DEF Numbered
<1>6. \A l \in Labels : Pending(l)' <=> Pending(l) \/ l = v
  BY <1>3, <1>5 DEF Pending
<1>7. \A l \in Labels : Settled(l)' <=> Settled(l)
  BY <1>3, <1>5 DEF Settled
<1>8. \A l \in Labels : dfn'[l] = 0 <=> dfn[l] = 0 /\ l # v
  BY <1>2, <1>3
<1>9. \A l \in Labels : dfn'[l] = DFN_INF <=> dfn[l] = DFN_INF
  BY <1>2, <1>3
<1> QED
  BY <1>1, <1>2, <1>3, <1>4, <1>5, <1>6, <1>7, <1>8, <1>9 DEF NumberAdded

(* The tasks after v got a number: the first k are old, then v is visited, *)
(* then the children S.  _visit_stack had L tasks.                         *)
NewTop(L, k, v, S) ==
  /\ k = L - 1 \/ k = L
  /\ Top.todo = {v} => k = L - 1
  /\ \A i \in Tasks : i < L => i \in Tasks' /\ i <= k
  /\ \A i \in Tasks : i <= k =>
       /\ i \in Tasks'
       /\ visitStack'[i].partition = visitStack[i].partition
       /\ IsPush(i)' <=> IsPush(i)
       /\ ~IsPush(i) => visitStack'[i] = visitStack[i]
       /\ IsPush(i) => /\ visitStack'[i].todo \subseteq visitStack[i].todo
                       /\ i < L => visitStack'[i].todo = visitStack[i].todo
       /\ \A l : IsStart(i, l)' <=> IsStart(i, l)
       /\ \A l : IsContinue(i, l)' <=> IsContinue(i, l)
  /\ \A i \in Tasks : \A y : IsPush(i) /\ y \in visitStack[i].todo =>
       y = v \/ (i <= k /\ y \in visitStack'[i].todo)
  /\ \A i \in Tasks : ~IsPush(i) => i < L /\ i <= k
  /\ k + 1 \in Tasks' /\ ~IsPush(k + 1)'
  /\ visitStack'[k + 1].vertex = v /\ visitStack'[k + 1].type = "StartVisit"
  /\ visitStack'[k + 1].partition = Top.partition
  /\ \A l : (IsStart(k + 1, l)' <=> l = v) /\ ~IsContinue(k + 1, l)'
  /\ S # {} => k + 2 \in Tasks' /\ IsPush(k + 2)' /\ visitStack'[k + 2].todo = S
  /\ \A i \in Tasks' :
       \/ i \in Tasks /\ i <= k
       \/ i = k + 1
       \/ /\ i = k + 2 /\ IsPush(i)'
          /\ visitStack'[i].todo = S /\ visitStack'[i].partition = Top.partition
          /\ \A l : ~IsStart(i, l)' /\ ~IsContinue(i, l)'

LEMMA NewTasks ==
  ASSUME BuilderInv, visitStack # <<>>, Top.type = "PushSuccessors",
         NEW v \in Labels, v \in Top.todo, NEW L, L = Len(visitStack),
         NEW S \in SUBSET Labels,
         visitStack' = PushTasks(Append(PopSuccessor(v), VisitTask("StartVisit", v, Top.partition)),
                                 S, Top.partition)
  PROVE  \E k \in Nat : NewTop(L, k, v, S)
<1>1. PICK w : w = PopSuccessor(v)
  OBVIOUS
<1>2. /\ w \in Seq(Task) /\ L \in Nat /\ L > 0 /\ Len(w) \in Nat
      /\ \A i \in Tasks : i \in Int /\ i <= L /\ visitStack[i] \in Task
      /\ L \in Tasks /\ IsPush(L) /\ visitStack[L] = Top
      /\ Len(w) = L - 1 \/ Len(w) = L
      /\ Top.todo = {v} => Len(w) = L - 1
  BY <1>1, PopSuccessorFacts
<1>3. PICK k \in Nat : k = Len(w)
  BY <1>2
<1> DEFINE t == VisitTask("StartVisit", v, Top.partition)
<1>4. t \in Task /\ Top.partition \in Cycles
  <2>1. Top.partition \in Cycles
    BY <1>2, TaskFacts
  <2> QED
    BY <2>1, VisitTaskType
<1>5. t.type = "StartVisit" /\ t.vertex = v /\ t.partition = Top.partition
  BY DEF VisitTask
<1>6. visitStack' = PushTasks(Append(w, t), S, Top.partition)
  BY <1>1
<1> HIDE DEF t
<1>7. /\ S = {} => Len(visitStack') = k + 1
      /\ S # {} => /\ Len(visitStack') = k + 2
                   /\ visitStack'[k + 2] =
                        [type |-> "PushSuccessors", todo |-> S, partition |-> Top.partition]
      /\ visitStack'[k + 1] = t
      /\ \A i \in 1 .. k : visitStack'[i] = w[i]
  <2>1. PICK s : s = visitStack'
    OBVIOUS
  <2>2. s = PushTasks(Append(w, t), S, Top.partition)
    BY <1>6, <2>1
  <2>3. PICK p \in Cycles : p = Top.partition
    BY <1>4
  <2>4. PICK r \in Task : r = t
    BY <1>4
  <2>5. s = PushTasks(Append(w, r), S, p) /\ w \in Seq(Task)
    BY <1>2, <2>2, <2>3, <2>4
  <2>6. Pushed(w, r, S, p, s)
    BY <2>5, PushTasksFacts
  <2> QED
    BY <1>3, <2>1, <2>3, <2>4, <2>6 DEF Pushed
<1>8. Len(visitStack') \in Nat /\ Len(w) <= Len(visitStack')
  BY <1>3, <1>7
<1>9. /\ \A i \in Tasks : i < L => i \in Tasks' /\ i <= k
      /\ \A i \in Tasks : i <= k =>
           /\ i \in Tasks'
           /\ visitStack'[i].partition = visitStack[i].partition
           /\ IsPush(i)' <=> IsPush(i)
           /\ ~IsPush(i) => visitStack'[i] = visitStack[i]
           /\ IsPush(i) => /\ visitStack'[i].todo \subseteq visitStack[i].todo
                           /\ i < L => visitStack'[i].todo = visitStack[i].todo
           /\ \A l : IsStart(i, l)' <=> IsStart(i, l)
           /\ \A l : IsContinue(i, l)' <=> IsContinue(i, l)
      /\ \A i \in Tasks : \A y : IsPush(i) /\ y \in visitStack[i].todo =>
           y = v \/ (i <= k /\ y \in visitStack'[i].todo)
      /\ \A i \in Tasks : ~IsPush(i) => i < L /\ i <= k
  BY <1>1, <1>3, <1>7, <1>8, KeptTasks
<1>10. /\ k + 1 \in Tasks' /\ ~IsPush(k + 1)'
       /\ visitStack'[k + 1].vertex = v /\ visitStack'[k + 1].type = "StartVisit"
       /\ visitStack'[k + 1].partition = Top.partition
       /\ \A l : (IsStart(k + 1, l)' <=> l = v) /\ ~IsContinue(k + 1, l)'
  BY <1>5, <1>7 DEF Tasks, IsPush, IsStart, IsContinue
<1>11. S # {} => /\ k + 2 \in Tasks' /\ IsPush(k + 2)' /\ visitStack'[k + 2].todo = S
                 /\ visitStack'[k + 2].partition = Top.partition
                 /\ \A l : ~IsStart(k + 2, l)' /\ ~IsContinue(k + 2, l)'
  BY <1>7 DEF Tasks, IsPush, IsStart, IsContinue
<1>12. \A i \in Tasks' : (i \in Tasks /\ i <= k) \/ i = k + 1 \/ (i = k + 2 /\ S # {})
  <2>1. Tasks = 1 .. L /\ Tasks' = 1 .. Len(visitStack')
    BY DEF Tasks
  <2> QED
    BY <1>2, <1>3, <1>7, <2>1
<1>13. \A i \in Tasks' :
         \/ i \in Tasks /\ i <= k
         \/ i = k + 1
         \/ /\ i = k + 2 /\ IsPush(i)'
            /\ visitStack'[i].todo = S /\ visitStack'[i].partition = Top.partition
            /\ \A l : ~IsStart(i, l)' /\ ~IsContinue(i, l)'
  BY <1>11, <1>12
<1>14. (k = L - 1 \/ k = L) /\ (Top.todo = {v} => k = L - 1)
  BY <1>2, <1>3
<1>15. NewTop(L, k, v, S)
  BY <1>9, <1>10, <1>11, <1>13, <1>14 DEF NewTop
<1> QED
  BY <1>15


LEMMA NewPushed ==
  ASSUME BuilderInv, NEW v \in Labels, PushSuccessors(v), dfn[v] = 0
  PROVE  \E S \in SUBSET Labels :
           /\ \A z : z \in S <=> z \in children[v] /\ dfn'[z] = 0
           /\ visitStack' =
                PushTasks(Append(PopSuccessor(v), VisitTask("StartVisit", v, Top.partition)),
                          S, Top.partition)
<1>1. PICK S : S = Unvisited(v, dfn')
  OBVIOUS
<1>2. S \in SUBSET Labels
  BY <1>1, GraphFacts DEF Unvisited, BuilderInv
<1>3. \A z : z \in S <=> z \in children[v] /\ dfn'[z] = 0
  BY <1>1 DEF Unvisited
<1>4. visitStack' =
        PushTasks(Append(PopSuccessor(v), VisitTask("StartVisit", v, Top.partition)),
                  S, Top.partition)
  BY <1>1 DEF PushSuccessors
<1> QED
  BY <1>2, <1>3, <1>4

LEMMA NewStack ==
  ASSUME BuilderInv, NEW v \in Labels, PushSuccessors(v), dfn[v] = 0
  PROVE  NumberTypes' /\ StackInv'
<1>0. /\ visitStack # <<>> /\ Top.type = "PushSuccessors" /\ v \in Top.todo
      /\ num + 1 < DFN_INF /\ num' = num + 1 /\ dfn' = [dfn EXCEPT ![v] = num + 1]
      /\ stack' = Append(stack, v)
      /\ UNCHANGED <<headDfn, children, components>>
  BY DEF PushSuccessors, NextNumber
<1>n. NumberAdded(v)
  BY <1>0, NewNumber
<1> USE DEF NumberAdded
<1>1. /\ stack \in Seq(Labels) /\ Len(stack) \in Nat /\ \A i \in 1 .. Len(stack) : stack[i] \in Labels
      /\ dfn \in [Labels -> 0 .. DFN_INF] /\ headDfn \in [Labels -> 0 .. DFN_INF]
  BY DEF BuilderInv, NumberTypes
<1>2. /\ stack' \in Seq(Labels) /\ Len(stack') = Len(stack) + 1 /\ stack'[Len(stack) + 1] = v
      /\ \A i \in 1 .. Len(stack) : stack'[i] = stack[i]
  BY <1>0, <1>1, AppendProperties
<1>3. DFN_INF \in Nat
  BY DfnAssumption
<1>4. NumberTypes'
  <2>1. num + 1 \in 0 .. DFN_INF - 1 /\ num + 1 \in 0 .. DFN_INF
    BY <1>0, <1>3, <1>n
  <2> QED
    BY <1>0, <1>1, <1>2, <2>1 DEF NumberTypes
<1>5. \A i \in 1 .. Len(stack') : i \in 1 .. Len(stack) \/ i = Len(stack) + 1
  BY <1>1, <1>2
<1>6. StackInv'
  <2>0. StackInv
    BY DEF BuilderInv
  <2>1. \A i \in 1 .. Len(stack) :
          /\ dfn'[stack'[i]] # 0 /\ dfn'[stack'[i]] # DFN_INF /\ stack'[i] # v /\ stack'[i] \in Labels
          /\ dfn'[stack'[i]] = dfn[stack[i]] /\ dfn[stack[i]] < num + 1 /\ dfn[stack[i]] \in Nat
    <3> SUFFICES ASSUME NEW i \in 1 .. Len(stack)
                 PROVE  /\ dfn'[stack'[i]] # 0 /\ dfn'[stack'[i]] # DFN_INF /\ stack'[i] # v /\ stack'[i] \in Labels
                        /\ dfn'[stack'[i]] = dfn[stack[i]] /\ dfn[stack[i]] < num + 1
                        /\ dfn[stack[i]] \in Nat
      OBVIOUS
    <3>1. PICK l \in Labels : l = stack[i]
      BY <1>1
    <3>2. Numbered(l) /\ dfn[l] \in Nat
      BY <2>0, <3>1, NumberFacts DEF StackInv, BuilderInv
    <3>3. l # v /\ dfn[l] < num + 1 /\ Numbered(l)' /\ dfn'[l] = dfn[l]
      BY <1>n, <3>2
    <3>4. stack'[i] = l
      BY <1>2, <3>1
    <3> QED
      BY <3>1, <3>2, <3>3, <3>4 DEF Numbered
  <2>2. \A i \in 1 .. Len(stack') : dfn'[stack'[i]] # 0 /\ dfn'[stack'[i]] # DFN_INF /\ dfn'[stack'[i]] <= num'
    <3> SUFFICES ASSUME NEW i \in 1 .. Len(stack')
                 PROVE  dfn'[stack'[i]] # 0 /\ dfn'[stack'[i]] # DFN_INF /\ dfn'[stack'[i]] <= num'
      OBVIOUS
    <3>1. CASE i = Len(stack) + 1
      <4>1. stack'[i] = v
        BY <1>2, <3>1
      <4> QED
        BY <1>0, <1>n, <4>1 DEF Numbered
    <3>2. CASE i \in 1 .. Len(stack)
      BY <1>0, <1>n, <2>1, <3>2
    <3> QED
      BY <1>5, <3>1, <3>2
  <2>3. \A l \in Labels : Numbered(l)' => \E i \in 1 .. Len(stack') : stack'[i] = l
    <3> SUFFICES ASSUME NEW l \in Labels, Numbered(l)'
                 PROVE  \E i \in 1 .. Len(stack') : stack'[i] = l
      OBVIOUS
    <3>1. CASE l = v
      BY <1>1, <1>2, <3>1
    <3>2. CASE Numbered(l)
      <4>1. PICK i \in 1 .. Len(stack) : stack[i] = l
        BY <2>0, <3>2 DEF StackInv
      <4>2. i \in 1 .. Len(stack') /\ stack'[i] = stack[i]
        BY <1>1, <1>2
      <4> QED
        BY <4>1, <4>2
    <3> QED
      BY <1>n, <3>1, <3>2
  <2>4. \A i, j \in 1 .. Len(stack') : i < j => dfn'[stack'[i]] < dfn'[stack'[j]]
    <3> SUFFICES ASSUME NEW i \in 1 .. Len(stack'), NEW j \in 1 .. Len(stack'), i < j
                 PROVE  dfn'[stack'[i]] < dfn'[stack'[j]]
      OBVIOUS
    <3>0. i \in 1 .. Len(stack)
      BY <1>1, <1>2
    <3>1. CASE j = Len(stack) + 1
      <4>1. dfn'[stack'[j]] = num + 1
        BY <1>2, <1>n, <3>1
      <4> QED
        BY <2>1, <3>0, <4>1
    <3>2. CASE j \in 1 .. Len(stack)
      BY <2>0, <2>1, <3>0, <3>2 DEF StackInv
    <3> QED
      BY <1>5, <3>1, <3>2
  <2>5. \A l \in Labels : dfn'[l] = 0 => headDfn'[l] = 0
    BY <1>0, <1>n, <2>0 DEF StackInv
  <2> QED
    BY <2>2, <2>3, <2>4, <2>5 DEF StackInv, Numbered
<1> QED
  BY <1>4, <1>6

LEMMA NewVisits ==
  ASSUME BuilderInv, NEW v \in Labels, PushSuccessors(v), dfn[v] = 0
  PROVE  VisitInv' /\ PartitionInv' /\ EntryFirst'
<1>0. /\ visitStack # <<>> /\ Top.type = "PushSuccessors" /\ v \in Top.todo
      /\ num + 1 < DFN_INF /\ num' = num + 1 /\ dfn' = [dfn EXCEPT ![v] = num + 1]
      /\ stack' = Append(stack, v)
      /\ UNCHANGED <<headDfn, children, components>>
  BY DEF PushSuccessors, NextNumber
<1>n. NumberAdded(v)
  BY <1>0, NewNumber
<1> USE DEF NumberAdded
<1>s. PICK S \in SUBSET Labels :
        /\ \A z : z \in S <=> z \in children[v] /\ dfn'[z] = 0
        /\ visitStack' = PushTasks(Append(PopSuccessor(v), VisitTask("StartVisit", v, Top.partition)),
                                   S, Top.partition)
  BY NewPushed
<1>L. PICK L : L = Len(visitStack)
  OBVIOUS
<1>p. /\ L \in Nat /\ L > 0 /\ L \in Tasks /\ IsPush(L) /\ visitStack[L] = Top
      /\ \A i \in Tasks : i \in Int /\ i <= L /\ visitStack[i] \in Task
  BY <1>0, <1>L, TopTask DEF BuilderInv, IsPush, Top
<1>k. PICK k \in Nat : NewTop(L, k, v, S)
  BY <1>0, <1>s, <1>L, NewTasks
<1> USE DEF NewTop
<1>c. \A i \in Tasks : \A l : IsStart(i, l) \/ IsContinue(i, l) => ~IsPush(i) /\ i < L /\ i <= k
  BY <1>k DEF IsStart, IsContinue, IsPush
<1>1. ASSUME NEW i \in Tasks, ~IsPush(i)
      PROVE  NumberOf(i)' = NumberOf(i) /\ NumberOf(i) < num + 1
  <2>1. /\ visitStack[i].type = "StartVisit" \/ visitStack[i].type = "ContinueVisit"
        /\ visitStack[i].vertex \in Labels /\ visitStack'[i] = visitStack[i]
    BY <1>1, <1>k, <1>p, TaskFacts DEF IsPush
  <2>2. PICK x \in Labels : x = visitStack[i].vertex
    BY <2>1
  <2>3. CASE visitStack[i].type = "StartVisit"
    <3>1. Numbered(x)
      BY <2>2, <2>3 DEF BuilderInv, VisitInv, IsStart, Pending
    <3>2. NumberOf(i) = dfn[x] /\ NumberOf(i)' = dfn'[x]
      BY <2>1, <2>2, <2>3 DEF NumberOf
    <3> QED
      BY <1>n, <3>1, <3>2
  <2>4. CASE visitStack[i].type = "ContinueVisit"
    <3>1. headDfn[x] <= num /\ headDfn[x] \in Nat
      BY <2>2, <2>4, NumberFacts DEF BuilderInv, VisitInv, IsContinue
    <3>2. NumberOf(i) = headDfn[x] /\ NumberOf(i)' = headDfn'[x]
      BY <2>1, <2>2, <2>4 DEF NumberOf
    <3> QED
      BY <1>0, <1>n, <3>1, <3>2
  <2> QED
    BY <2>1, <2>3, <2>4
<1>2. NumberOf(k + 1)' = num + 1
  BY <1>k, <1>n DEF NumberOf
<1>3. VisitInv'
  <2>1. \A i \in Tasks' : \A l \in Labels : IsStart(i, l)' => Pending(l)'
    BY <1>k, <1>n DEF BuilderInv, VisitInv
  <2>2. \A l \in Labels : Pending(l)' => \E i \in Tasks' : IsStart(i, l)'
    <3> SUFFICES ASSUME NEW l \in Labels, Pending(l)'
                 PROVE  \E i \in Tasks' : IsStart(i, l)'
      OBVIOUS
    <3>1. CASE l = v
      BY <1>k, <3>1
    <3>2. CASE Pending(l)
      BY <1>c, <1>k, <3>2 DEF BuilderInv, VisitInv
    <3> QED
      BY <1>n, <3>1, <3>2
  <2>3. \A i \in Tasks' : \A h \in Labels : IsContinue(i, h)' =>
          dfn'[h] = DFN_INF /\ headDfn'[h] # 0 /\ headDfn'[h] <= num'
    <3> SUFFICES ASSUME NEW i \in Tasks', NEW h \in Labels, IsContinue(i, h)'
                 PROVE  dfn'[h] = DFN_INF /\ headDfn'[h] # 0 /\ headDfn'[h] <= num'
      OBVIOUS
    <3>1. i \in Tasks /\ IsContinue(i, h)
      BY <1>k
    <3>2. dfn[h] = DFN_INF /\ headDfn[h] # 0 /\ headDfn[h] <= num /\ headDfn[h] \in Nat
      BY <3>1, NumberFacts DEF BuilderInv, VisitInv
    <3>3. headDfn[h] <= num + 1
      BY <1>n, <3>2
    <3> QED
      BY <1>0, <1>n, <3>2, <3>3
  <2>4. ASSUME NEW i \in Tasks', NEW j \in Tasks', i < j, ~IsPush(i)', ~IsPush(j)'
        PROVE  NumberOf(i)' < NumberOf(j)'
    <3>1. CASE j = k + 1
      <4>1. i # k + 1 /\ i # k + 2
        <5>1. i \in Int
          BY DEF Tasks
        <5> QED BY <2>4, <3>1, <5>1
      <4>2. i \in Tasks /\ ~IsPush(i)
        BY <1>k, <2>4, <4>1
      <4> QED
        BY <1>1, <1>2, <3>1, <4>2
    <3>2. CASE j \in Tasks /\ j <= k
      <4>1. i # k + 1 /\ i # k + 2
        <5>1. i \in Int /\ j \in Int
          BY DEF Tasks
        <5> QED BY <2>4, <3>2, <5>1
      <4>2. i \in Tasks /\ ~IsPush(i) /\ ~IsPush(j)
        BY <1>k, <2>4, <3>2, <4>1
      <4>3. NumberOf(i) < NumberOf(j)
        BY <2>4, <3>2, <4>2 DEF BuilderInv, VisitInv
      <4> QED
        BY <1>1, <3>2, <4>2, <4>3
    <3> QED
      BY <1>k, <2>4, <3>1, <3>2
  <2>5. ASSUME NEW i \in Tasks', IsPush(i)', i > 1
        PROVE  ~IsPush(i - 1)' /\ visitStack'[i].todo \subseteq children'[visitStack'[i - 1].vertex]
    <3>1. CASE i \in Tasks /\ i <= k
      <4>1. i - 1 \in Tasks /\ i - 1 <= k /\ IsPush(i)
        BY <1>k, <2>5, <3>1 DEF Tasks
      <4>2. ~IsPush(i - 1) /\ visitStack[i].todo \subseteq children[visitStack[i - 1].vertex]
        BY <2>5, <3>1, <4>1 DEF BuilderInv, VisitInv
      <4>3. /\ ~IsPush(i - 1)' /\ visitStack'[i - 1] = visitStack[i - 1]
            /\ visitStack'[i].todo \subseteq visitStack[i].todo
        BY <1>k, <3>1, <4>1, <4>2
      <4> QED
        BY <1>0, <4>2, <4>3
    <3>2. CASE i = k + 2 /\ visitStack'[i].todo = S
      <4>1. i - 1 = k + 1
        BY <3>2
      <4> QED
        BY <1>0, <1>k, <1>s, <3>2, <4>1
    <3> QED
      BY <1>k, <2>5, <3>1, <3>2
  <2> QED
    BY <2>1, <2>2, <2>3, <2>4, <2>5 DEF VisitInv
<1>4. PartitionInv'
  <2> SUFFICES ASSUME NEW i \in Tasks', NEW p \in Cycles, visitStack'[i].partition = p
               PROVE  /\ p = NoCycle \/ \E j \in Tasks' : j < i /\ IsContinue(j, p)'
                      /\ \A j \in Tasks', h \in Labels : j < i /\ IsContinue(j, h)' =>
                           p # NoCycle /\ headDfn'[h] <= headDfn'[p]
    BY DEF PartitionInv
  <2>1. CASE i \in Tasks /\ i <= k
    <3>1. visitStack[i].partition = p
      BY <1>k, <2>1
    <3>2. /\ p = NoCycle \/ \E j \in Tasks : j < i /\ IsContinue(j, p)
          /\ \A j \in Tasks, h \in Labels :
               j < i /\ IsContinue(j, h) => p # NoCycle /\ headDfn[h] <= headDfn[p]
      BY <2>1, <3>1 DEF BuilderInv, PartitionInv
    <3>3. p = NoCycle \/ \E j \in Tasks' : j < i /\ IsContinue(j, p)'
      BY <1>c, <1>k, <3>2
    <3>4. \A j \in Tasks', h \in Labels : j < i /\ IsContinue(j, h)' =>
            p # NoCycle /\ headDfn'[h] <= headDfn'[p]
      BY <1>0, <1>k, <3>2
    <3> QED
      BY <3>3, <3>4
  <2>2. CASE (i = k + 1 \/ i = k + 2) /\ visitStack'[i].partition = Top.partition
    <3>1. visitStack[L].partition = p
      BY <1>p, <2>2
    <3>2. /\ p = NoCycle \/ \E j \in Tasks : j < L /\ IsContinue(j, p)
          /\ \A j \in Tasks, h \in Labels :
               j < L /\ IsContinue(j, h) => p # NoCycle /\ headDfn[h] <= headDfn[p]
      BY <1>p, <3>1 DEF BuilderInv, PartitionInv
    <3>3. \A j \in Tasks : j < L => j < i
      BY <1>k, <1>p, <2>2
    <3>4. p = NoCycle \/ \E j \in Tasks' : j < i /\ IsContinue(j, p)'
      BY <1>c, <1>k, <3>2, <3>3
    <3>5. \A j \in Tasks', h \in Labels : IsContinue(j, h)' =>
            p # NoCycle /\ headDfn'[h] <= headDfn'[p]
      <4> SUFFICES ASSUME NEW j \in Tasks', NEW h \in Labels, IsContinue(j, h)'
                   PROVE  p # NoCycle /\ headDfn'[h] <= headDfn'[p]
        OBVIOUS
      <4>1. j \in Tasks /\ IsContinue(j, h)
        BY <1>k
      <4> QED
        BY <1>0, <1>c, <3>2, <4>1
    <3> QED
      BY <3>4, <3>5
  <2> QED
    BY <1>k, <2>1, <2>2
<1>5. EntryFirst'
  <2>0. visitStack' # <<>>
    <3>1. Len(visitStack') # 0
      BY <1>k DEF Tasks
    <3> QED
      BY <3>1
  <2>1. CASE IsPush(1)
    <3>1. L = 1 /\ Top.todo = {EntryLabel} /\ Top.partition = NoCycle
      BY <1>0, <1>L, <1>p, <2>1 DEF BuilderInv, EntryFirst
    <3>2. v = EntryLabel
      BY <1>0, <3>1
    <3>3. k = 0
      BY <1>k, <3>1, <3>2
    <3> QED
      BY <1>k, <2>0, <3>1, <3>2, <3>3 DEF EntryFirst
  <2>2. CASE ~IsPush(1)
    <3>1. IsStart(1, EntryLabel) /\ visitStack[1].partition = NoCycle
      BY <1>0, <2>2 DEF BuilderInv, EntryFirst
    <3>2. 1 \in Tasks
      BY <1>L, <1>p DEF Tasks
    <3>3. 1 <= k
      BY <1>c, <3>1, <3>2
    <3>4. ~IsPush(1)' /\ IsStart(1, EntryLabel)' /\ visitStack'[1].partition = NoCycle
      BY <1>k, <2>2, <3>1, <3>2, <3>3
    <3> QED
      BY <2>0, <3>4 DEF EntryFirst
  <2> QED
    BY <2>1, <2>2
<1> QED
  BY <1>3, <1>4, <1>5


LEMMA NewBuilding ==
  ASSUME BuilderInv, NEW v \in Labels, PushSuccessors(v), dfn[v] = 0
  PROVE  \A l \in Labels : Building(l)' <=> Building(l)
<1>0. /\ visitStack # <<>> /\ Top.type = "PushSuccessors" /\ v \in Top.todo
      /\ num + 1 < DFN_INF /\ num' = num + 1 /\ dfn' = [dfn EXCEPT ![v] = num + 1]
      /\ stack' = Append(stack, v)
      /\ UNCHANGED <<headDfn, children, components>>
  BY DEF PushSuccessors, NextNumber
<1>n. NumberAdded(v)
  BY <1>0, NewNumber
<1> USE DEF NumberAdded
<1>s. PICK S \in SUBSET Labels :
        /\ \A z : z \in S <=> z \in children[v] /\ dfn'[z] = 0
        /\ visitStack' = PushTasks(Append(PopSuccessor(v), VisitTask("StartVisit", v, Top.partition)),
                                   S, Top.partition)
  BY NewPushed
<1>L. PICK L : L = Len(visitStack)
  OBVIOUS
<1>p. /\ L \in Nat /\ L > 0 /\ L \in Tasks /\ IsPush(L) /\ visitStack[L] = Top
      /\ \A i \in Tasks : i \in Int /\ i <= L /\ visitStack[i] \in Task
  BY <1>0, <1>L, TopTask DEF BuilderInv, IsPush, Top
<1>k. PICK k \in Nat : NewTop(L, k, v, S)
  BY <1>0, <1>s, <1>L, NewTasks
<1> USE DEF NewTop
<1>c. \A i \in Tasks : \A l : IsStart(i, l) \/ IsContinue(i, l) => ~IsPush(i) /\ i < L /\ i <= k
  BY <1>k DEF IsStart, IsContinue, IsPush
<1> QED
  BY <1>c, <1>k DEF Building

LEMMA NewLows ==
  ASSUME BuilderInv, NEW v \in Labels, PushSuccessors(v), dfn[v] = 0
  PROVE  LowInv' /\ TreeInv'
<1>0. /\ visitStack # <<>> /\ Top.type = "PushSuccessors" /\ v \in Top.todo
      /\ num + 1 < DFN_INF /\ num' = num + 1 /\ dfn' = [dfn EXCEPT ![v] = num + 1]
      /\ stack' = Append(stack, v)
      /\ UNCHANGED <<headDfn, children, components>>
  BY DEF PushSuccessors, NextNumber
<1>n. NumberAdded(v)
  BY <1>0, NewNumber
<1> USE DEF NumberAdded
<1>s. PICK S \in SUBSET Labels :
        /\ \A z : z \in S <=> z \in children[v] /\ dfn'[z] = 0
        /\ visitStack' = PushTasks(Append(PopSuccessor(v), VisitTask("StartVisit", v, Top.partition)),
                                   S, Top.partition)
  BY NewPushed
<1>L. PICK L : L = Len(visitStack)
  OBVIOUS
<1>p. /\ L \in Nat /\ L > 0 /\ L \in Tasks /\ IsPush(L) /\ visitStack[L] = Top
      /\ \A i \in Tasks : i \in Int /\ i <= L /\ visitStack[i] \in Task
  BY <1>0, <1>L, TopTask DEF BuilderInv, IsPush, Top
<1>k. PICK k \in Nat : NewTop(L, k, v, S)
  BY <1>0, <1>s, <1>L, NewTasks
<1> USE DEF NewTop
<1>c. \A i \in Tasks : \A l : IsStart(i, l) \/ IsContinue(i, l) => ~IsPush(i) /\ i < L /\ i <= k
  BY <1>k DEF IsStart, IsContinue, IsPush
<1>1. \A l \in Labels : Building(l)' <=> Building(l)
  BY NewBuilding
<1>2. /\ \A l \in Labels : dfn[l] \in Nat /\ headDfn[l] \in Nat
      /\ \A l \in Labels : children[l] \in SUBSET Labels
  BY NumberFacts, GraphFacts DEF BuilderInv
<1>3. LowInv'
  <2> SUFFICES ASSUME NEW u \in Labels, Settled(u)'
               PROVE  /\ headDfn'[u] < dfn'[u]
                      /\ \E s \in Labels : /\ Numbered(s)' /\ dfn'[s] = headDfn'[u]
                                           /\ \E q \in Labels : s \in children'[q]
                      /\ \A g \in Labels : Building(g)' /\ headDfn'[g] < dfn'[u] =>
                           headDfn'[g] < headDfn'[u]
                      /\ \A c \in children'[u] : dfn'[c] # 0 /\ headDfn'[u] <= dfn'[c]
                      /\ \A c \in children'[u], w \in Labels :
                           Pending(w)' /\ dfn'[u] < dfn'[w] =>
                             dfn'[c] = DFN_INF \/ dfn'[c] < dfn'[w]
    BY DEF LowInv
  <2>1. Settled(u) /\ u # v /\ dfn'[u] = dfn[u] /\ headDfn'[u] = headDfn[u]
    BY <1>0, <1>n DEF Settled
  <2>2. /\ headDfn[u] < dfn[u]
        /\ \E s \in Labels : /\ Numbered(s) /\ dfn[s] = headDfn[u]
                             /\ \E q \in Labels : s \in children[q]
        /\ \A h \in Labels : Building(h) /\ headDfn[h] < dfn[u] => headDfn[h] < headDfn[u]
        /\ \A c \in children[u] : dfn[c] # 0 /\ headDfn[u] <= dfn[c]
        /\ \A c \in children[u], w \in Labels :
             Pending(w) /\ dfn[u] < dfn[w] => dfn[c] = DFN_INF \/ dfn[c] < dfn[w]
    BY <2>1 DEF BuilderInv, LowInv
  <2>3. \A c \in children[u] : c \in Labels /\ c # v /\ dfn'[c] = dfn[c]
    BY <1>2, <1>n, <2>2
  <2>4. PICK s \in Labels : /\ Numbered(s) /\ dfn[s] = headDfn[u]
                            /\ \E q \in Labels : s \in children[q]
    BY <2>2
  <2>5. Numbered(s)' /\ dfn'[s] = headDfn'[u] /\ \E q \in Labels : s \in children'[q]
    BY <1>0, <1>n, <2>1, <2>4
  <2>6. \A g \in Labels : Building(g)' /\ headDfn'[g] < dfn'[u] => headDfn'[g] < headDfn'[u]
    BY <1>0, <1>1, <2>1, <2>2
  <2>7. \A c \in children'[u] : dfn'[c] # 0 /\ headDfn'[u] <= dfn'[c]
    BY <1>0, <2>1, <2>2, <2>3
  <2>8. ASSUME NEW c \in children[u], NEW w \in Labels, Pending(w)', dfn'[u] < dfn'[w]
        PROVE  dfn'[c] = DFN_INF \/ dfn'[c] < dfn'[w]
    <3>1. CASE w = v
      <4>1. dfn[c] = DFN_INF \/ Numbered(c)
        BY <2>2 DEF Numbered
      <4> QED
        BY <1>n, <2>3, <3>1, <4>1
    <3>2. CASE w # v
      <4>1. Pending(w) /\ dfn'[w] = dfn[w]
        BY <1>n, <2>8, <3>2
      <4> QED
        BY <2>1, <2>2, <2>3, <2>8, <4>1
    <3> QED
      BY <3>1, <3>2
  <2> QED
    BY <1>0, <2>1, <2>2, <2>5, <2>6, <2>7, <2>8
<1>4. TreeInv'
  <2> SUFFICES ASSUME NEW a \in Labels, NEW u \in Labels,
                      Pending(a)', Numbered(u)', dfn'[a] < dfn'[u],
                      \A g \in Labels : Building(g)' => ~(dfn'[a] < headDfn'[g] /\ headDfn'[g] < dfn'[u])
               PROVE  \E w \in Labels :
                        /\ Numbered(w)' /\ dfn'[a] <= dfn'[w] /\ dfn'[w] < dfn'[u] /\ u \in children'[w]
                        /\ Pending(w)' \/ (Settled(u)' /\ headDfn'[w] <= headDfn'[u])
    BY DEF TreeInv
  <2>1. a # v
    <3> SUFFICES ASSUME a = v PROVE FALSE
      OBVIOUS
    <3>1. u = v \/ Numbered(u)
      BY <1>n
    <3> QED
      BY <1>2, <1>n, <3>1
  <2>2. Pending(a) /\ Numbered(a) /\ dfn'[a] = dfn[a] /\ dfn[a] < num + 1
    BY <1>n, <2>1 DEF Pending
  <2>3. CASE u # v
    <3>1. Numbered(u) /\ dfn'[u] = dfn[u] /\ dfn[a] < dfn[u]
      BY <1>n, <2>2, <2>3
    <3>2. \A g \in Labels : Building(g) => ~(dfn[a] < headDfn[g] /\ headDfn[g] < dfn[u])
      BY <1>0, <1>1, <2>2, <3>1
    <3>3. PICK w \in Labels :
            /\ Numbered(w) /\ dfn[a] <= dfn[w] /\ dfn[w] < dfn[u] /\ u \in children[w]
            /\ Pending(w) \/ (Settled(u) /\ headDfn[w] <= headDfn[u])
      <4>1. TreeInv
        BY DEF BuilderInv
      <4> QED
        BY <2>2, <3>1, <3>2, <4>1 DEF TreeInv
    <3>4. dfn'[w] = dfn[w] /\ Numbered(w)' /\ (Pending(w) => Pending(w)') /\ (Settled(u) => Settled(u)')
      BY <1>n, <3>3
    <3> QED
      BY <1>0, <2>2, <3>1, <3>3, <3>4
  <2>4. CASE u = v
    <3>1. PICK i \in Tasks : IsStart(i, a)
      BY <2>2 DEF BuilderInv, VisitInv
    <3>2. i < L /\ ~IsPush(i) /\ i \in Int /\ NumberOf(i) = dfn[a]
      BY <1>c, <1>p, <3>1 DEF NumberOf, IsStart
    <3>3. L > 1 /\ L - 1 \in Tasks
      BY <1>L, <1>p, <3>1, <3>2 DEF Tasks
    <3>4. ~IsPush(L - 1) /\ v \in children[visitStack[L - 1].vertex]
      BY <1>0, <1>p, <3>3 DEF BuilderInv, VisitInv
    <3>5. PICK x \in Labels : x = visitStack[L - 1].vertex
      BY <1>p, <3>3, <3>4, TaskFacts DEF IsPush
    <3>6. visitStack[L - 1].type = "StartVisit" \/ visitStack[L - 1].type = "ContinueVisit"
      BY <1>p, <3>3, <3>4, TaskFacts DEF IsPush
    <3>7. i = L - 1 \/ i < L - 1
      BY <1>p, <3>2
    <3>8. i # L - 1 => dfn[a] < NumberOf(L - 1)
      BY <3>2, <3>3, <3>4, <3>7 DEF BuilderInv, VisitInv
    <3>9. CASE visitStack[L - 1].type = "StartVisit"
      <4>1. IsStart(L - 1, x) /\ NumberOf(L - 1) = dfn[x]
        BY <3>5, <3>9 DEF IsStart, NumberOf
      <4>2. Pending(x) /\ Numbered(x)
        BY <3>3, <4>1 DEF BuilderInv, VisitInv, Pending
      <4>3. dfn[a] <= dfn[x]
        BY <1>2, <3>2, <3>8, <4>1
      <4>4. Pending(x)' /\ Numbered(x)' /\ dfn'[x] = dfn[x] /\ dfn[x] < num + 1
        BY <1>n, <4>2
      <4>5. v \in children[x]
        BY <3>4, <3>5
      <4> QED
        BY <1>0, <1>n, <2>2, <2>4, <4>3, <4>4, <4>5
    <3>10. CASE visitStack[L - 1].type = "ContinueVisit"
      <4>1. IsContinue(L - 1, x) /\ NumberOf(L - 1) = headDfn[x]
        BY <3>5, <3>10 DEF IsContinue, NumberOf
      <4>2. i # L - 1
        BY <3>1, <3>10 DEF IsStart
      <4>3. Building(x) /\ dfn[a] < headDfn[x]
        BY <3>3, <3>8, <4>1, <4>2 DEF Building
      <4>4. headDfn[x] < num + 1
        BY <1>2, <1>n, <4>3, BuildingFacts
      <4> QED
        BY <1>0, <1>1, <1>n, <2>2, <2>4, <4>3, <4>4
    <3> QED
      BY <3>6, <3>9, <3>10
  <2> QED
    BY <2>3, <2>4
<1> QED
  BY <1>3, <1>4

LEMMA NewRegions ==
  ASSUME BuilderInv, NEW v \in Labels, PushSuccessors(v), dfn[v] = 0
  PROVE  /\ RegionInv' /\ WhiteInv'
         /\ \A i \in Tasks', h \in Labels, Y \in SUBSET Labels :
              IsContinue(i, h)' /\ Region(i, h, Y) => Region(i, h, Y)'
<1>0. /\ visitStack # <<>> /\ Top.type = "PushSuccessors" /\ v \in Top.todo
      /\ num + 1 < DFN_INF /\ num' = num + 1 /\ dfn' = [dfn EXCEPT ![v] = num + 1]
      /\ stack' = Append(stack, v)
      /\ UNCHANGED <<headDfn, children, components>>
  BY DEF PushSuccessors, NextNumber
<1>n. NumberAdded(v)
  BY <1>0, NewNumber
<1> USE DEF NumberAdded
<1>s. PICK S \in SUBSET Labels :
        /\ \A z : z \in S <=> z \in children[v] /\ dfn'[z] = 0
        /\ visitStack' = PushTasks(Append(PopSuccessor(v), VisitTask("StartVisit", v, Top.partition)),
                                   S, Top.partition)
  BY NewPushed
<1>L. PICK L : L = Len(visitStack)
  OBVIOUS
<1>p. /\ L \in Nat /\ L > 0 /\ L \in Tasks /\ IsPush(L) /\ visitStack[L] = Top
      /\ \A i \in Tasks : i \in Int /\ i <= L /\ visitStack[i] \in Task
  BY <1>0, <1>L, TopTask DEF BuilderInv, IsPush, Top
<1>k. PICK k \in Nat : NewTop(L, k, v, S)
  BY <1>0, <1>s, <1>L, NewTasks
<1> USE DEF NewTop
<1>c. \A i \in Tasks : \A l : IsStart(i, l) \/ IsContinue(i, l) => ~IsPush(i) /\ i < L /\ i <= k
  BY <1>k DEF IsStart, IsContinue, IsPush
<1>1. /\ \A l \in Labels : dfn[l] \in Nat /\ headDfn[l] \in Nat
      /\ \A l \in Labels : children[l] \in SUBSET Labels
      /\ DFN_INF # 0
  BY NumberFacts, GraphFacts, DfnAssumption DEF BuilderInv
<1>r. ASSUME NEW i \in Tasks', NEW h \in Labels, IsContinue(i, h)'
      PROVE  i \in Tasks /\ i < L /\ IsContinue(i, h)
  BY <1>c, <1>k, <1>r
<1>2. ASSUME NEW i \in Tasks', NEW h \in Labels, IsContinue(i, h)',
             NEW Y \in SUBSET Labels, Region(i, h, Y)
      PROVE  Region(i, h, Y)'
  <2>1. i \in Tasks /\ i < L /\ IsContinue(i, h)
    BY <1>2, <1>r
  <2>2. Region(i, h, Y)
    BY <1>2
  <2>3. /\ h \in Y
        /\ \A z \in Y : z = h \/ dfn[z] = 0 \/ headDfn[h] < dfn[z]
        /\ \A z \in Y : \A c \in children[z] : c \in Y \/ dfn[c] = DFN_INF
        /\ \A u \in Labels : Numbered(u) /\ headDfn[h] < dfn[u] => u \in Y
        /\ \A j \in Tasks : i < j /\ IsPush(j) => visitStack[j].todo \subseteq Y
    BY <2>2 DEF Region
  <2>4. v \in Y
    BY <1>0, <1>p, <2>1, <2>3
  <2>5. headDfn[h] <= num /\ headDfn[h] < num + 1
    BY <1>1, <1>n, <2>1 DEF BuilderInv, VisitInv
  <2>6. \A z \in Y : z = h \/ dfn'[z] = 0 \/ headDfn'[h] < dfn'[z]
    <3> SUFFICES ASSUME NEW z \in Y
                 PROVE  z = h \/ dfn'[z] = 0 \/ headDfn[h] < dfn'[z]
      BY <1>0
    <3>1. CASE z = v
      BY <1>n, <2>5, <3>1
    <3>2. CASE z # v
      BY <1>n, <2>3, <3>2
    <3> QED
      BY <3>1, <3>2
  <2>7. \A z \in Y : \A c \in children'[z] : c \in Y \/ dfn'[c] = DFN_INF
    BY <1>0, <1>1, <1>n, <2>3
  <2>8. \A u \in Labels : Numbered(u)' /\ headDfn'[h] < dfn'[u] => u \in Y
    BY <1>0, <1>n, <2>3, <2>4
  <2>9. S \subseteq Y
    <3> SUFFICES ASSUME NEW c \in S
                 PROVE  c \in Y
      OBVIOUS
    <3>1. c \in Labels /\ c \in children[v] /\ dfn'[c] = 0
      BY <1>s
    <3>2. dfn[c] = 0
      BY <1>n, <3>1
    <3> QED
      BY <1>1, <2>3, <2>4, <3>1, <3>2
  <2>10. ASSUME NEW j \in Tasks', i < j, IsPush(j)'
         PROVE  visitStack'[j].todo \subseteq Y
    <3>1. CASE j \in Tasks /\ j <= k
      <4>1. IsPush(j) /\ visitStack'[j].todo \subseteq visitStack[j].todo
        BY <1>k, <2>10, <3>1
      <4> QED
        BY <2>3, <2>10, <3>1, <4>1
    <3>2. CASE visitStack'[j].todo = S
      BY <2>9, <3>2
    <3> QED
      BY <1>k, <2>10, <3>1, <3>2
  <2> QED
    BY <2>3, <2>6, <2>7, <2>8, <2>10 DEF Region
<1>i. RegionInv'
  BY <1>2, <1>r DEF BuilderInv, RegionInv
<1>3. ASSUME NEW i \in Tasks', i < k + 2, NEW C \in SUBSET Labels, Covers(i, C)'
      PROVE  S \subseteq C
  <2> SUFFICES ASSUME NEW c \in S
               PROVE  c \in C
    OBVIOUS
  <2>1. k + 2 \in Tasks' /\ IsPush(k + 2)' /\ c \in visitStack'[k + 2].todo /\ dfn'[c] = 0
    BY <1>k, <1>s
  <2> QED
    BY <1>3, <2>1 DEF Covers
<1>4. WhiteInv'
  <2> SUFFICES ASSUME NEW i \in Tasks', ~IsPush(i)',
                      NEW z \in children'[visitStack'[i].vertex], dfn'[z] = 0,
                      NEW C \in SUBSET Labels, Covers(i, C)'
               PROVE  z \in C
    BY DEF WhiteInv
  <2>1. CASE i = k + 1
    <3>1. z \in S /\ i < k + 2
      BY <1>0, <1>k, <1>s, <2>1
    <3> QED
      BY <1>3, <3>1
  <2>2. CASE i \in Tasks /\ i <= k
    <3>0. i \in Int /\ i < k + 2
      BY <2>2 DEF Tasks
    <3>1. ~IsPush(i) /\ visitStack'[i] = visitStack[i]
      BY <1>k, <2>2
    <3>2. S \subseteq C
      BY <1>3, <3>0
    <3>3. visitStack[i].vertex \in Labels
      BY <1>p, <2>2, <3>1, TaskFacts DEF IsPush
    <3>4. z \in Labels /\ z \in children[visitStack[i].vertex] /\ dfn[z] = 0 /\ z # v
      BY <1>0, <1>1, <1>n, <3>1, <3>3
    <3>5. PICK D \in SUBSET Labels : D = C \cup {v}
      OBVIOUS
    <3>6. \A j \in Tasks : i < j /\ IsPush(j) => \A y \in visitStack[j].todo : dfn[y] = 0 => y \in D
      <4> SUFFICES ASSUME NEW j \in Tasks, i < j, IsPush(j), NEW y \in visitStack[j].todo,
                          dfn[y] = 0, y # v
                   PROVE  y \in C
        BY <3>5
      <4>1. j <= k /\ y \in visitStack'[j].todo
        BY <1>k
      <4>2. y \in Labels
        BY <1>p, TaskFacts DEF IsPush
      <4>3. j \in Tasks' /\ IsPush(j)' /\ dfn'[y] = 0
        BY <1>k, <1>n, <4>1, <4>2
      <4> QED
        BY <4>1, <4>3 DEF Covers
    <3>7. \A y \in D : \A x \in children[y] : dfn[x] = 0 => x \in D
      <4> SUFFICES ASSUME NEW y \in D, NEW x \in children[y], dfn[x] = 0, x # v
                   PROVE  x \in C
        BY <3>5
      <4>1. x \in Labels /\ dfn'[x] = 0
        BY <1>1, <1>n
      <4>2. CASE y = v
        BY <1>s, <3>2, <4>1, <4>2
      <4>3. CASE y \in C
        BY <1>0, <4>1, <4>3 DEF Covers
      <4> QED
        BY <3>5, <4>2, <4>3
    <3>8. Covers(i, D)
      BY <3>6, <3>7 DEF Covers
    <3>9. z \in D
      BY <2>2, <3>1, <3>4, <3>8 DEF BuilderInv, WhiteInv
    <3> QED
      BY <3>4, <3>5, <3>9
  <2> QED
    BY <1>k, <2>1, <2>2
<1> QED
  BY <1>2, <1>4, <1>i

LEMMA NewStep ==
  ASSUME BuilderInv, BuilderTypes', NEW v \in Labels, PushSuccessors(v), dfn[v] = 0
  PROVE  BuilderInv'
<1>1. \E m : PlacedInv(m)'
  <2>1. PICK m : PlacedInv(m)
    BY DEF BuilderInv
  <2>2. \A l \in Labels : dfn'[l] = DFN_INF <=> dfn[l] = DFN_INF
    BY NewNumber DEF PushSuccessors, NextNumber, NumberAdded
  <2>3. UNCHANGED <<headDfn, components, children>>
    BY DEF PushSuccessors
  <2>4. PlacedInv(m)'
    BY <2>1, <2>2, <2>3, NewBuilding, PlacedSame
  <2> QED
    BY <2>4
<1> QED
  BY <1>1, NewStack, NewVisits, NewLows, NewRegions DEF BuilderInv


-----------------------------------------------------------------------------
(***************************************************************************)
(* The builder keeps its invariant.                                        *)
(***************************************************************************)
LEMMA BuilderInvInit ==
  ASSUME WtoInit
  PROVE  BuilderInv
<1>0. DFN_INF \in Nat /\ DFN_INF # 0 /\ EntryLabel \in Labels /\ NoCycle \in Cycles
  BY DfnAssumption, LabelsAssumption DEF Cycles
<1>1. PICK t : t = [type |-> "PushSuccessors", todo |-> {EntryLabel}, partition |-> NoCycle]
  OBVIOUS
<1>2. Len(visitStack) = 1 /\ visitStack[1] = t /\ visitStack # <<>> /\ Tasks = {1}
  <2>1. visitStack = Append(<<>>, t)
    BY <1>1 DEF WtoInit, PushTasks
  <2>0. <<>> \in Seq(Task)
    OBVIOUS
  <2>2. PICK w \in Seq(Task) : w = <<>>
    BY <2>0
  <2>3. t \in Task /\ Len(w) = 0
    BY <1>0, <1>1, <2>2 DEF Task
  <2>4. /\ visitStack \in Seq(Task) /\ Len(visitStack) = Len(w) + 1
        /\ visitStack[Len(w) + 1] = t
    BY <2>1, <2>2, <2>3, AppendProperties
  <2>5. Len(visitStack) = 1 /\ visitStack[1] = t /\ visitStack # <<>>
    BY <2>3, <2>4
  <2> QED
    BY <2>5 DEF Tasks
<1>3. IsPush(1) /\ \A l : ~IsStart(1, l) /\ ~IsContinue(1, l)
  BY <1>1, <1>2 DEF IsPush, IsStart, IsContinue
<1>4. \A l \in Labels : dfn[l] = 0 /\ headDfn[l] = 0 /\ ~Numbered(l) /\ ~Pending(l)
                        /\ ~Settled(l) /\ ~Building(l)
  BY <1>2, <1>3 DEF WtoInit, Numbered, Pending, Settled, Building
<1>5. BuilderTypes
  BY BuilderTypesInit
<1>6. NumberTypes
  BY <1>0 DEF WtoInit, NumberTypes
<1>7. StackInv
  BY <1>4 DEF WtoInit, StackInv
<1>8. VisitInv
  BY <1>2, <1>3, <1>4 DEF VisitInv
<1>9. PartitionInv
  BY <1>1, <1>2, <1>3 DEF PartitionInv
<1>10. EntryFirst
  BY <1>1, <1>2, <1>3, <1>4 DEF EntryFirst
<1>11. LowInv /\ TreeInv
  BY <1>4 DEF LowInv, TreeInv
<1>12. RegionInv /\ WhiteInv
  BY <1>2, <1>3 DEF RegionInv, WhiteInv
<1>13. PICK m : m = [c \in Cycles |-> {}]
  OBVIOUS
<1>14. /\ \A c \in Cycles : components[c] = <<>> /\ Len(components[c]) = 0 /\ 1 .. Len(components[c]) = {}
       /\ \A c \in Cycles : m[c] = {} /\ m \in [Cycles -> SUBSET Labels]
  BY <1>13 DEF WtoInit
<1>15. Ordered(children, components, m)
  <2>1. IsMembers(components, m)
    <3>1. \A c \in Cycles : m[c] = {} /\ 1 .. Len(components[c]) = {}
      BY <1>14
    <3>2. m \in [Cycles -> SUBSET Labels]
      BY <1>0, <1>14
    <3> QED
      BY <3>1, <3>2 DEF IsMembers
  <2>2. ASSUME NEW c \in Cycles
        PROVE  PartInv(children, components, m, c)
    <3>1. 1 .. Len(components[c]) = {} /\ m[c] = {}
      BY <1>14
    <3> QED
      BY <3>1 DEF PartInv
  <2> QED
    BY <2>1, <2>2 DEF Ordered
<1>16. PlacedInv(m)
  BY <1>0, <1>4, <1>14, <1>15 DEF PlacedInv
<1> QED
  BY <1>5, <1>6, <1>7, <1>8, <1>9, <1>10, <1>11, <1>12, <1>16 DEF BuilderInv

LEMMA BuilderInvStep ==
  ASSUME BuilderInv, BuildStep
  PROVE  BuilderInv'
<1>1. BuilderTypes'
  BY BuilderTypesStep DEF BuilderInv
<1>2. PICK v \in Labels : PushSuccessors(v) \/ StartVisit(v) \/ ContinueVisit(v)
  BY DEF BuildStep
<1>3. CASE PushSuccessors(v)
  BY <1>1, <1>3, PassStep, NewStep
<1>4. CASE StartVisit(v)
  <2>1. visitStack # <<>> /\ Top.type = "StartVisit" /\ v = Top.vertex /\ UNCHANGED <<children, num>>
    BY <1>4 DEF StartVisit
  <2>2. StartVisitInner(v) \/ StartVisitVertex(v) \/ StartVisitCycle(v)
    BY <1>4 DEF StartVisit
  <2> QED
    BY <1>1, <2>1, <2>2, InnerStep, VertexStep, CycleStep
<1>5. CASE ContinueVisit(v)
  BY <1>1, <1>5, ContinueStep
<1> QED
  BY <1>2, <1>3, <1>4, <1>5

LEMMA BuilderInvStutter ==
  ASSUME BuilderInv, UNCHANGED wtoVars
  PROVE  BuilderInv'
<1> USE DEF wtoVars, builderVars
<1>1. BuilderTypes' /\ NumberTypes'
  BY DEF BuilderInv, BuilderTypes, NumberTypes
<1>2. StackInv'
  BY DEF BuilderInv, StackInv, Numbered
<1>3. VisitInv'
  BY DEF BuilderInv, VisitInv, Tasks, IsPush, IsStart, IsContinue, Pending, Numbered, NumberOf
<1>4. PartitionInv'
  BY DEF BuilderInv, PartitionInv, Tasks, IsContinue
<1>5. EntryFirst'
  BY DEF BuilderInv, EntryFirst, IsPush, IsStart
<1>6. LowInv'
  BY DEF BuilderInv, LowInv, Numbered, Pending, Settled, Building, Tasks, IsContinue
<1>7. TreeInv'
  BY DEF BuilderInv, TreeInv, Numbered, Pending, Settled, Building, Tasks, IsContinue
<1>8. RegionInv'
  BY DEF BuilderInv, RegionInv, Region, Tasks, IsPush, IsContinue, Numbered
<1>9. WhiteInv'
  BY DEF BuilderInv, WhiteInv, Covers, Tasks, IsPush
<1>10. \E m : PlacedInv(m)'
  <2>1. PICK m : PlacedInv(m)
    BY DEF BuilderInv
  <2>2. \A l \in Labels : Building(l)' <=> Building(l)
    BY DEF Building, Tasks, IsContinue
  <2>3. PlacedInv(m)'
    BY <2>1, <2>2, PlacedSame
  <2> QED
    BY <2>3
<1> QED
  BY <1>1, <1>2, <1>3, <1>4, <1>5, <1>6, <1>7, <1>8, <1>9, <1>10 DEF BuilderInv


-----------------------------------------------------------------------------
(***************************************************************************)
(* What the invariant says of the finished Wto.                            *)
(***************************************************************************)

(* e solves the equation that defines Members. *)
IsInside(e) ==
  e = [c \in Cycles |->
         UNION {IF x.cycle THEN e[x.label] ELSE {x.label} : x \in ToSet(components[c])}]

LEMMA InsideAt ==
  ASSUME components \in [Cycles -> Seq(Component)], NEW e, IsInside(e), NEW c \in Cycles, NEW l
  PROVE  l \in e[c] <=> \E i \in 1 .. Len(components[c]) : l \in LabelsAt(e, components[c][i])
<1>1. e[c] = UNION {IF x.cycle THEN e[x.label] ELSE {x.label} : x \in ToSet(components[c])}
  BY DEF IsInside
<1>2. \A x : LabelsAt(e, x) = IF x.cycle THEN e[x.label] ELSE {x.label}
  BY DEF LabelsAt
<1>3. e[c] = UNION {LabelsAt(e, x) : x \in ToSet(components[c])}
  BY <1>1, <1>2
<1>4. components[c] \in Seq(Component)
  OBVIOUS
<1>5. \A x : x \in ToSet(components[c]) <=> \E i \in 1 .. Len(components[c]) : components[c][i] = x
  BY <1>4 DEF ToSet
<1>6. l \in e[c] <=> \E x \in ToSet(components[c]) : l \in LabelsAt(e, x)
  BY <1>3
<1> QED
  BY <1>5, <1>6

(* Inner cycles have greater numbers than outer ones, so there is only one *)
(* solution.                                                               *)
LEMMA InsideIsUnique ==
  ASSUME BuilderInv, NEW m, PlacedInv(m), NEW e, IsInside(e)
  PROVE  e = m
<1>0. components \in [Cycles -> Seq(Component)] /\ m \in [Cycles -> SUBSET Labels]
  BY DEF BuilderInv, BuilderTypes, PlacedInv, Ordered, IsMembers
<1>1. ASSUME NEW c \in Cycles,
             \A h \in Labels : (c = NoCycle \/ headDfn[c] < headDfn[h]) => e[h] = m[h]
      PROVE  e[c] = m[c]
  <2>1. ASSUME NEW i \in 1 .. Len(components[c])
        PROVE  LabelsAt(e, components[c][i]) = LabelsAt(m, components[c][i])
    <3>1. components[c][i].label \in Labels
      BY <2>1, PlacedFacts
    <3>2. CASE components[c][i].cycle
      <4>1. c = NoCycle \/ headDfn[c] < headDfn[components[c][i].label]
        BY <3>1, <3>2 DEF PlacedInv
      <4>2. e[components[c][i].label] = m[components[c][i].label]
        BY <1>1, <3>1, <4>1
      <4> QED
        BY <3>2, <4>2 DEF LabelsAt
    <3>3. CASE ~components[c][i].cycle
      BY <3>3 DEF LabelsAt
    <3> QED
      BY <3>2, <3>3
  <2>2. \A l : l \in e[c] => l \in Labels
    <3> SUFFICES ASSUME NEW l, l \in e[c]
                 PROVE  l \in Labels
      OBVIOUS
    <3>1. PICK i \in 1 .. Len(components[c]) : l \in LabelsAt(e, components[c][i])
      BY <1>0, InsideAt
    <3>2. l \in LabelsAt(m, components[c][i]) /\ components[c][i].label \in Labels
      BY <2>1, <3>1, PlacedFacts
    <3>3. components[c][i].label \in Cycles
      BY <3>2 DEF Cycles
    <3> QED
      BY <1>0, <3>2, <3>3 DEF LabelsAt
  <2>3. \A l \in Labels : l \in e[c] <=> l \in m[c]
    <3> SUFFICES ASSUME NEW l \in Labels
                 PROVE  l \in e[c] <=> l \in m[c]
      OBVIOUS
    <3>1. l \in m[c] <=> \E i \in 1 .. Len(components[c]) : l \in LabelsAt(m, components[c][i])
      BY DEF PlacedInv, Ordered, IsMembers
    <3>2. l \in e[c] <=> \E i \in 1 .. Len(components[c]) : l \in LabelsAt(e, components[c][i])
      BY <1>0, InsideAt
    <3> QED
      BY <2>1, <3>1, <3>2
  <2>4. m[c] \subseteq Labels
    BY <1>0
  <2> QED
    BY <2>2, <2>3, <2>4
<1> DEFINE T == {DFN_INF - headDfn[h] : h \in {g \in Labels : e[g] # m[g]}}
<1>2. \A h \in Labels : headDfn[h] \in Nat /\ headDfn[h] <= DFN_INF /\ DFN_INF \in Nat
  BY DfnAssumption DEF BuilderInv, NumberTypes
<1>3. T = {}
  <2> SUFFICES ASSUME T # {} PROVE FALSE
    OBVIOUS
  <2>1. T \subseteq Nat
    BY <1>2
  <2>2. PICK n \in T : \A k \in T : n <= k
    <3> HIDE DEF T
    <3> QED BY <2>1, LeastNatural
  <2>3. PICK c \in Labels : e[c] # m[c] /\ n = DFN_INF - headDfn[c]
    BY <2>2
  <2>4. c \in Cycles /\ c # NoCycle
    BY SentinelAssumption DEF Cycles
  <2>5. \A h \in Labels : headDfn[c] < headDfn[h] => e[h] = m[h]
    <3> SUFFICES ASSUME NEW h \in Labels, e[h] # m[h]
                 PROVE  ~(headDfn[c] < headDfn[h])
      OBVIOUS
    <3>1. DFN_INF - headDfn[h] \in T
      OBVIOUS
    <3>2. DFN_INF - headDfn[c] <= DFN_INF - headDfn[h]
      BY <2>2, <2>3, <3>1
    <3> QED
      BY <1>2, <3>2
  <2> QED
    BY <1>1, <2>3, <2>4, <2>5
<1>4. \A h \in Labels : e[h] = m[h]
  BY <1>3
<1>5. \A c \in Cycles : e[c] = m[c]
  BY <1>1, <1>4 DEF Cycles
<1>6. e = [c \in Cycles |-> e[c]]
  BY DEF IsInside
<1> QED
  BY <1>0, <1>5, <1>6

LEMMA MembersAre ==
  ASSUME BuilderInv, NEW m, PlacedInv(m)
  PROVE  Members = m
<1>0. components \in [Cycles -> Seq(Component)] /\ m \in [Cycles -> SUBSET Labels]
  BY DEF BuilderInv, BuilderTypes, PlacedInv, Ordered, IsMembers
<1>1. IsInside(m)
  <2>1. ASSUME NEW c \in Cycles
        PROVE  m[c] = UNION {IF x.cycle THEN m[x.label] ELSE {x.label} : x \in ToSet(components[c])}
    <3>1. \A x : LabelsAt(m, x) = IF x.cycle THEN m[x.label] ELSE {x.label}
      BY DEF LabelsAt
    <3>2. components[c] \in Seq(Component)
      BY <1>0
    <3>3. \A x : x \in ToSet(components[c]) <=> \E i \in 1 .. Len(components[c]) : components[c][i] = x
      BY <3>2 DEF ToSet
    <3>4. \A x \in ToSet(components[c]) : LabelsAt(m, x) \subseteq Labels
      <4> SUFFICES ASSUME NEW x \in ToSet(components[c])
                   PROVE  LabelsAt(m, x) \subseteq Labels
        OBVIOUS
      <4>1. x \in Component
        BY <3>2, <3>3
      <4>2. x.label \in Labels /\ x.label \in Cycles
        BY <4>1 DEF Component, Cycles
      <4> QED
        BY <1>0, <4>2 DEF LabelsAt
    <3>5. \A l : l \in m[c] <=> \E x \in ToSet(components[c]) : l \in LabelsAt(m, x)
      <4>1. \A l \in Labels :
              l \in m[c] <=> \E i \in 1 .. Len(components[c]) : l \in LabelsAt(m, components[c][i])
        BY DEF PlacedInv, Ordered, IsMembers
      <4> QED
        BY <1>0, <3>3, <3>4, <4>1
    <3>6. m[c] = UNION {LabelsAt(m, x) : x \in ToSet(components[c])}
      BY <3>5
    <3> QED
      BY <3>1, <3>6
  <2> QED
    BY <1>0, <2>1 DEF IsInside
<1>2. Members = CHOOSE e : IsInside(e)
  BY DEF Members, IsInside
<1>3. IsInside(Members)
  BY <1>1, <1>2
<1> QED
  BY <1>3, InsideIsUnique


(* A partition read forward. *)
LEMMA ReadForward ==
  ASSUME components \in [Cycles -> Seq(Component)], NEW c \in Cycles, NEW n, n = Len(components[c])
  PROVE  /\ n \in Nat /\ DOMAIN InOrder(c) = 1 .. n
         /\ \A i \in 1 .. n : (n + 1) - i \in 1 .. n /\ InOrder(c)[i] = components[c][(n + 1) - i]
<1>1. components[c] \in Seq(Component) /\ n \in Nat
  OBVIOUS
<1>2. InOrder(c) = [i \in 1 .. n |-> components[c][(n - i) + 1]]
  BY DEF InOrder, Reverse
<1>3. \A i \in 1 .. n : (n - i) + 1 = (n + 1) - i /\ (n + 1) - i \in 1 .. n
  BY <1>1
<1> QED
  BY <1>1, <1>2, <1>3

LEMMA FinishedIsOrdered ==
  ASSUME BuilderInv
  PROVE  PartitionsAreOrdered
<1> SUFFICES ASSUME WtoDone
             PROVE  /\ Members \in [Cycles -> SUBSET Labels]
                    /\ \A c \in Cycles : IsPartition(c) /\ IsOrdered(c)
                    /\ \A l \in Members[NoCycle] : children[l] \subseteq Members[NoCycle]
                    /\ components[NoCycle] # <<>>
                    /\ InOrder(NoCycle)[1] = [label |-> EntryLabel, cycle |-> FALSE]
  BY DEF PartitionsAreOrdered
<1>1. PICK m : PlacedInv(m)
  BY DEF BuilderInv
<1>2. Members = m
  BY <1>1, MembersAre
<1>3. components \in [Cycles -> Seq(Component)] /\ m \in [Cycles -> SUBSET Labels] /\ NoCycle \in Cycles
  BY <1>1 DEF BuilderInv, BuilderTypes, PlacedInv, Ordered, IsMembers, Cycles
<1>4. \A l \in Labels : ~Building(l)
  <2>1. Len(visitStack) = 0
    BY DEF WtoDone
  <2> QED
    BY <2>1 DEF Building, Tasks
<1>5. \A x : LabelsIn(x) = LabelsAt(m, x)
  BY <1>2 DEF LabelsIn, LabelsAt
<1>6. ASSUME NEW c \in Cycles
      PROVE  IsPartition(c) /\ IsOrdered(c)
  <2>1. PICK n : n = Len(components[c])
    OBVIOUS
  <2>2. PICK K : K = InOrder(c)
    OBVIOUS
  <2>3. /\ n \in Nat /\ DOMAIN K = 1 .. n
        /\ \A i \in 1 .. n : (n + 1) - i \in 1 .. n /\ K[i] = components[c][(n + 1) - i]
    BY <1>3, <2>1, <2>2, ReadForward
  <2>4. \A i \in 1 .. n : components[c][i] = K[(n + 1) - i]
    <3> SUFFICES ASSUME NEW i \in 1 .. n
                 PROVE  components[c][i] = K[(n + 1) - i]
      OBVIOUS
    <3>1. (n + 1) - ((n + 1) - i) = i /\ (n + 1) - i \in 1 .. n
      BY <2>3
    <3> QED
      BY <2>3, <3>1
  <2>5. PartInv(children, components, m, c) /\ IsMembers(components, m)
    BY <1>1 DEF PlacedInv, Ordered
  <2>6. m[c] = UNION {LabelsAt(m, K[i]) : i \in 1 .. n}
    <3>1. \A l \in Labels : l \in m[c] <=> \E i \in 1 .. n : l \in LabelsAt(m, K[i])
      <4>1. \A l \in Labels : l \in m[c] <=> \E i \in 1 .. n : l \in LabelsAt(m, components[c][i])
        BY <2>1, <2>5 DEF IsMembers
      <4> QED
        BY <2>3, <2>4, <4>1
    <3>2. \A i \in 1 .. n : LabelsAt(m, K[i]) \subseteq Labels
      <4> SUFFICES ASSUME NEW i \in 1 .. n
                   PROVE  LabelsAt(m, K[i]) \subseteq Labels
        OBVIOUS
      <4>1. K[i].label \in Labels
        BY <1>1, <2>1, <2>3, PlacedFacts
      <4>2. K[i].label \in Cycles
        BY <4>1 DEF Cycles
      <4> QED
        BY <1>3, <4>1, <4>2 DEF LabelsAt
    <3>3. m[c] \subseteq Labels
      BY <1>3
    <3> QED
      BY <3>1, <3>2, <3>3
  <2>7. \A i, j \in 1 .. n : i # j => LabelsAt(m, K[i]) \cap LabelsAt(m, K[j]) = {}
    <3> SUFFICES ASSUME NEW i \in 1 .. n, NEW j \in 1 .. n, i # j
                 PROVE  LabelsAt(m, K[i]) \cap LabelsAt(m, K[j]) = {}
      OBVIOUS
    <3>1. PICK a \in 1 .. n : a = (n + 1) - i /\ K[i] = components[c][a]
      BY <2>3
    <3>2. PICK b \in 1 .. n : b = (n + 1) - j /\ K[j] = components[c][b]
      BY <2>3
    <3>3. a # b
      BY <2>3, <3>1, <3>2
    <3>4. LabelsAt(m, components[c][a]) \cap LabelsAt(m, components[c][b]) = {}
      BY <2>1, <2>5, <3>3 DEF PartInv
    <3> QED
      BY <3>1, <3>2, <3>4
  <2>8. \A i \in 1 .. n : K[i].cycle => K[i].label # c /\ K[i].label \in m[K[i].label]
    BY <2>1, <2>3, <2>5 DEF PartInv
  <2>9. c \in m[c] => \E i \in 1 .. n : K[i] = [label |-> c, cycle |-> FALSE]
    <3> SUFFICES ASSUME c \in m[c]
                 PROVE  \E i \in 1 .. n : K[i] = [label |-> c, cycle |-> FALSE]
      OBVIOUS
    <3>1. PICK a \in 1 .. n : components[c][a] = [label |-> c, cycle |-> FALSE]
      BY <2>1, <2>5 DEF PartInv
    <3>2. (n + 1) - a \in 1 .. n /\ components[c][a] = K[(n + 1) - a]
      BY <2>3, <2>4
    <3> QED
      BY <3>1, <3>2
  <2>10. \A i, j \in 1 .. n : \A p \in LabelsAt(m, K[i]), l \in LabelsAt(m, K[j]) :
           l \in children[p] /\ l # c => i < j \/ (i = j /\ K[i].cycle)
    <3> SUFFICES ASSUME NEW i \in 1 .. n, NEW j \in 1 .. n,
                        NEW p \in LabelsAt(m, K[i]), NEW l \in LabelsAt(m, K[j]),
                        l \in children[p], l # c
                 PROVE  i < j \/ (i = j /\ K[i].cycle)
      OBVIOUS
    <3>1. PICK a \in 1 .. n : a = (n + 1) - i /\ K[i] = components[c][a]
      BY <2>3
    <3>2. PICK b \in 1 .. n : b = (n + 1) - j /\ K[j] = components[c][b]
      BY <2>3
    <3>3. b < a \/ (a = b /\ components[c][a].cycle)
      BY <2>1, <2>5, <3>1, <3>2 DEF PartInv
    <3> QED
      BY <2>3, <3>1, <3>2, <3>3
  <2>11. IsPartition(c)
    <3>1. Members[c] = UNION {LabelsIn(K[i]) : i \in DOMAIN K}
      <4>1. \A i \in 1 .. n : LabelsIn(K[i]) = LabelsAt(m, K[i])
        BY <1>5
      <4>2. {LabelsIn(K[i]) : i \in 1 .. n} = {LabelsAt(m, K[i]) : i \in 1 .. n}
        BY <4>1
      <4> QED
        BY <1>2, <2>3, <2>6, <4>2
    <3>2. \A i, j \in DOMAIN K : i # j => LabelsIn(K[i]) \cap LabelsIn(K[j]) = {}
      BY <1>5, <2>3, <2>7
    <3>3. \A i \in DOMAIN K : K[i].cycle => K[i].label # c /\ K[i].label \in Members[K[i].label]
      BY <1>2, <2>3, <2>8
    <3>4. c \in Members[c] => \E i \in DOMAIN K : K[i] = [label |-> c, cycle |-> FALSE]
      BY <1>2, <2>3, <2>9
    <3> QED
      BY <2>2, <3>1, <3>2, <3>3, <3>4 DEF IsPartition
  <2>12. IsOrdered(c)
    BY <1>5, <2>2, <2>3, <2>10 DEF IsOrdered
  <2> QED
    BY <2>11, <2>12
<1>7. \A l \in m[NoCycle] : children[l] \subseteq m[NoCycle]
  <2> SUFFICES ASSUME NEW l \in m[NoCycle], NEW k \in children[l]
               PROVE  k \in m[NoCycle]
    OBVIOUS
  <2>1. l \in Labels /\ k \in Labels
    BY <1>3, GraphFacts DEF BuilderInv
  <2>2. dfn[k] = DFN_INF
    BY <1>1, <1>3 DEF PlacedInv
  <2>3. \E c \in Cycles : IsOpen(c) /\ k \in m[c]
    BY <1>1, <1>4, <2>1, <2>2 DEF PlacedInv
  <2> QED
    BY <1>4, <2>3 DEF IsOpen, Cycles
<1>8. /\ components[NoCycle] # <<>>
      /\ components[NoCycle][Len(components[NoCycle])] = [label |-> EntryLabel, cycle |-> FALSE]
  BY DEF BuilderInv, EntryFirst, WtoDone
<1>9. InOrder(NoCycle)[1] = [label |-> EntryLabel, cycle |-> FALSE]
  <2>1. PICK n : n = Len(components[NoCycle])
    OBVIOUS
  <2>2. components[NoCycle] \in Seq(Component)
    BY <1>3
  <2>3. n \in Nat /\ n # 0
    BY <1>8, <2>1, <2>2
  <2>4. 1 \in 1 .. n /\ (n + 1) - 1 = n
    BY <2>3
  <2>5. InOrder(NoCycle)[1] = components[NoCycle][(n + 1) - 1]
    BY <1>3, <2>1, <2>4, ReadForward
  <2> QED
    BY <1>8, <2>1, <2>4, <2>5
<1> QED
  BY <1>2, <1>3, <1>6, <1>7, <1>8, <1>9

LEMMA PopIsSafe ==
  ASSUME BuilderInv
  PROVE  PopsTheVisitedVertex
<1> SUFFICES ASSUME visitStack # <<>>, Top.type = "StartVisit"
             PROVE  /\ Top.vertex \in ToSet(stack)
                    /\ (IsHeadDfn(Top.vertex, dfn[Top.vertex]) /\ ~IsLoop(Top.vertex)) =>
                         stack[Len(stack)] = Top.vertex
  BY DEF PopsTheVisitedVertex, WtoDone
<1>1. Top \in Task
  BY TopTask DEF BuilderInv, Top
<1>2. PICK v \in Labels : v = Top.vertex
  BY <1>1, TaskFacts
<1>3. Numbered(v)
  BY <1>2, StartOnTop DEF Pending
<1>4. stack \in Seq(Labels) /\ DOMAIN stack = 1 .. Len(stack)
  BY DEF BuilderInv, NumberTypes
<1>5. v \in ToSet(stack)
  BY <1>3, <1>4 DEF BuilderInv, StackInv, ToSet
<1>6. ~IsLoop(v) => stack[Len(stack)] = v
  BY <1>2, <1>3, VertexOnTop, TopOfStack DEF BuilderInv
<1> QED
  BY <1>2, <1>5, <1>6

(***************************************************************************)
(* The results.                                                            *)
(***************************************************************************)

(* In every state of WtoBuilder its numbers, stacks and partitions fit     *)
(* together: the inductive invariant of the construction.                  *)
THEOREM BuilderInvariance == WtoSpec => []BuilderInv
<1>1. WtoInit => BuilderInv
  BY BuilderInvInit
<1>2. BuilderInv /\ [WtoNext]_wtoVars => BuilderInv'
  BY BuilderInvStep, BuilderInvStutter DEF WtoNext
<1> QED
  BY <1>1, <1>2, PTL DEF WtoSpec

(* The partitions WtoBuilder has built when its stack is empty are a weak  *)
(* topological ordering of the labels, for every control-flow graph: the   *)
(* order in which the fixpoint iterator visits them misses no edge but     *)
(* those back to the head of a cycle around their source.                  *)
THEOREM WtoIsOrdered == WtoSpec => []PartitionsAreOrdered
<1>1. BuilderInv => PartitionsAreOrdered
  BY FinishedIsOrdered
<1> QED
  BY <1>1, BuilderInvariance, PTL

(* When start_visit finds no loop the entry of _stack that it pops without *)
(* looking is the vertex it visits, and when it finds one the vertex is on *)
(* _stack, so the popping loop ends before the stack is empty.             *)
THEOREM VisitPopsItsVertex == WtoSpec => []PopsTheVisitedVertex
<1>1. BuilderInv => PopsTheVisitedVertex
  BY PopIsSafe
<1> QED
  BY <1>1, BuilderInvariance, PTL


(* Every variable of WtoBuilder stays in its range; _num stays below the   *)
(* sentinel that marks closed labels.                                      *)
THEOREM WtoTypes == WtoSpec => []WtoTypeOK
<1> DEFINE PointerTypes == /\ parentCycle \in [Labels -> Cycles]
                           /\ containing \in [Labels -> Cycles \cup {Absent}]
<1>1. WtoInit => PointerTypes
  BY DEF WtoInit, Cycles
<1>2. BuilderInv /\ PointerTypes /\ [WtoNext]_wtoVars => PointerTypes'
  <2> SUFFICES ASSUME BuilderInv, PointerTypes, BuildStep
               PROVE  PointerTypes'
    BY DEF WtoNext, wtoVars, builderVars
  <2>1. PICK v \in Labels : PushSuccessors(v) \/ StartVisit(v) \/ ContinueVisit(v)
    BY DEF BuildStep
  <2>2. visitStack # <<>>
    BY <2>1 DEF PushSuccessors, StartVisit, ContinueVisit
  <2>3. Top.partition \in Cycles /\ v \in Cycles
    BY <2>2, OpenPartition DEF Cycles
  <2>4. CASE PushSuccessors(v)
    BY <2>4 DEF PushSuccessors
  <2>5. CASE StartVisit(v)
    <3>1. CASE StartVisitInner(v)
      BY <3>1 DEF StartVisitInner
    <3>2. CASE StartVisitVertex(v)
      BY <2>3, <3>2 DEF StartVisitVertex, Emplace
    <3>3. CASE StartVisitCycle(v)
      BY <2>3, <3>3 DEF StartVisitCycle
    <3> QED
      BY <2>5, <3>1, <3>2, <3>3 DEF StartVisit
  <2>6. CASE ContinueVisit(v)
    BY <2>3, <2>6 DEF ContinueVisit, Emplace
  <2> QED
    BY <2>1, <2>4, <2>5, <2>6
<1>3. BuilderInv /\ PointerTypes => WtoTypeOK
  BY CfgAssumption DEF BuilderInv, BuilderTypes, NumberTypes, WtoTypeOK
<1> QED
  BY <1>1, <1>2, <1>3, BuilderInvariance, PTL DEF WtoSpec

-----------------------------------------------------------------------------
(***************************************************************************)
(* The labels of the finished Wto are those the entry reaches.             *)
(***************************************************************************)
ReachedLabels == ReachableFrom({EntryLabel}, Labels)

(* The finished Wto holds exactly the labels the entry reaches: no label   *)
(* is left out of the analysis and none is added.                          *)
ReachedArePlaced == WtoDone => Members[NoCycle] = ReachedLabels

(* Only reached labels are numbered or wait for their number. *)
ReachInv ==
  /\ \A l \in Labels : dfn[l] # 0 => l \in ReachedLabels
  /\ \A i \in Tasks : IsPush(i) => visitStack[i].todo \subseteq ReachedLabels

LEMMA ReachedFacts ==
  ASSUME BuilderTypes
  PROVE  /\ ReachedLabels \subseteq Labels
         /\ EntryLabel \in ReachedLabels
         /\ \A l \in ReachedLabels : children[l] \subseteq ReachedLabels
         /\ \A C \in SUBSET Labels :
              EntryLabel \in C /\ (\A u \in C : children[u] \subseteq C) => ReachedLabels \subseteq C
<1>1. \A l \in Labels : children[l] \in SUBSET Labels
  BY GraphFacts
<1>2. EntryLabel \in Labels
  BY LabelsAssumption
<1>3. ReachedLabels \subseteq Labels /\ EntryLabel \in ReachedLabels
  BY <1>2 DEF ReachedLabels, ReachableFrom
<1>4. ASSUME NEW C \in SUBSET Labels, EntryLabel \in C, \A u \in C : children[u] \subseteq C
      PROVE  ReachedLabels \subseteq C
  BY <1>4 DEF ReachedLabels, ReachableFrom
<1>5. ASSUME NEW l \in ReachedLabels, NEW k \in children[l]
      PROVE  k \in ReachedLabels
  <2>1. k \in Labels
    BY <1>1, <1>3, <1>5
  <2>2. ASSUME NEW C \in SUBSET Labels, {EntryLabel} \subseteq C,
               \A u \in C : children[u] \cap Labels \subseteq C
        PROVE  k \in C
    <3>1. l \in C
      BY <1>5, <2>2 DEF ReachedLabels, ReachableFrom
    <3> QED
      BY <1>5, <2>1, <2>2, <3>1
  <2> QED
    BY <2>1, <2>2 DEF ReachedLabels, ReachableFrom
<1> QED
  BY <1>3, <1>4, <1>5


LEMMA ReachInvStep ==
  ASSUME BuilderInv, ReachInv, BuildStep
  PROVE  ReachInv'
<1>1. PICK v \in Labels : PushSuccessors(v) \/ StartVisit(v) \/ ContinueVisit(v)
  BY DEF BuildStep
<1>2. visitStack # <<>> /\ children' = children
  BY <1>1 DEF PushSuccessors, StartVisit, ContinueVisit
<1>3. ReachedLabels' = ReachedLabels
  BY <1>2 DEF ReachedLabels, ReachableFrom
<1>4. PICK R : R = ReachedLabels
  OBVIOUS
<1>5. /\ \A l \in R : children[l] \subseteq R
      /\ \A l \in Labels : dfn[l] # 0 => l \in R
      /\ \A i \in Tasks : IsPush(i) => visitStack[i].todo \subseteq R
  BY <1>4, ReachedFacts DEF BuilderInv, ReachInv
<1> SUFFICES /\ \A l \in Labels : dfn'[l] # 0 => l \in R
             /\ \A i \in Tasks' : IsPush(i)' => visitStack'[i].todo \subseteq R
  BY <1>3, <1>4 DEF ReachInv
<1>6. PICK L : L = Len(visitStack)
  OBVIOUS
<1>7. CASE PushSuccessors(v) /\ dfn[v] # 0
  <2>1. /\ Top.type = "PushSuccessors" /\ v \in Top.todo /\ visitStack' = PopSuccessor(v) /\ dfn' = dfn
    BY <1>7 DEF PushSuccessors
  <2>2. PICK w : w = PopSuccessor(v)
    OBVIOUS
  <2>3. Len(w) \in Nat /\ L \in Nat /\ Len(w) <= L
    <3>1. Len(w) \in Nat /\ L \in Nat /\ (Len(w) = L - 1 \/ Len(w) = L)
      BY <1>2, <1>6, <2>1, <2>2, PopSuccessorFacts
    <3> QED
      BY <3>1
  <2>4. Len(visitStack') \in Nat /\ Len(w) <= Len(visitStack') /\ \A i \in 1 .. Len(w) : visitStack'[i] = w[i]
    BY <2>1, <2>2, <2>3
  <2>5. \A i \in Tasks : i <= Len(w) =>
          /\ IsPush(i)' <=> IsPush(i)
          /\ IsPush(i) => visitStack'[i].todo \subseteq visitStack[i].todo
    BY <1>2, <1>6, <2>1, <2>2, <2>4, KeptTasks
  <2>6. \A i \in Tasks' : i \in Tasks /\ i <= Len(w)
    BY <1>6, <2>1, <2>2, <2>3 DEF Tasks
  <2> QED
    BY <1>5, <2>1, <2>5, <2>6
<1>8. CASE PushSuccessors(v) /\ dfn[v] = 0
  <2>0. /\ Top.type = "PushSuccessors" /\ v \in Top.todo
        /\ num + 1 < DFN_INF /\ num' = num + 1 /\ dfn' = [dfn EXCEPT ![v] = num + 1] /\ headDfn' = headDfn
    BY <1>8 DEF PushSuccessors, NextNumber
  <2>1. PICK S \in SUBSET Labels :
          /\ \A z : z \in S <=> z \in children[v] /\ dfn'[z] = 0
          /\ visitStack' =
               PushTasks(Append(PopSuccessor(v), VisitTask("StartVisit", v, Top.partition)),
                         S, Top.partition)
    BY <1>8, NewPushed
  <2>2. PICK k \in Nat : NewTop(L, k, v, S)
    BY <1>2, <1>6, <2>0, <2>1, NewTasks
  <2>3. v \in R
    <3>1. L \in Tasks /\ IsPush(L) /\ visitStack[L] = Top
      BY <1>2, <1>6, <2>0, TopTask DEF BuilderInv, IsPush, Top
    <3> QED
      BY <1>5, <2>0, <3>1
  <2>4. S \subseteq R
    BY <1>5, <2>1, <2>3
  <2>5. \A l \in Labels : dfn'[l] # 0 => l \in R
    <3>1. \A l \in Labels : l # v => dfn'[l] = dfn[l]
      BY <1>8, <2>0, NewNumber DEF NumberAdded
    <3> QED
      BY <1>5, <2>3, <3>1
  <2>6. ASSUME NEW i \in Tasks', IsPush(i)'
        PROVE  visitStack'[i].todo \subseteq R
    <3>1. CASE i \in Tasks /\ i <= k
      <4>1. IsPush(i) /\ visitStack'[i].todo \subseteq visitStack[i].todo
        BY <2>2, <2>6, <3>1 DEF NewTop
      <4> QED
        BY <1>5, <3>1, <4>1
    <3>2. CASE visitStack'[i].todo = S
      BY <2>4, <3>2
    <3> QED
      BY <2>2, <2>6, <3>1, <3>2 DEF NewTop
  <2> QED
    BY <2>5, <2>6
<1>9. CASE StartVisit(v) /\ ~StartVisitCycle(v)
  <2>1. StartVisitInner(v) \/ StartVisitVertex(v)
    BY <1>9 DEF StartVisit
  <2>2. visitStack' = Below
    BY <2>1 DEF StartVisitInner, StartVisitVertex
  <2>3. v = Top.vertex /\ Top.type = "StartVisit"
    BY <1>9 DEF StartVisit
  <2>4. dfn[v] # 0
    BY <1>2, <2>3, StartOnTop DEF Pending, Numbered
  <2>5. \A l \in Labels : dfn'[l] # 0 => dfn[l] # 0
    BY <2>1, <2>4 DEF StartVisitInner, StartVisitVertex, BuilderInv, NumberTypes
  <2>6. /\ \A i \in Tasks' : i \in Tasks /\ visitStack'[i] = visitStack[i]
        /\ \A i \in Tasks' : IsPush(i)' <=> IsPush(i)
    BY <1>2, <2>2, VisitPopTasks DEF BuilderInv
  <2> QED
    BY <1>5, <2>5, <2>6
<1>10. CASE StartVisit(v) /\ StartVisitCycle(v)
  <2>1. v = Top.vertex /\ Top.type = "StartVisit" /\ UNCHANGED <<children, num>>
    BY <1>10 DEF StartVisit
  <2>2. PICK S \in SUBSET Labels :
          /\ \A z : z \in S <=> z \in children[v] /\ dfn'[z] = 0
          /\ visitStack' = PushTasks(Append(Below, VisitTask("ContinueVisit", v, Top.partition)), S, v)
    BY <1>2, <1>10, <2>1, CyclePushed
  <2>3. dfn[v] # 0
    BY <1>2, <2>1, StartOnTop DEF Pending, Numbered
  <2>4. \A l \in Labels : dfn'[l] # 0 => dfn[l] # 0
    <3>1. \A l \in Labels : dfn[l] = 0 => dfn'[l] = 0
      BY <1>2, <1>10, <2>1, CycleNumbers
    <3> QED
      BY <3>1
  <2>5. S \subseteq R
    BY <1>5, <2>2, <2>3
  <2>6. /\ \A i \in Tasks : i < L => visitStack'[i] = visitStack[i] /\ (IsPush(i)' <=> IsPush(i))
        /\ ~IsPush(L)'
        /\ \A i \in Tasks' : \/ i \in Tasks /\ i < L
                             \/ i = L
                             \/ visitStack'[i].todo = S
    BY <1>2, <1>6, <2>2, CycleTasks
  <2>7. ASSUME NEW i \in Tasks', IsPush(i)'
        PROVE  visitStack'[i].todo \subseteq R
    <3>1. CASE i \in Tasks /\ i < L
      BY <1>5, <2>6, <2>7, <3>1
    <3>2. CASE visitStack'[i].todo = S
      BY <2>5, <3>2
    <3> QED
      BY <2>6, <2>7, <3>1, <3>2
  <2> QED
    BY <1>5, <2>4, <2>7
<1>11. CASE ContinueVisit(v)
  <2>1. visitStack' = Below /\ dfn' = dfn
    BY <1>11 DEF ContinueVisit
  <2>2. /\ \A i \in Tasks' : i \in Tasks /\ visitStack'[i] = visitStack[i]
        /\ \A i \in Tasks' : IsPush(i)' <=> IsPush(i)
    BY <1>2, <2>1, VisitPopTasks DEF BuilderInv
  <2> QED
    BY <1>5, <2>1, <2>2
<1> QED
  BY <1>1, <1>7, <1>8, <1>9, <1>10, <1>11

LEMMA FinishedIsReached ==
  ASSUME BuilderInv, ReachInv
  PROVE  ReachedArePlaced
<1> SUFFICES ASSUME WtoDone
             PROVE  Members[NoCycle] = ReachedLabels
  BY DEF ReachedArePlaced
<1>1. PICK m : PlacedInv(m)
  BY DEF BuilderInv
<1>2. Members = m /\ m \in [Cycles -> SUBSET Labels] /\ NoCycle \in Cycles
  BY <1>1, MembersAre DEF PlacedInv, Ordered, IsMembers, Cycles
<1>3. m[NoCycle] \subseteq ReachedLabels
  <2> SUFFICES ASSUME NEW l \in m[NoCycle]
               PROVE  l \in ReachedLabels
    OBVIOUS
  <2>1. l \in Labels /\ dfn[l] = DFN_INF /\ DFN_INF # 0
    BY <1>1, <1>2, DfnAssumption DEF PlacedInv
  <2> QED
    BY <2>1 DEF ReachInv
<1>4. \A l \in m[NoCycle] : children[l] \subseteq m[NoCycle]
  BY <1>2, FinishedIsOrdered DEF PartitionsAreOrdered
<1>5. EntryLabel \in m[NoCycle]
  <2>1. PICK n : n = Len(components[NoCycle])
    OBVIOUS
  <2>2. components[NoCycle] \in Seq(Component) /\ components[NoCycle] # <<>>
    BY <1>2 DEF BuilderInv, BuilderTypes, EntryFirst, WtoDone
  <2>3. n \in 1 .. n
    BY <2>1, <2>2
  <2>4. components[NoCycle][n] = [label |-> EntryLabel, cycle |-> FALSE]
    BY <2>1 DEF BuilderInv, EntryFirst, WtoDone
  <2>5. EntryLabel \in LabelsAt(m, components[NoCycle][n])
    BY <2>4 DEF LabelsAt
  <2> QED
    BY <1>1, <1>2, <2>1, <2>3, <2>5, LabelsAssumption DEF PlacedInv, Ordered, IsMembers
<1>6. ReachedLabels \subseteq m[NoCycle]
  BY <1>2, <1>4, <1>5, ReachedFacts DEF BuilderInv
<1> QED
  BY <1>2, <1>3, <1>6

(* The finished Wto holds every label the entry reaches and no other, for  *)
(* every control-flow graph: the labels that start_visit unnumbers when it *)
(* finds a cycle are all visited again and placed.                         *)
THEOREM WtoIsComplete == WtoSpec => []ReachedArePlaced
<1>1. WtoInit => ReachInv
  <2> SUFFICES ASSUME WtoInit PROVE ReachInv
    OBVIOUS
  <2>1. BuilderInv
    BY BuilderInvInit
  <2>2. /\ \A l \in Labels : dfn[l] = 0
        /\ visitStack # <<>> /\ visitStack = PushTasks(<<>>, {EntryLabel}, NoCycle)
    BY DEF WtoInit, PushTasks
  <2>3. IsPush(1)
    BY <2>2 DEF PushTasks, IsPush
  <2>4. Len(visitStack) = 1 /\ visitStack[1].todo = {EntryLabel}
    BY <2>1, <2>2, <2>3 DEF BuilderInv, EntryFirst
  <2>5. EntryLabel \in ReachedLabels
    BY <2>1, ReachedFacts DEF BuilderInv
  <2>6. \A i \in Tasks : i = 1
    BY <2>4 DEF Tasks
  <2> QED
    BY <2>2, <2>4, <2>5, <2>6 DEF ReachInv
<1>2. BuilderInv /\ ReachInv /\ [WtoNext]_wtoVars => ReachInv'
  <2>1. ASSUME ReachInv, UNCHANGED wtoVars PROVE ReachInv'
    BY <2>1 DEF ReachInv, ReachedLabels, ReachableFrom, Tasks, IsPush, wtoVars, builderVars
  <2> QED
    BY <2>1, ReachInvStep DEF WtoNext
<1>3. BuilderInv /\ ReachInv => ReachedArePlaced
  BY FinishedIsReached
<1> QED
  BY <1>1, <1>2, <1>3, BuilderInvariance, PTL DEF WtoSpec

-----------------------------------------------------------------------------
(***************************************************************************)
(* The flattened order.                                                    *)
(***************************************************************************)

(* What the components of c stand for when f gives that of the cycles. *)
Pieces(f, c) ==
  [i \in 1 .. Len(components[c]) |->
     IF InOrder(c)[i].cycle THEN f[InOrder(c)[i].label] ELSE <<InOrder(c)[i].label>>]

FlatAt(f, c) == FlattenSeq(Pieces(f, c))

(* f solves the equation of Flat. *)
IsFlat(f) == f = [c \in Cycles |-> FlatAt(f, c)]

(* What holds of a cycle whenever it holds of all that may lie inside it,  *)
(* the ones with greater numbers, holds of every cycle.                    *)
LEMMA InnerFirst ==
  ASSUME BuilderInv, NEW S,
         \A c \in Cycles :
           (\A h \in Labels : c = NoCycle \/ headDfn[c] < headDfn[h] => h \in S) => c \in S
  PROVE  Cycles \subseteq S
<1> DEFINE T == {DFN_INF - headDfn[h] : h \in {g \in Labels : g \notin S}}
<1>1. \A h \in Labels : headDfn[h] \in Nat /\ headDfn[h] <= DFN_INF /\ DFN_INF \in Nat
  BY DfnAssumption DEF BuilderInv, NumberTypes
<1>2. T = {}
  <2> SUFFICES ASSUME T # {} PROVE FALSE
    OBVIOUS
  <2>1. T \subseteq Nat
    BY <1>1
  <2>2. PICK n \in T : \A k \in T : n <= k
    <3> HIDE DEF T
    <3> QED BY <2>1, LeastNatural
  <2>3. PICK c \in Labels : c \notin S /\ n = DFN_INF - headDfn[c]
    BY <2>2
  <2>4. c \in Cycles /\ c # NoCycle
    BY SentinelAssumption DEF Cycles
  <2>5. \A h \in Labels : headDfn[c] < headDfn[h] => h \in S
    <3> SUFFICES ASSUME NEW h \in Labels, h \notin S
                 PROVE  ~(headDfn[c] < headDfn[h])
      OBVIOUS
    <3>1. DFN_INF - headDfn[h] \in T
      OBVIOUS
    <3>2. DFN_INF - headDfn[c] <= DFN_INF - headDfn[h]
      BY <2>2, <2>3, <3>1
    <3> QED
      BY <1>1, <3>2
  <2> QED
    BY <2>3, <2>4, <2>5
<1>3. Labels \subseteq S
  BY <1>2
<1> QED
  BY <1>3 DEF Cycles

LEMMA PiecesAt ==
  ASSUME BuilderInv, NEW c \in Cycles, NEW i \in 1 .. Len(components[c])
  PROVE  /\ InOrder(c)[i].label \in Labels
         /\ InOrder(c)[i].cycle => c = NoCycle \/ headDfn[c] < headDfn[InOrder(c)[i].label]
<1>0. PICK n : n = Len(components[c])
  OBVIOUS
<1>1. components \in [Cycles -> Seq(Component)]
  BY DEF BuilderInv, BuilderTypes
<1>2. PICK j \in 1 .. n : InOrder(c)[i] = components[c][j]
  BY <1>0, <1>1, ReadForward
<1>3. PICK m : PlacedInv(m)
  BY DEF BuilderInv
<1>4. components[c][j].label \in Labels
  BY <1>0, <1>3, PlacedFacts
<1> QED
  BY <1>0, <1>2, <1>3, <1>4 DEF PlacedInv

LEMMA FlatDepends ==
  ASSUME BuilderInv, NEW c \in Cycles, NEW f, NEW g,
         \A h \in Labels : c = NoCycle \/ headDfn[c] < headDfn[h] => f[h] = g[h]
  PROVE  FlatAt(f, c) = FlatAt(g, c)
<1>1. \A i \in 1 .. Len(components[c]) : InOrder(c)[i].cycle => f[InOrder(c)[i].label] = g[InOrder(c)[i].label]
  BY PiecesAt
<1>2. Pieces(f, c) = Pieces(g, c)
  BY <1>1 DEF Pieces
<1> QED
  BY <1>2 DEF FlatAt

LEMMA FlatExists ==
  ASSUME BuilderInv
  PROVE  \E f : IsFlat(f)
<1> DEFINE Solves(f, h) == f[h] = FlatAt(f, h)
           Upto(f, n) == /\ f = [c \in Cycles |-> f[c]]
                         /\ \A h \in Labels : DFN_INF - headDfn[h] < n => Solves(f, h)
           T == {n \in Nat : \E f : Upto(f, n)}
<1>0. \A h \in Labels : headDfn[h] \in Nat /\ headDfn[h] <= DFN_INF /\ DFN_INF \in Nat
  BY DfnAssumption DEF BuilderInv, NumberTypes
<1>a. NoCycle \in Cycles /\ NoCycle \notin Labels /\ Labels \subseteq Cycles /\ DFN_INF \in Nat
  BY SentinelAssumption, DfnAssumption DEF Cycles
<1>1. 0 \in T
  <2> DEFINE f == [c \in Cycles |-> <<>>]
  <2>1. \A h \in Labels : ~(DFN_INF - headDfn[h] < 0)
    BY <1>0
  <2>2. f = [c \in Cycles |-> f[c]]
    OBVIOUS
  <2> HIDE DEF f, Solves
  <2>3. Upto(f, 0)
    BY <2>1, <2>2
  <2> QED
    BY <2>3
<1>2. ASSUME NEW n \in T
      PROVE  n + 1 \in T
  <2>1. PICK f : Upto(f, n)
    OBVIOUS
  <2>2. n \in Nat /\ n + 1 \in Nat
    OBVIOUS
  <2> DEFINE g == [c \in Cycles |-> IF c # NoCycle /\ DFN_INF - headDfn[c] = n THEN FlatAt(f, c) ELSE f[c]]
  <2>3. \A h \in Labels : g[h] = IF DFN_INF - headDfn[h] = n THEN FlatAt(f, h) ELSE f[h]
    BY <1>a
  <2>4. g = [c \in Cycles |-> g[c]]
    OBVIOUS
  <2> HIDE DEF g
  <2>5. ASSUME NEW h \in Labels, DFN_INF - headDfn[h] < n + 1
        PROVE  g[h] = FlatAt(g, h)
    <3>1. h # NoCycle /\ h \in Cycles
      BY <1>a
    <3>2. \A k \in Labels : h = NoCycle \/ headDfn[h] < headDfn[k] => f[k] = g[k]
      <4> SUFFICES ASSUME NEW k \in Labels, headDfn[h] < headDfn[k]
                   PROVE  f[k] = g[k]
        BY <3>1
      <4>1. DFN_INF - headDfn[k] # n
        BY <1>0, <2>2, <2>5
      <4> QED
        BY <2>3, <4>1
    <3>3. FlatAt(f, h) = FlatAt(g, h)
      BY <3>1, <3>2, FlatDepends
    <3>4. CASE DFN_INF - headDfn[h] = n
      BY <2>3, <3>3, <3>4
    <3>5. CASE DFN_INF - headDfn[h] # n
      <4>1. DFN_INF - headDfn[h] < n
        BY <1>0, <2>2, <2>5, <3>5
      <4>2. f[h] = FlatAt(f, h)
        BY <2>1, <4>1
      <4> QED
        BY <2>3, <3>3, <3>5, <4>2
    <3> QED
      BY <3>4, <3>5
  <2>6. Upto(g, n + 1)
    BY <2>4, <2>5
  <2> QED
    BY <2>2, <2>6
<1>3. T = Nat
  <2>1. T \subseteq Nat
    OBVIOUS
  <2> HIDE DEF T
  <2> QED
    BY <1>1, <1>2, <2>1, SetInduction
<1>4. PICK f : Upto(f, DFN_INF + 1)
  <2>1. DFN_INF + 1 \in Nat
    BY <1>a
  <2> HIDE DEF Upto
  <2> QED
    BY <1>3, <2>1
<1>5. \A h \in Labels : f[h] = FlatAt(f, h)
  <2>1. \A h \in Labels : DFN_INF - headDfn[h] < DFN_INF + 1
    BY <1>0, <1>a
  <2> QED
    BY <1>4, <2>1
<1> DEFINE g == [c \in Cycles |-> IF c = NoCycle THEN FlatAt(f, c) ELSE f[c]]
<1>6. \A h \in Labels : g[h] = f[h]
  BY <1>a
<1>7. \A c \in Cycles : FlatAt(f, c) = FlatAt(g, c)
  <2> HIDE DEF g
  <2> QED
    BY <1>6, FlatDepends
<1>8. \A c \in Cycles : g[c] = FlatAt(g, c)
  <2>1. \A c \in Cycles : g[c] = FlatAt(f, c)
    BY <1>5 DEF Cycles
  <2> HIDE DEF g
  <2> QED
    BY <1>7, <2>1
<1>9. g = [c \in Cycles |-> g[c]]
  OBVIOUS
<1> HIDE DEF g
<1> QED
  BY <1>8, <1>9 DEF IsFlat

LEMMA FlatIs ==
  ASSUME BuilderInv
  PROVE  \E f : IsFlat(f) /\ Flat = f[NoCycle]
<1> DEFINE F == CHOOSE f : IsFlat(f)
<1>1. IsFlat(F)
  BY FlatExists
<1>2. Flat = F[NoCycle]
  BY DEF Flat, IsFlat, FlatAt, Pieces
<1> QED
  BY <1>1, <1>2

(* The flattened order of a cycle lists its members, each once. *)
LEMMA FlatLists ==
  ASSUME BuilderInv, NEW m, PlacedInv(m), NEW f, IsFlat(f), NEW c \in Cycles
  PROVE  f[c] \in Seq(Labels) /\ ToSet(f[c]) = m[c] /\ IsInjective(f[c])
<1> DEFINE Lists(b) == f[b] \in Seq(Labels) /\ ToSet(f[b]) = m[b] /\ IsInjective(f[b])
           S == {b \in Cycles : Lists(b)}
<1>0. components \in [Cycles -> Seq(Component)] /\ m \in [Cycles -> SUBSET Labels]
  BY DEF BuilderInv, BuilderTypes, PlacedInv, Ordered, IsMembers
<1>1. ASSUME NEW b \in Cycles,
             \A h \in Labels : b = NoCycle \/ headDfn[b] < headDfn[h] => Lists(h)
      PROVE  Lists(b)
  <2>1. PICK n : n = Len(components[b])
    OBVIOUS
  <2>2. PICK K : K = InOrder(b)
    OBVIOUS
  <2>3. /\ n \in Nat
        /\ \A i \in 1 .. n : (n + 1) - i \in 1 .. n /\ K[i] = components[b][(n + 1) - i]
    BY <1>0, <2>1, <2>2, ReadForward
  <2>4. PICK P : P = Pieces(f, b)
    OBVIOUS
  <2>5. P = [i \in 1 .. n |-> IF K[i].cycle THEN f[K[i].label] ELSE <<K[i].label>>]
    BY <2>1, <2>2, <2>4 DEF Pieces
  <2>6. f[b] = FlattenSeq(P)
    BY <2>4 DEF IsFlat, FlatAt
  <2>7. ASSUME NEW i \in 1 .. n
        PROVE  P[i] \in Seq(Labels) /\ ToSet(P[i]) = LabelsAt(m, K[i]) /\ IsInjective(P[i])
    <3>1. K[i].label \in Labels /\ (K[i].cycle => b = NoCycle \/ headDfn[b] < headDfn[K[i].label])
      BY <2>1, <2>2, PiecesAt
    <3>2. CASE K[i].cycle
      <4>1. Lists(K[i].label)
        BY <1>1, <3>1, <3>2
      <4>2. P[i] = f[K[i].label]
        BY <2>5, <3>2
      <4> QED
        BY <3>2, <4>1, <4>2 DEF LabelsAt
    <3>3. CASE ~K[i].cycle
      <4>1. PICK l \in Labels : l = K[i].label
        BY <3>1
      <4>2. P[i] = <<l>> /\ <<l>> \in Seq(Labels)
        BY <2>5, <3>3, <4>1
      <4>3. DOMAIN <<l>> = {1} /\ <<l>>[1] = l
        OBVIOUS
      <4>4. ToSet(<<l>>) = {l} /\ IsInjective(<<l>>)
        BY <4>3 DEF ToSet, IsInjective
      <4> QED
        BY <3>3, <4>1, <4>2, <4>4 DEF LabelsAt
    <3> QED
      BY <3>2, <3>3
  <2>8. P \in Seq(Seq(Labels)) /\ Len(P) = n
    <3>1. P = [i \in 1 .. n |-> P[i]] /\ DOMAIN P = 1 .. n
      BY <2>5
    <3>2. P \in [1 .. n -> Seq(Labels)]
      BY <2>7, <3>1
    <3> QED
      BY <2>3, <3>1, <3>2, SeqDef, LenProperties
  <2>9. \A i, j \in 1 .. n : i # j => ToSet(P[i]) \cap ToSet(P[j]) = {}
    <3> SUFFICES ASSUME NEW i \in 1 .. n, NEW j \in 1 .. n, i # j
                 PROVE  LabelsAt(m, K[i]) \cap LabelsAt(m, K[j]) = {}
      BY <2>7
    <3>1. PICK a \in 1 .. n : a = (n + 1) - i /\ K[i] = components[b][a]
      BY <2>3
    <3>2. PICK d \in 1 .. n : d = (n + 1) - j /\ K[j] = components[b][d]
      BY <2>3
    <3>3. a # d
      BY <2>3, <3>1, <3>2
    <3>4. PartInv(children, components, m, b)
      BY DEF PlacedInv, Ordered
    <3>5. LabelsAt(m, components[b][a]) \cap LabelsAt(m, components[b][d]) = {}
      BY <2>1, <3>3, <3>4 DEF PartInv
    <3> QED
      BY <3>1, <3>2, <3>5
  <2>10. /\ f[b] \in Seq(Labels)
         /\ \A x : x \in ToSet(f[b]) <=> \E i \in 1 .. n : x \in ToSet(P[i])
         /\ IsInjective(f[b])
    <3>1. /\ FlattenSeq(P) \in Seq(Labels)
          /\ \A x : x \in ToSet(FlattenSeq(P)) <=> \E i \in 1 .. Len(P) : x \in ToSet(P[i])
          /\ /\ \A i \in 1 .. Len(P) : IsInjective(P[i])
             /\ \A i, j \in 1 .. Len(P) : i # j => ToSet(P[i]) \cap ToSet(P[j]) = {}
             => IsInjective(FlattenSeq(P))
      BY <2>8, FlattenFacts, Zenon
    <3>2. \A i \in 1 .. n : IsInjective(P[i])
      BY <2>7
    <3>3. IsInjective(FlattenSeq(P))
      BY <2>8, <2>9, <3>1, <3>2, Zenon
    <3> QED
      BY <2>6, <2>8, <3>1, <3>3, Zenon
  <2>11. \A l \in Labels : l \in m[b] <=> l \in ToSet(f[b])
    <3> SUFFICES ASSUME NEW l \in Labels
                 PROVE  l \in m[b] <=> \E i \in 1 .. n : l \in LabelsAt(m, K[i])
      BY <2>7, <2>10
    <3>1. l \in m[b] <=> \E i \in 1 .. n : l \in LabelsAt(m, components[b][i])
      BY <2>1 DEF PlacedInv, Ordered, IsMembers
    <3>2. \A i \in 1 .. n : (n + 1) - i \in 1 .. n /\ K[(n + 1) - i] = components[b][i]
      <4> SUFFICES ASSUME NEW i \in 1 .. n
                   PROVE  (n + 1) - i \in 1 .. n /\ K[(n + 1) - i] = components[b][i]
        OBVIOUS
      <4>1. (n + 1) - i \in 1 .. n /\ (n + 1) - ((n + 1) - i) = i
        BY <2>3
      <4> QED
        BY <2>3, <4>1
    <3> QED
      BY <2>3, <3>1, <3>2
  <2>12. m[b] \subseteq Labels /\ ToSet(f[b]) \subseteq Labels
    <3>1. m[b] \subseteq Labels
      BY <1>0
    <3>2. \A i \in DOMAIN f[b] : f[b][i] \in Labels
      BY <2>10
    <3> QED
      BY <3>1, <3>2 DEF ToSet
  <2> QED
    BY <2>10, <2>11, <2>12
<1>2. Cycles \subseteq S
  <2>1. \A b \in Cycles :
          (\A h \in Labels : b = NoCycle \/ headDfn[b] < headDfn[h] => h \in S) => b \in S
    <3> HIDE DEF Lists
    <3> QED
      BY <1>1
  <2> HIDE DEF S
  <2> QED
    BY <2>1, InnerFirst
<1> QED
  BY <1>2

(* The finished Wto lists every label the entry reaches, once, and no      *)
(* other, for every control-flow graph: the labels that start_visit        *)
(* unnumbers when it finds a cycle are all visited again and placed in one *)
(* partition.                                                              *)
THEOREM WtoListsEachLabelOnce == WtoSpec => []EachReachableLabelOnce
<1>1. ASSUME BuilderInv, ReachedArePlaced
      PROVE  EachReachableLabelOnce
  <2> SUFFICES ASSUME WtoDone
               PROVE  IsInjective(Flat) /\ ToSet(Flat) = ReachedLabels
    BY DEF EachReachableLabelOnce, ReachedLabels
  <2>1. PICK m : PlacedInv(m)
    BY <1>1 DEF BuilderInv
  <2>2. PICK f : IsFlat(f) /\ Flat = f[NoCycle]
    BY <1>1, FlatIs
  <2>3. NoCycle \in Cycles
    BY DEF Cycles
  <2>4. ToSet(Flat) = m[NoCycle] /\ IsInjective(Flat)
    BY <1>1, <2>1, <2>2, <2>3, FlatLists
  <2>5. Members = m
    BY <1>1, <2>1, MembersAre
  <2> QED
    BY <1>1, <2>4, <2>5 DEF ReachedArePlaced
<1> QED
  BY <1>1, BuilderInvariance, WtoIsComplete, PTL

-----------------------------------------------------------------------------
(***************************************************************************)
(* The pointers of the Wto: containing and parentCycle say where a label   *)
(* and a cycle were placed.                                                *)
(***************************************************************************)

(* The partition of c has the label l, or the cycle it heads. *)
HasPart(c, l, b) ==
  \E i \in 1 .. Len(components[c]) : components[c][i] = [label |-> l, cycle |-> b]

PointerInv ==
  /\ parentCycle \in [Labels -> Cycles]
  /\ containing \in [Labels -> Cycles \cup {Absent}]
  /\ \A l \in Labels : containing[l] # Absent <=> dfn[l] = DFN_INF /\ ~Building(l)
  /\ \A c \in Cycles, l \in Labels : containing[l] = c <=> HasPart(c, l, FALSE)
  /\ \A c \in Cycles, h \in Labels :
       HasPart(c, h, TRUE) <=> containing[h] = h /\ parentCycle[h] = c
  /\ \A i \in Tasks, h \in Labels : IsContinue(i, h) => parentCycle[h] = visitStack[i].partition
  /\ \A h \in Labels : components[h] # <<>> => Building(h) \/ containing[h] = h

LEMMA AppendPart ==
  ASSUME NEW A, NEW s \in Seq(A), NEW x \in A, NEW y
  PROVE  /\ Append(s, x) # <<>>
         /\ (\E i \in 1 .. Len(Append(s, x)) : Append(s, x)[i] = y)
              <=> (\E i \in 1 .. Len(s) : s[i] = y) \/ y = x
<1> DEFINE n == Len(s)
           t == Append(s, x)
<1>1. n \in Nat /\ Len(t) = n + 1 /\ t[n + 1] = x /\ t # <<>>
  OBVIOUS
<1>2. \A i \in 1 .. n : t[i] = s[i]
  OBVIOUS
<1> HIDE DEF n, t
<1>3. \A i : i \in 1 .. n + 1 <=> i \in 1 .. n \/ i = n + 1
  BY <1>1
<1>4. (\E i \in 1 .. Len(t) : t[i] = y) <=> (\E i \in 1 .. n : s[i] = y) \/ y = x
  BY <1>1, <1>2, <1>3
<1> QED
  BY <1>1, <1>4 DEF n, t

LEMMA PointersSame ==
  ASSUME PointerInv,
         components' = components, parentCycle' = parentCycle, containing' = containing,
         \A l \in Labels : dfn'[l] = DFN_INF <=> dfn[l] = DFN_INF,
         \A l \in Labels : Building(l)' <=> Building(l),
         \A i \in Tasks', h \in Labels : IsContinue(i, h)' =>
           i \in Tasks /\ IsContinue(i, h) /\ visitStack'[i] = visitStack[i]
  PROVE  PointerInv'
<1>1. \A c, l, b : HasPart(c, l, b)' <=> HasPart(c, l, b)
  BY DEF HasPart
<1>2. \A i \in Tasks', h \in Labels : IsContinue(i, h)' => parentCycle'[h] = visitStack'[i].partition
  BY DEF PointerInv
<1> QED
  BY <1>1, <1>2 DEF PointerInv

LEMMA PointersPush ==
  ASSUME BuilderInv, PointerInv, NEW v \in Labels, PushSuccessors(v)
  PROVE  PointerInv'
<1>0. /\ visitStack # <<>> /\ Top.type = "PushSuccessors" /\ v \in Top.todo
      /\ components' = components /\ parentCycle' = parentCycle /\ containing' = containing
  BY DEF PushSuccessors
<1>1. PICK L : L = Len(visitStack)
  OBVIOUS
<1>2. CASE dfn[v] # 0
  <2>1. visitStack' = PopSuccessor(v) /\ dfn' = dfn
    BY <1>2 DEF PushSuccessors
  <2>2. PICK w : w = PopSuccessor(v)
    OBVIOUS
  <2>3. Len(w) \in Nat /\ L \in Nat /\ Len(w) <= L
    <3>1. Len(w) \in Nat /\ L \in Nat /\ (Len(w) = L - 1 \/ Len(w) = L)
      BY <1>0, <1>1, <2>2, PopSuccessorFacts
    <3> QED
      BY <3>1
  <2>4. Len(visitStack') \in Nat /\ Len(w) <= Len(visitStack') /\ \A i \in 1 .. Len(w) : visitStack'[i] = w[i]
    BY <2>1, <2>2, <2>3
  <2>5. /\ \A i \in Tasks : i <= Len(w) =>
             /\ ~IsPush(i) => visitStack'[i] = visitStack[i]
             /\ \A l : IsContinue(i, l)' <=> IsContinue(i, l)
        /\ \A i \in Tasks : ~IsPush(i) => i \in Tasks' /\ i <= Len(w)
    BY <1>0, <1>1, <2>2, <2>4, KeptTasks
  <2>6. \A i \in Tasks' : i \in Tasks /\ i <= Len(w)
    BY <1>1, <2>1, <2>2, <2>3 DEF Tasks
  <2>7. \A i, l : IsContinue(i, l) => ~IsPush(i)
    BY DEF IsContinue, IsPush
  <2>8. \A i \in Tasks', h \in Labels : IsContinue(i, h)' =>
           i \in Tasks /\ IsContinue(i, h) /\ visitStack'[i] = visitStack[i]
    BY <2>5, <2>6, <2>7
  <2>9. \A l \in Labels : Building(l)' <=> Building(l)
    BY <2>5, <2>7, <2>8 DEF Building
  <2> QED
    BY <1>0, <2>1, <2>8, <2>9, PointersSame
<1>3. CASE dfn[v] = 0
  <2>0. num + 1 < DFN_INF /\ num' = num + 1 /\ dfn' = [dfn EXCEPT ![v] = num + 1] /\ headDfn' = headDfn
    BY <1>3 DEF PushSuccessors, NextNumber
  <2>1. PICK S \in SUBSET Labels :
          /\ \A z : z \in S <=> z \in children[v] /\ dfn'[z] = 0
          /\ visitStack' =
               PushTasks(Append(PopSuccessor(v), VisitTask("StartVisit", v, Top.partition)),
                         S, Top.partition)
    BY <1>3, NewPushed
  <2>2. PICK k \in Nat : NewTop(L, k, v, S)
    BY <1>0, <1>1, <2>1, NewTasks
  <2>3. \A l \in Labels : dfn'[l] = DFN_INF <=> dfn[l] = DFN_INF
    BY <1>3, <2>0, NewNumber DEF NumberAdded
  <2>4. ASSUME NEW i \in Tasks', NEW h \in Labels, IsContinue(i, h)'
        PROVE  i \in Tasks /\ IsContinue(i, h) /\ visitStack'[i] = visitStack[i]
    <3>1. i \in Tasks /\ i <= k
      BY <2>2, <2>4 DEF NewTop, IsContinue, IsPush
    <3>2. IsContinue(i, h)
      BY <2>2, <2>4, <3>1 DEF NewTop
    <3>3. ~IsPush(i)
      BY <3>2 DEF IsContinue, IsPush
    <3> QED
      BY <2>2, <3>1, <3>2, <3>3 DEF NewTop
  <2>5. \A l \in Labels : Building(l)' <=> Building(l)
    BY <1>3, NewBuilding
  <2> QED
    BY <1>0, <2>3, <2>4, <2>5, PointersSame
<1> QED
  BY <1>2, <1>3

LEMMA PointersInner ==
  ASSUME BuilderInv, PointerInv, NEW v \in Labels, StartVisit(v), StartVisitInner(v)
  PROVE  PointerInv'
<1>0. /\ visitStack # <<>> /\ visitStack' = Below /\ Top.type = "StartVisit"
      /\ dfn' = dfn /\ components' = components /\ parentCycle' = parentCycle /\ containing' = containing
  BY DEF StartVisit, StartVisitInner
<1>1. /\ \A i \in Tasks' : i \in Tasks /\ visitStack'[i] = visitStack[i]
      /\ \A i \in Tasks : i # Len(visitStack) => i \in Tasks'
      /\ \A i \in Tasks' : \A l : IsContinue(i, l)' <=> IsContinue(i, l)
  BY <1>0, VisitPopTasks DEF BuilderInv
<1>2. \A l : ~IsContinue(Len(visitStack), l)
  BY <1>0 DEF IsContinue, Top
<1>3. \A l \in Labels : Building(l)' <=> Building(l)
  BY <1>1, <1>2 DEF Building
<1> QED
  BY <1>0, <1>1, <1>3, PointersSame

LEMMA PointersVertex ==
  ASSUME BuilderInv, PointerInv, NEW v \in Labels, StartVisit(v), StartVisitVertex(v)
  PROVE  PointerInv'
<1>0. /\ visitStack # <<>> /\ visitStack' = Below /\ Top.type = "StartVisit" /\ v = Top.vertex
      /\ UNCHANGED <<children, num>> /\ parentCycle' = parentCycle
  BY DEF StartVisit, StartVisitVertex
<1>1. PICK p \in Cycles : p = Top.partition /\ IsOpen(p)
  BY <1>0, OpenPartition
<1>2. /\ \A l \in Labels : dfn'[l] = IF l = v THEN DFN_INF ELSE dfn[l]
      /\ \A l \in Labels : Building(l)' <=> Building(l)
      /\ \A l \in Labels : Building(l) => l # v
  BY <1>0, VertexNumbers
<1>3. dfn[v] # DFN_INF /\ containing[v] = Absent
  <2>1. Pending(v)
    BY <1>0, StartOnTop
  <2> QED
    BY <2>1 DEF Pending, Numbered, PointerInv
<1>4. p # v /\ Absent \notin Cycles
  BY <1>1, <1>2, SentinelAssumption DEF IsOpen, Cycles
<1>5. containing' = [containing EXCEPT ![v] = p]
  BY <1>1, <1>3 DEF StartVisitVertex, Emplace
<1>6. components' = [components EXCEPT ![p] = Append(components[p], [label |-> v, cycle |-> FALSE])]
  BY <1>1 DEF StartVisitVertex
<1>7. components \in [Cycles -> Seq(Component)] /\ [label |-> v, cycle |-> FALSE] \in Component
  BY DEF BuilderInv, BuilderTypes, Component
<1>8. containing \in [Labels -> Cycles \cup {Absent}] /\ parentCycle \in [Labels -> Cycles]
  BY DEF PointerInv
<1>9. \A l \in Labels : containing'[l] = IF l = v THEN p ELSE containing[l]
  BY <1>5, <1>8
<1>10. ASSUME NEW c \in Cycles, NEW l \in Labels, NEW b \in BOOLEAN
       PROVE  HasPart(c, l, b)' <=> HasPart(c, l, b) \/ (c = p /\ l = v /\ b = FALSE)
  <2>1. CASE c # p
    BY <1>6, <1>7, <2>1 DEF HasPart
  <2>2. CASE c = p
    <3>1. components'[c] = Append(components[c], [label |-> v, cycle |-> FALSE]) /\ components[c] \in Seq(Component)
      BY <1>6, <1>7, <2>2
    <3>2. (\E i \in 1 .. Len(components'[c]) : components'[c][i] = [label |-> l, cycle |-> b])
            <=> (\E i \in 1 .. Len(components[c]) : components[c][i] = [label |-> l, cycle |-> b])
                  \/ [label |-> l, cycle |-> b] = [label |-> v, cycle |-> FALSE]
      BY <1>7, <3>1, AppendPart
    <3>3. [label |-> l, cycle |-> b] = [label |-> v, cycle |-> FALSE] <=> l = v /\ b = FALSE
      OBVIOUS
    <3> QED
      BY <2>2, <3>2, <3>3 DEF HasPart
  <2> QED
    BY <2>1, <2>2
<1>11. \A l \in Labels : containing'[l] # Absent <=> dfn'[l] = DFN_INF /\ ~Building(l)'
  BY <1>2, <1>4, <1>9 DEF PointerInv
<1>12. \A c \in Cycles, l \in Labels : containing'[l] = c <=> HasPart(c, l, FALSE)'
  <2> SUFFICES ASSUME NEW c \in Cycles, NEW l \in Labels
               PROVE  containing'[l] = c <=> HasPart(c, l, FALSE)'
    OBVIOUS
  <2>1. HasPart(c, l, FALSE)' <=> HasPart(c, l, FALSE) \/ (c = p /\ l = v)
    BY <1>10
  <2>2. containing[l] = c <=> HasPart(c, l, FALSE)
    BY DEF PointerInv
  <2> QED
    BY <1>3, <1>4, <1>9, <2>1, <2>2
<1>13. \A c \in Cycles, h \in Labels :
         HasPart(c, h, TRUE)' <=> containing'[h] = h /\ parentCycle'[h] = c
  <2> SUFFICES ASSUME NEW c \in Cycles, NEW h \in Labels
               PROVE  HasPart(c, h, TRUE)' <=> containing'[h] = h /\ parentCycle'[h] = c
    OBVIOUS
  <2>1. HasPart(c, h, TRUE)' <=> HasPart(c, h, TRUE)
    BY <1>10
  <2>2. HasPart(c, h, TRUE) <=> containing[h] = h /\ parentCycle[h] = c
    BY DEF PointerInv
  <2>3. containing'[h] = h <=> containing[h] = h
    BY <1>3, <1>4, <1>9 DEF Cycles
  <2> QED
    BY <1>0, <2>1, <2>2, <2>3
<1>14. \A i \in Tasks', h \in Labels : IsContinue(i, h)' => parentCycle'[h] = visitStack'[i].partition
  <2>1. /\ \A i \in Tasks' : i \in Tasks /\ visitStack'[i] = visitStack[i]
        /\ \A i \in Tasks' : \A l : IsContinue(i, l)' <=> IsContinue(i, l)
    BY <1>0, VisitPopTasks DEF BuilderInv
  <2> QED
    BY <1>0, <2>1 DEF PointerInv
<1>15. \A h \in Labels : components'[h] # <<>> => Building(h)' \/ containing'[h] = h
  <2> SUFFICES ASSUME NEW h \in Labels, components'[h] # <<>>
               PROVE  Building(h)' \/ containing'[h] = h
    OBVIOUS
  <2>1. CASE h = p
    <3>1. Building(h)
      BY <1>1, <2>1, SentinelAssumption DEF IsOpen
    <3> QED
      BY <1>2, <3>1
  <2>2. CASE h # p
    <3>1. components[h] # <<>>
      BY <1>6, <1>7, <2>2 DEF Cycles
    <3>2. Building(h) \/ containing[h] = h
      BY <3>1 DEF PointerInv
    <3>3. containing[h] = h => h # v
      BY <1>3, SentinelAssumption
    <3> QED
      BY <1>2, <1>9, <3>2, <3>3
  <2> QED
    BY <2>1, <2>2
<1>16. parentCycle' \in [Labels -> Cycles] /\ containing' \in [Labels -> Cycles \cup {Absent}]
  BY <1>0, <1>5, <1>8
<1> QED
  BY <1>11, <1>12, <1>13, <1>14, <1>15, <1>16 DEF PointerInv

LEMMA PointersCycle ==
  ASSUME BuilderInv, PointerInv, NEW v \in Labels, StartVisit(v), StartVisitCycle(v)
  PROVE  PointerInv'
<1>0. /\ visitStack # <<>> /\ Top.type = "StartVisit" /\ v = Top.vertex
      /\ UNCHANGED <<children, num>> /\ components' = components /\ containing' = containing
      /\ parentCycle' = [parentCycle EXCEPT ![v] = Top.partition]
  BY DEF StartVisit, StartVisitCycle
<1>1. Top.partition \in Cycles
  BY <1>0, OpenPartition
<1>2. \A l \in Labels : Building(l)' <=> Building(l) \/ l = v
  BY <1>0, CycleBuilding
<1>3. dfn[v] # DFN_INF /\ containing[v] = Absent /\ ~Building(v)
  <2>1. Pending(v)
    BY <1>0, StartOnTop
  <2> QED
    BY <2>1, BuildingFacts DEF Pending, Numbered, PointerInv
<1>4. dfn'[v] = DFN_INF /\ \A l \in Labels : dfn[l] = DFN_INF => dfn'[l] = DFN_INF
  <2>1. \A l \in Labels : dfn[l] = DFN_INF => dfn'[l] = DFN_INF
    BY <1>0, CycleNumbers
  <2> QED
    BY <2>1 DEF StartVisitCycle
<1>5. \A l \in Labels : dfn'[l] = DFN_INF => l = v \/ dfn[l] = DFN_INF
  BY DfnAssumption DEF StartVisitCycle
<1>6. PICK L : L = Len(visitStack)
  OBVIOUS
<1>7. PICK S \in SUBSET Labels :
        /\ \A z : z \in S <=> z \in children[v] /\ dfn'[z] = 0
        /\ visitStack' = PushTasks(Append(Below, VisitTask("ContinueVisit", v, Top.partition)), S, v)
  BY <1>0, CyclePushed
<1>8. /\ \A i \in Tasks : i < L => visitStack'[i] = visitStack[i] /\ \A l : IsContinue(i, l)' <=> IsContinue(i, l)
      /\ visitStack'[L].partition = Top.partition
      /\ \A l : IsContinue(L, l)' <=> l = v
      /\ \A i \in Tasks' : \/ i \in Tasks /\ i < L
                           \/ i = L
                           \/ \A l : ~IsContinue(i, l)'
  BY <1>0, <1>6, <1>7, CycleTasks
<1>9. parentCycle \in [Labels -> Cycles] /\ containing \in [Labels -> Cycles \cup {Absent}]
  BY DEF PointerInv
<1>10. \A l \in Labels : parentCycle'[l] = IF l = v THEN Top.partition ELSE parentCycle[l]
  BY <1>0, <1>9
<1>11. \A c, l, b : HasPart(c, l, b)' <=> HasPart(c, l, b)
  BY <1>0 DEF HasPart
<1>12. \A l \in Labels : containing'[l] # Absent <=> dfn'[l] = DFN_INF /\ ~Building(l)'
  BY <1>0, <1>2, <1>3, <1>4, <1>5 DEF PointerInv
<1>13. \A c \in Cycles, l \in Labels : containing'[l] = c <=> HasPart(c, l, FALSE)'
  BY <1>0, <1>11 DEF PointerInv
<1>14. \A c \in Cycles, h \in Labels :
         HasPart(c, h, TRUE)' <=> containing'[h] = h /\ parentCycle'[h] = c
  <2> SUFFICES ASSUME NEW c \in Cycles, NEW h \in Labels
               PROVE  HasPart(c, h, TRUE)' <=> containing'[h] = h /\ parentCycle'[h] = c
    OBVIOUS
  <2>1. HasPart(c, h, TRUE) <=> containing[h] = h /\ parentCycle[h] = c
    BY DEF PointerInv
  <2>2. containing[v] # v
    BY <1>3, SentinelAssumption
  <2> QED
    BY <1>0, <1>10, <1>11, <2>1, <2>2
<1>15. \A i \in Tasks', h \in Labels : IsContinue(i, h)' => parentCycle'[h] = visitStack'[i].partition
  <2> SUFFICES ASSUME NEW i \in Tasks', NEW h \in Labels, IsContinue(i, h)'
               PROVE  parentCycle'[h] = visitStack'[i].partition
    OBVIOUS
  <2>1. CASE i = L
    BY <1>8, <1>10, <2>1
  <2>2. CASE i \in Tasks /\ i < L
    <3>1. IsContinue(i, h) /\ visitStack'[i] = visitStack[i]
      BY <1>8, <2>2
    <3>2. h # v
      BY <1>3, <2>2, <3>1 DEF Building
    <3> QED
      BY <1>10, <2>2, <3>1, <3>2 DEF PointerInv
  <2> QED
    BY <1>8, <2>1, <2>2
<1>16. \A h \in Labels : components'[h] # <<>> => Building(h)' \/ containing'[h] = h
  BY <1>0, <1>2 DEF PointerInv
<1>17. parentCycle' \in [Labels -> Cycles] /\ containing' \in [Labels -> Cycles \cup {Absent}]
  BY <1>0, <1>1, <1>9
<1> QED
  BY <1>12, <1>13, <1>14, <1>15, <1>16, <1>17 DEF PointerInv

LEMMA PointersContinue ==
  ASSUME BuilderInv, PointerInv, NEW v \in Labels, ContinueVisit(v)
  PROVE  PointerInv'
<1>0. /\ visitStack # <<>> /\ Top.type = "ContinueVisit" /\ v = Top.vertex /\ visitStack' = Below
      /\ dfn' = dfn /\ parentCycle' = parentCycle
  BY DEF ContinueVisit
<1>1. PICK p \in Cycles : p = Top.partition /\ p # v /\ (p = NoCycle \/ (p \in Labels /\ Building(p)))
  BY <1>0, OuterPartition
<1>2. \A l \in Labels : Building(l)' <=> Building(l) /\ l # v
  BY ContinueNumbers
<1>3. dfn[v] = DFN_INF /\ Building(v) /\ containing[v] = Absent
  <2>1. dfn[v] = DFN_INF /\ Building(v)
    BY <1>0, ContinueOnTop
  <2> QED
    BY <2>1 DEF PointerInv
<1>4. parentCycle[v] = p
  <2>1. Len(visitStack) \in Tasks
    BY <1>0, TopTask DEF BuilderInv
  <2>2. IsContinue(Len(visitStack), v) /\ visitStack[Len(visitStack)].partition = p
    BY <1>0, <1>1 DEF IsContinue, Top
  <2> QED
    BY <2>1, <2>2 DEF PointerInv
<1>5. v \in Cycles /\ v # Absent /\ Absent \notin Cycles
  BY SentinelAssumption DEF Cycles
<1>6. containing' = [containing EXCEPT ![v] = v]
  BY <1>3 DEF ContinueVisit, Emplace
<1>7. components \in [Cycles -> Seq(Component)] /\ \A b \in BOOLEAN : [label |-> v, cycle |-> b] \in Component
  BY DEF BuilderInv, BuilderTypes, Component
<1>8. /\ components'[v] = Append(components[v], [label |-> v, cycle |-> FALSE])
      /\ components'[p] = Append(components[p], [label |-> v, cycle |-> TRUE])
      /\ \A c \in Cycles : c # p /\ c # v => components'[c] = components[c]
  BY <1>1, <1>5, <1>7 DEF ContinueVisit
<1>9. containing \in [Labels -> Cycles \cup {Absent}] /\ parentCycle \in [Labels -> Cycles]
  BY DEF PointerInv
<1>10. \A l \in Labels : containing'[l] = IF l = v THEN v ELSE containing[l]
  BY <1>6, <1>9
<1>11. ASSUME NEW c \in Cycles, NEW l \in Labels, NEW b \in BOOLEAN
       PROVE  HasPart(c, l, b)' <=> \/ HasPart(c, l, b)
                                    \/ c = v /\ l = v /\ b = FALSE
                                    \/ c = p /\ l = v /\ b = TRUE
  <2>0. components[c] \in Seq(Component)
    BY <1>7
  <2>1. CASE c # p /\ c # v
    BY <1>8, <2>1 DEF HasPart
  <2>2. ASSUME NEW a \in BOOLEAN, components'[c] = Append(components[c], [label |-> v, cycle |-> a])
        PROVE  HasPart(c, l, b)' <=> HasPart(c, l, b) \/ (l = v /\ b = a)
    <3>1. (\E i \in 1 .. Len(components'[c]) : components'[c][i] = [label |-> l, cycle |-> b])
            <=> (\E i \in 1 .. Len(components[c]) : components[c][i] = [label |-> l, cycle |-> b])
                  \/ [label |-> l, cycle |-> b] = [label |-> v, cycle |-> a]
      <4>1. PICK x \in Component : x = [label |-> v, cycle |-> a]
        BY <1>7
      <4>2. PICK y : y = [label |-> l, cycle |-> b]
        OBVIOUS
      <4>3. components'[c] = Append(components[c], x)
        BY <2>2, <4>1
      <4>4. (\E i \in 1 .. Len(components'[c]) : components'[c][i] = y)
              <=> (\E i \in 1 .. Len(components[c]) : components[c][i] = y) \/ y = x
        BY <2>0, <4>3, AppendPart
      <4> QED
        BY <4>1, <4>2, <4>4, Zenon
    <3>2. [label |-> l, cycle |-> b] = [label |-> v, cycle |-> a] <=> l = v /\ b = a
      OBVIOUS
    <3> QED
      BY <3>1, <3>2 DEF HasPart
  <2>3. CASE c = v
    <3>1. HasPart(c, l, b)' <=> HasPart(c, l, b) \/ (l = v /\ b = FALSE)
      BY <1>8, <2>2, <2>3
    <3> QED
      BY <1>1, <2>3, <3>1
  <2>4. CASE c = p
    <3>1. HasPart(c, l, b)' <=> HasPart(c, l, b) \/ (l = v /\ b = TRUE)
      BY <1>8, <2>2, <2>4
    <3> QED
      BY <1>1, <2>4, <3>1
  <2> QED
    BY <2>1, <2>3, <2>4
<1>12. \A l \in Labels : containing'[l] # Absent <=> dfn'[l] = DFN_INF /\ ~Building(l)'
  BY <1>0, <1>2, <1>3, <1>5, <1>10 DEF PointerInv
<1>13. \A c \in Cycles, l \in Labels : containing'[l] = c <=> HasPart(c, l, FALSE)'
  <2> SUFFICES ASSUME NEW c \in Cycles, NEW l \in Labels
               PROVE  containing'[l] = c <=> HasPart(c, l, FALSE)'
    OBVIOUS
  <2>1. HasPart(c, l, FALSE)' <=> HasPart(c, l, FALSE) \/ (c = v /\ l = v)
    BY <1>11
  <2>2. containing[l] = c <=> HasPart(c, l, FALSE)
    BY DEF PointerInv
  <2> QED
    BY <1>3, <1>5, <1>10, <2>1, <2>2
<1>14. \A c \in Cycles, h \in Labels :
         HasPart(c, h, TRUE)' <=> containing'[h] = h /\ parentCycle'[h] = c
  <2> SUFFICES ASSUME NEW c \in Cycles, NEW h \in Labels
               PROVE  HasPart(c, h, TRUE)' <=> containing'[h] = h /\ parentCycle'[h] = c
    OBVIOUS
  <2>1. HasPart(c, h, TRUE)' <=> HasPart(c, h, TRUE) \/ (c = p /\ h = v)
    BY <1>11
  <2>2. HasPart(c, h, TRUE) <=> containing[h] = h /\ parentCycle[h] = c
    BY DEF PointerInv
  <2> QED
    BY <1>0, <1>3, <1>4, <1>5, <1>10, <2>1, <2>2
<1>15. \A i \in Tasks', h \in Labels : IsContinue(i, h)' => parentCycle'[h] = visitStack'[i].partition
  <2>1. /\ \A i \in Tasks' : i \in Tasks /\ visitStack'[i] = visitStack[i]
        /\ \A i \in Tasks' : \A l : IsContinue(i, l)' <=> IsContinue(i, l)
    BY <1>0, VisitPopTasks DEF BuilderInv
  <2> QED
    BY <1>0, <2>1 DEF PointerInv
<1>16. \A h \in Labels : components'[h] # <<>> => Building(h)' \/ containing'[h] = h
  <2> SUFFICES ASSUME NEW h \in Labels, components'[h] # <<>>, h # v
               PROVE  Building(h)' \/ containing'[h] = h
    BY <1>10
  <2>1. CASE h = p
    BY <1>1, <1>2, <2>1, SentinelAssumption
  <2>2. CASE h # p
    <3>1. components[h] # <<>>
      BY <1>8, <2>2 DEF Cycles
    <3>2. Building(h) \/ containing[h] = h
      BY <3>1 DEF PointerInv
    <3> QED
      BY <1>2, <1>10, <3>2
  <2> QED
    BY <2>1, <2>2
<1>17. parentCycle' \in [Labels -> Cycles] /\ containing' \in [Labels -> Cycles \cup {Absent}]
  BY <1>0, <1>5, <1>6, <1>9
<1> QED
  BY <1>12, <1>13, <1>14, <1>15, <1>16, <1>17 DEF PointerInv

LEMMA PointerInvInit ==
  ASSUME WtoInit
  PROVE  PointerInv
<1>1. /\ dfn = [l \in Labels |-> 0] /\ components = [c \in Cycles |-> <<>>]
      /\ parentCycle = [l \in Labels |-> NoCycle] /\ containing = [l \in Labels |-> Absent]
  BY DEF WtoInit
<1>2. Tasks = {1} /\ visitStack[1].type = "PushSuccessors"
  <2>1. BuilderInv
    BY BuilderInvInit
  <2>2. visitStack # <<>> /\ IsPush(1)
    BY DEF WtoInit, PushTasks, IsPush
  <2>3. Len(visitStack) = 1
    BY <2>1, <2>2 DEF BuilderInv, EntryFirst
  <2> QED
    BY <2>2, <2>3 DEF Tasks, IsPush
<1>3. \A i \in Tasks : \A h : ~IsContinue(i, h)
  BY <1>2 DEF IsContinue
<1>4. \A c \in Cycles : components[c] = <<>> /\ Len(components[c]) = 0
  BY <1>1
<1>5. \A c \in Cycles : \A l, b : ~HasPart(c, l, b)
  BY <1>4 DEF HasPart
<1>6. NoCycle \in Cycles /\ Labels \subseteq Cycles /\ Absent \notin Cycles /\ DFN_INF # 0
  BY SentinelAssumption, DfnAssumption DEF Cycles
<1>7. \A l \in Labels : containing[l] = Absent /\ dfn[l] = 0
  BY <1>1
<1> QED
  BY <1>1, <1>3, <1>4, <1>5, <1>6, <1>7 DEF PointerInv

LEMMA PointerInvStep ==
  ASSUME BuilderInv, PointerInv, BuildStep
  PROVE  PointerInv'
<1>1. PICK v \in Labels : PushSuccessors(v) \/ StartVisit(v) \/ ContinueVisit(v)
  BY DEF BuildStep
<1>2. StartVisit(v) => StartVisitInner(v) \/ StartVisitVertex(v) \/ StartVisitCycle(v)
  BY DEF StartVisit
<1> QED
  BY <1>1, <1>2, PointersPush, PointersInner, PointersVertex, PointersCycle, PointersContinue

(* The members of a partition, by its parts. *)
LEMMA MemberParts ==
  ASSUME BuilderInv, NEW m, PlacedInv(m), NEW c \in Cycles
  PROVE  /\ \A l \in Labels : l \in m[c] <=>
              HasPart(c, l, FALSE) \/ \E h \in Labels : HasPart(c, h, TRUE) /\ l \in m[h]
         /\ \A h \in Labels : HasPart(c, h, TRUE) => c = NoCycle \/ headDfn[c] < headDfn[h]
         /\ \A l \in Labels, b \in BOOLEAN : HasPart(c, l, b) => components[c] # <<>>
<1>1. components \in [Cycles -> Seq(Component)]
  BY DEF BuilderInv, BuilderTypes
<1>2. \A i \in 1 .. Len(components[c]) :
        \E l \in Labels, b \in BOOLEAN : components[c][i] = [label |-> l, cycle |-> b]
  <2> SUFFICES ASSUME NEW i \in 1 .. Len(components[c])
               PROVE  \E l \in Labels, b \in BOOLEAN : components[c][i] = [label |-> l, cycle |-> b]
    OBVIOUS
  <2>1. PICK x \in Component : x = components[c][i]
    BY <1>1
  <2>2. x.label \in Labels /\ x.cycle \in BOOLEAN /\ x = [label |-> x.label, cycle |-> x.cycle]
    BY DEF Component
  <2> QED
    BY <2>1, <2>2, Zenon
<1>3. ASSUME NEW l \in Labels
      PROVE  l \in m[c] <=> HasPart(c, l, FALSE) \/ \E h \in Labels : HasPart(c, h, TRUE) /\ l \in m[h]
  <2>1. l \in m[c] <=> \E i \in 1 .. Len(components[c]) : l \in LabelsAt(m, components[c][i])
    BY DEF PlacedInv, Ordered, IsMembers
  <2>2. \A h \in Labels : /\ LabelsAt(m, [label |-> h, cycle |-> TRUE]) = m[h]
                          /\ LabelsAt(m, [label |-> h, cycle |-> FALSE]) = {h}
    BY DEF LabelsAt
  <2>3. ASSUME l \in m[c]
        PROVE  HasPart(c, l, FALSE) \/ \E h \in Labels : HasPart(c, h, TRUE) /\ l \in m[h]
    <3>1. PICK i \in 1 .. Len(components[c]) : l \in LabelsAt(m, components[c][i])
      BY <2>1, <2>3
    <3>2. PICK h \in Labels, b \in BOOLEAN : components[c][i] = [label |-> h, cycle |-> b]
      BY <1>2
    <3>3. CASE b = TRUE
      BY <2>2, <3>1, <3>2, <3>3 DEF HasPart
    <3>4. CASE b = FALSE
      <4>1. components[c][i] = [label |-> h, cycle |-> FALSE]
        BY <3>2, <3>4
      <4>2. l = h
        BY <2>2, <3>1, <4>1
      <4> QED
        BY <4>1, <4>2 DEF HasPart
    <3> QED
      BY <3>3, <3>4
  <2>4. ASSUME HasPart(c, l, FALSE)
        PROVE  l \in m[c]
    BY <2>1, <2>2, <2>4 DEF HasPart
  <2>5. ASSUME NEW h \in Labels, HasPart(c, h, TRUE), l \in m[h]
        PROVE  l \in m[c]
    BY <2>1, <2>2, <2>5 DEF HasPart
  <2> QED
    BY <2>3, <2>4, <2>5
<1>4. ASSUME NEW h \in Labels, HasPart(c, h, TRUE)
      PROVE  c = NoCycle \/ headDfn[c] < headDfn[h]
  <2>1. PICK i \in 1 .. Len(components[c]) : components[c][i] = [label |-> h, cycle |-> TRUE]
    BY <1>4 DEF HasPart
  <2>2. components[c][i].cycle /\ components[c][i].label = h
    BY <2>1
  <2> QED
    BY <2>2 DEF PlacedInv
<1>5. \A l \in Labels, b \in BOOLEAN : HasPart(c, l, b) => components[c] # <<>>
  BY DEF HasPart
<1> QED
  BY <1>3, <1>4, <1>5

(* The pointers of a finished Wto. *)
LEMMA HeadFacts ==
  ASSUME BuilderInv, NEW m, PlacedInv(m), PointerInv, WtoDone
  PROVE  /\ \A h \in Labels : components[h] # <<>> <=> containing[h] = h
         /\ \A h \in Labels : containing[h] = h => h \in m[h]
         /\ \A c \in Labels : \A l \in m[c] : containing[c] = c
         /\ \A l \in Labels :
              /\ HeadOf(l) = NoCycle \/ HeadOf(l) \in Labels
              /\ HeadOf(l) \in Labels =>
                   /\ containing[HeadOf(l)] = HeadOf(l) /\ HeadOf(l) # l
                   /\ l \in m[HeadOf(l)]
                   /\ containing[l] = l => headDfn[HeadOf(l)] < headDfn[l]
<1>0. Labels \subseteq Cycles /\ NoCycle \notin Labels /\ Absent \notin Cycles /\ m \in [Cycles -> SUBSET Labels]
  BY SentinelAssumption DEF Cycles, PlacedInv, Ordered, IsMembers
<1>1. \A l \in Labels : ~Building(l)
  <2>1. Len(visitStack) = 0
    BY DEF WtoDone
  <2> QED
    BY <2>1 DEF Building, Tasks
<1>2. \A h \in Labels : components[h] # <<>> => containing[h] = h
  BY <1>1 DEF PointerInv
<1>3. \A h \in Labels : containing[h] = h => h \in m[h] /\ components[h] # <<>>
  <2> SUFFICES ASSUME NEW h \in Labels, containing[h] = h
               PROVE  h \in m[h] /\ components[h] # <<>>
    OBVIOUS
  <2>1. HasPart(h, h, FALSE)
    BY <1>0 DEF PointerInv
  <2> QED
    BY <1>0, <2>1, MemberParts
<1>4. ASSUME NEW c \in Labels, NEW l \in m[c]
      PROVE  containing[c] = c
  <2>1. l \in Labels /\ c \in Cycles
    BY <1>0
  <2>2. components[c] # <<>>
    BY <2>1, <1>4, MemberParts
  <2> QED
    BY <1>2, <2>2
<1>5. ASSUME NEW l \in Labels
      PROVE  /\ HeadOf(l) = NoCycle \/ HeadOf(l) \in Labels
             /\ HeadOf(l) \in Labels =>
                  /\ containing[HeadOf(l)] = HeadOf(l) /\ HeadOf(l) # l
                  /\ l \in m[HeadOf(l)]
                  /\ containing[l] = l => headDfn[HeadOf(l)] < headDfn[l]
  <2>0. containing[l] \in Cycles \cup {Absent} /\ parentCycle[l] \in Cycles
    BY DEF PointerInv
  <2>1. CASE containing[l] \in {Absent, NoCycle}
    <3>1. HeadOf(l) = NoCycle
      BY <2>1 DEF HeadOf
    <3> QED
      BY <1>0, <3>1
  <2>2. CASE containing[l] \notin {Absent, NoCycle} /\ containing[l] # l
    <3>1. PICK c \in Labels : c = containing[l]
      BY <2>0, <2>2 DEF Cycles
    <3>2. HeadOf(l) = c
      BY <2>2, <3>1 DEF HeadOf
    <3>3. HasPart(c, l, FALSE)
      BY <1>0, <3>1 DEF PointerInv
    <3>4. l \in m[c]
      BY <1>0, <3>3, MemberParts
    <3>5. containing[c] = c
      BY <1>4, <3>4
    <3> QED
      BY <2>2, <3>1, <3>2, <3>4, <3>5
  <2>3. CASE containing[l] = l
    <3>1. PICK p \in Cycles : p = parentCycle[l]
      BY <2>0
    <3>2. HeadOf(l) = p
      BY <1>0, <2>3, <3>1 DEF HeadOf
    <3>3. HasPart(p, l, TRUE)
      BY <2>3, <3>1 DEF PointerInv
    <3>4. l \in m[p] /\ (p = NoCycle \/ headDfn[p] < headDfn[l])
      BY <1>3, <2>3, <3>3, MemberParts
    <3>5. p \in Labels => containing[p] = p
      BY <1>4, <3>4
    <3>6. headDfn[l] \in Nat
      BY DfnAssumption DEF BuilderInv, NumberTypes
    <3>7. p = l => p = NoCycle
      BY <3>4, <3>6
    <3> QED
      BY <1>0, <3>2, <3>4, <3>5, <3>7 DEF Cycles
  <2> QED
    BY <2>1, <2>2, <2>3
<1> QED
  BY <1>2, <1>3, <1>4, <1>5

(* A cycle inside another one has its members inside it too. *)
LEMMA NestedMembers ==
  ASSUME BuilderInv, NEW m, PlacedInv(m), PointerInv, WtoDone,
         NEW h \in Labels, containing[h] = h, NEW c \in Labels, h \in m[c]
  PROVE  m[h] \subseteq m[c] /\ (h = c \/ headDfn[c] < headDfn[h])
<1> DEFINE Inside(b) == b \in Labels /\ h \in m[b] => m[h] \subseteq m[b] /\ (h = b \/ headDfn[b] < headDfn[h])
           S == {b \in Cycles : Inside(b)}
<1>0. Labels \subseteq Cycles /\ NoCycle \notin Labels /\ m \in [Cycles -> SUBSET Labels]
  BY SentinelAssumption DEF Cycles, PlacedInv, Ordered, IsMembers
<1>1. ASSUME NEW b \in Cycles,
             \A g \in Labels : b = NoCycle \/ headDfn[b] < headDfn[g] => Inside(g)
      PROVE  Inside(b)
  <2> SUFFICES ASSUME b \in Labels, h \in m[b]
               PROVE  m[h] \subseteq m[b] /\ (h = b \/ headDfn[b] < headDfn[h])
    OBVIOUS
  <2>1. CASE HasPart(b, h, FALSE)
    <3>1. b = h
      BY <1>0, <2>1 DEF PointerInv
    <3> QED
      BY <3>1
  <2>2. CASE \E g \in Labels : HasPart(b, g, TRUE) /\ h \in m[g]
    <3>1. PICK g \in Labels : HasPart(b, g, TRUE) /\ h \in m[g]
      BY <2>2
    <3>2. headDfn[b] < headDfn[g]
      BY <1>0, <3>1, MemberParts
    <3>3. m[h] \subseteq m[g] /\ (h = g \/ headDfn[g] < headDfn[h])
      BY <1>1, <3>1, <3>2
    <3>4. \A l \in Labels : l \in m[g] => l \in m[b]
      BY <3>1, MemberParts
    <3>5. m[g] \subseteq Labels
      BY <1>0
    <3>6. headDfn[b] \in Nat /\ headDfn[g] \in Nat /\ headDfn[h] \in Nat
      BY DfnAssumption DEF BuilderInv, NumberTypes
    <3> QED
      BY <3>2, <3>3, <3>4, <3>5, <3>6
  <2> QED
    BY <2>1, <2>2, MemberParts
<1>2. Cycles \subseteq S
  <2>1. \A b \in Cycles :
          (\A g \in Labels : b = NoCycle \/ headDfn[b] < headDfn[g] => g \in S) => b \in S
    <3> HIDE DEF Inside
    <3> QED
      BY <1>1
  <2> HIDE DEF S
  <2> QED
    BY <2>1, InnerFirst
<1> QED
  BY <1>0, <1>2

(* The cycles around a label, but its own, are those around its head. *)
LEMMA CyclesAround ==
  ASSUME BuilderInv, NEW m, PlacedInv(m), PointerInv, WtoDone,
         NEW l \in Labels, NEW c \in Labels, c # l
  PROVE  l \in m[c] <=> HeadOf(l) \in Labels /\ HeadOf(l) \in m[c]
<1> DEFINE H == HeadOf(l)
           Around(b) == b \in Labels /\ b # l /\ l \in m[b] => H \in Labels /\ H \in m[b]
           S == {b \in Cycles : Around(b)}
<1>0. Labels \subseteq Cycles /\ NoCycle \notin Labels /\ Absent \notin Cycles /\ m \in [Cycles -> SUBSET Labels]
  BY SentinelAssumption DEF Cycles, PlacedInv, Ordered, IsMembers
<1>1. ASSUME NEW b \in Cycles,
             \A g \in Labels : b = NoCycle \/ headDfn[b] < headDfn[g] => Around(g)
      PROVE  Around(b)
  <2> SUFFICES ASSUME b \in Labels, b # l, l \in m[b]
               PROVE  H \in Labels /\ H \in m[b]
    OBVIOUS
  <2>0. b \in m[b]
    BY HeadFacts
  <2>1. CASE HasPart(b, l, FALSE)
    <3>1. containing[l] = b
      BY <2>1 DEF PointerInv
    <3>2. H = b
      BY <1>0, <3>1 DEF HeadOf
    <3> QED
      BY <2>0, <3>2
  <2>2. CASE \E g \in Labels : HasPart(b, g, TRUE) /\ l \in m[g]
    <3>1. PICK g \in Labels : HasPart(b, g, TRUE) /\ l \in m[g]
      BY <2>2
    <3>2. headDfn[b] < headDfn[g]
      BY <1>0, <3>1, MemberParts
    <3>3. CASE g = l
      <4>1. containing[l] = l /\ parentCycle[l] = b
        BY <3>1, <3>3 DEF PointerInv
      <4>2. H = b
        BY <1>0, <4>1 DEF HeadOf
      <4> QED
        BY <2>0, <4>2
    <3>4. CASE g # l
      <4>1. H \in Labels /\ H \in m[g]
        BY <1>1, <3>1, <3>2, <3>4
      <4> HIDE DEF H
      <4> QED
        BY <3>1, <4>1, MemberParts
    <3> QED
      BY <3>3, <3>4
  <2> QED
    BY <2>1, <2>2, MemberParts
<1>2. Cycles \subseteq S
  <2>1. \A b \in Cycles :
          (\A g \in Labels : b = NoCycle \/ headDfn[b] < headDfn[g] => g \in S) => b \in S
    <3> HIDE DEF Around
    <3> QED
      BY <1>1
  <2> HIDE DEF S
  <2> QED
    BY <2>1, InnerFirst
<1>3. l \in m[c] => H \in Labels /\ H \in m[c]
  BY <1>0, <1>2
<1>4. ASSUME H \in Labels, H \in m[c]
      PROVE  l \in m[c]
  <2>1. containing[H] = H /\ l \in m[H]
    BY <1>4, HeadFacts
  <2>2. m[H] \subseteq m[c]
    <3> HIDE DEF H
    <3> QED
      BY <1>4, <2>1, NestedMembers
  <2> QED
    BY <2>1, <2>2
<1> QED
  BY <1>3, <1>4

(* f solves the equation of nesting. *)
NestAt(f, l) == IF HeadOf(l) = NoCycle THEN <<>> ELSE <<HeadOf(l)>> \o f[HeadOf(l)]

IsNesting(f) == f = [l \in Labels |-> NestAt(f, l)]

(* Outer heads have smaller ranks than inner ones, heads than the others. *)
Rank(l) == IF containing[l] = l THEN headDfn[l] ELSE DFN_INF + 1

LEMMA RankFacts ==
  ASSUME BuilderInv, PointerInv, WtoDone, NEW l \in Labels
  PROVE  /\ Rank(l) \in Nat /\ Rank(l) < DFN_INF + 2
         /\ HeadOf(l) # NoCycle => HeadOf(l) \in Labels /\ Rank(HeadOf(l)) < Rank(l)
<1>1. \A h \in Labels : headDfn[h] \in Nat /\ headDfn[h] <= DFN_INF /\ DFN_INF \in Nat
  BY DfnAssumption DEF BuilderInv, NumberTypes
<1>2. Rank(l) \in Nat /\ Rank(l) < DFN_INF + 2
  BY <1>1 DEF Rank
<1>3. ASSUME HeadOf(l) # NoCycle
      PROVE  HeadOf(l) \in Labels /\ Rank(HeadOf(l)) < Rank(l)
  <2>1. PICK m : PlacedInv(m)
    BY DEF BuilderInv
  <2>2. PICK H \in Labels : H = HeadOf(l)
    BY <1>3, <2>1, HeadFacts
  <2>3. containing[H] = H /\ (containing[l] = l => headDfn[H] < headDfn[l])
    BY <2>1, <2>2, HeadFacts
  <2>4. Rank(H) < Rank(l)
    BY <1>1, <2>3 DEF Rank
  <2> QED
    BY <2>2, <2>4
<1> QED
  BY <1>2, <1>3

LEMMA NestingExists ==
  ASSUME BuilderInv, PointerInv, WtoDone
  PROVE  \E f : IsNesting(f)
<1> DEFINE Upto(f, n) == /\ f = [l \in Labels |-> f[l]]
                         /\ \A l \in Labels : Rank(l) < n => f[l] = NestAt(f, l)
           T == {n \in Nat : \E f : Upto(f, n)}
<1>1. 0 \in T
  <2> DEFINE f == [l \in Labels |-> <<>>]
  <2>1. \A l \in Labels : ~(Rank(l) < 0)
    <3>1. \A l \in Labels : Rank(l) \in Nat
      BY RankFacts
    <3> QED
      BY <3>1
  <2>2. f = [l \in Labels |-> f[l]]
    OBVIOUS
  <2> HIDE DEF f
  <2>3. Upto(f, 0)
    BY <2>1, <2>2
  <2> QED
    BY <2>3
<1>2. ASSUME NEW n \in T
      PROVE  n + 1 \in T
  <2>1. PICK f : Upto(f, n)
    OBVIOUS
  <2>2. n \in Nat /\ n + 1 \in Nat
    OBVIOUS
  <2> DEFINE g == [l \in Labels |-> IF Rank(l) = n THEN NestAt(f, l) ELSE f[l]]
  <2>3. \A l \in Labels : g[l] = IF Rank(l) = n THEN NestAt(f, l) ELSE f[l]
    OBVIOUS
  <2>4. g = [l \in Labels |-> g[l]]
    OBVIOUS
  <2> HIDE DEF g
  <2>5. ASSUME NEW l \in Labels, Rank(l) < n + 1
        PROVE  g[l] = NestAt(g, l)
    <3>1. NestAt(f, l) = NestAt(g, l)
      <4>1. CASE HeadOf(l) = NoCycle
        BY <4>1 DEF NestAt
      <4>2. CASE HeadOf(l) # NoCycle
        <5>1. PICK H \in Labels : H = HeadOf(l) /\ Rank(H) < Rank(l)
          BY <4>2, RankFacts
        <5>2. Rank(H) \in Nat /\ Rank(l) \in Nat
          BY RankFacts
        <5>3. Rank(H) # n
          BY <2>2, <2>5, <5>1, <5>2
        <5>4. f[H] = g[H]
          BY <2>3, <5>3
        <5> QED
          BY <5>1, <5>4 DEF NestAt
      <4> QED
        BY <4>1, <4>2
    <3>2. CASE Rank(l) = n
      BY <2>3, <3>1, <3>2
    <3>3. CASE Rank(l) # n
      <4>1. Rank(l) \in Nat
        BY RankFacts
      <4>2. Rank(l) < n
        BY <2>2, <2>5, <3>3, <4>1
      <4>3. f[l] = NestAt(f, l)
        BY <2>1, <4>2
      <4> QED
        BY <2>3, <3>1, <3>3, <4>3
    <3> QED
      BY <3>2, <3>3
  <2>6. Upto(g, n + 1)
    BY <2>4, <2>5
  <2> HIDE DEF Upto
  <2> QED
    BY <2>2, <2>6
<1>3. T = Nat
  <2>1. T \subseteq Nat
    OBVIOUS
  <2> HIDE DEF T
  <2> QED
    BY <1>1, <1>2, <2>1, SetInduction
<1>4. PICK f : Upto(f, DFN_INF + 2)
  <2>1. DFN_INF + 2 \in Nat
    BY DfnAssumption
  <2> HIDE DEF Upto
  <2> QED
    BY <1>3, <2>1
<1>5. \A l \in Labels : f[l] = NestAt(f, l)
  BY <1>4, RankFacts
<1>6. f = [l \in Labels |-> NestAt(f, l)]
  BY <1>4, <1>5
<1> QED
  BY <1>6 DEF IsNesting

(* The nesting lists the cycles around a label, innermost first. *)
LEMMA NestingLists ==
  ASSUME BuilderInv, NEW m, PlacedInv(m), PointerInv, WtoDone, NEW f, IsNesting(f), NEW l \in Labels
  PROVE  /\ f[l] \in Seq(Labels)
         /\ ToSet(f[l]) = {c \in Labels : l \in m[c] /\ c # l}
         /\ \A i, j \in DOMAIN f[l] : i < j => f[l][i] \in m[f[l][j]]
<1> DEFINE Lists(k) == /\ f[k] \in Seq(Labels)
                       /\ ToSet(f[k]) = {c \in Labels : k \in m[c] /\ c # k}
                       /\ \A i, j \in DOMAIN f[k] : i < j => f[k][i] \in m[f[k][j]]
           T == {Rank(k) : k \in {d \in Labels : ~Lists(d)}}
<1>0. NoCycle \notin Labels
  BY SentinelAssumption
<1>1. ASSUME NEW k \in Labels, HeadOf(k) # NoCycle => Lists(HeadOf(k))
      PROVE  Lists(k)
  <2>1. f[k] = NestAt(f, k)
    BY DEF IsNesting
  <2>2. CASE HeadOf(k) = NoCycle
    <3>1. f[k] = <<>>
      BY <2>1, <2>2 DEF NestAt
    <3>2. <<>> \in Seq(Labels) /\ DOMAIN <<>> = {} /\ ToSet(<<>>) = {}
      BY DEF ToSet
    <3>3. \A c \in Labels : ~(k \in m[c] /\ c # k)
      BY <1>0, <2>2, CyclesAround
    <3> QED
      BY <3>1, <3>2, <3>3
  <2>3. CASE HeadOf(k) # NoCycle
    <3>1. PICK H \in Labels : H = HeadOf(k)
      BY <2>3, RankFacts
    <3>2. PICK s \in Seq(Labels) : s = f[H]
      BY <1>1, <2>3, <3>1
    <3>3. /\ ToSet(s) = {c \in Labels : H \in m[c] /\ c # H}
          /\ \A i, j \in DOMAIN s : i < j => s[i] \in m[s[j]]
      BY <1>1, <2>3, <3>1, <3>2
    <3>4. PICK t : t = f[k]
      OBVIOUS
    <3>5. t = <<H>> \o s
      BY <2>1, <2>3, <3>1, <3>2, <3>4 DEF NestAt
    <3>6. PICK n : n = Len(s)
      OBVIOUS
    <3>7. /\ t \in Seq(Labels) /\ n \in Nat /\ DOMAIN s = 1 .. n /\ DOMAIN t = 1 .. n + 1
          /\ t[1] = H /\ \A i \in 2 .. n + 1 : t[i] = s[i - 1] /\ i - 1 \in 1 .. n
      BY <3>5, <3>6
    <3>8. \A x : x \in ToSet(t) <=> x = H \/ x \in ToSet(s)
      <4>1. <<H>> \in Seq(Labels) /\ DOMAIN <<H>> = {1} /\ <<H>>[1] = H
        OBVIOUS
      <4>2. ToSet(<<H>>) = {H}
        BY <4>1 DEF ToSet
      <4>3. \A x : x \in ToSet(<<H>> \o s) <=> x \in ToSet(<<H>>) \/ x \in ToSet(s)
        BY <4>1, ConcatMembers
      <4> QED
        BY <3>5, <4>2, <4>3
    <3>9. /\ containing[H] = H /\ H # k /\ H \in m[H]
          /\ containing[k] = k => headDfn[H] < headDfn[k]
      BY <3>1, HeadFacts
    <3>10. H \notin m[k]
      <4> SUFFICES ASSUME H \in m[k] PROVE FALSE
        OBVIOUS
      <4>1. containing[k] = k
        BY HeadFacts
      <4>2. headDfn[k] < headDfn[H]
        BY <3>9, NestedMembers
      <4>3. headDfn[k] \in Nat /\ headDfn[H] \in Nat
        BY DfnAssumption DEF BuilderInv, NumberTypes
      <4> QED
        BY <3>9, <4>1, <4>2, <4>3
    <3>11. \A c \in Labels : c # k => (k \in m[c] <=> H \in m[c])
      BY <3>1, CyclesAround
    <3>12. ToSet(t) = {c \in Labels : k \in m[c] /\ c # k}
      BY <3>3, <3>8, <3>9, <3>10, <3>11
    <3>13. ASSUME NEW i \in 1 .. n + 1, NEW j \in 1 .. n + 1, i < j
           PROVE  t[i] \in m[t[j]]
      <4>1. j \in 2 .. n + 1 /\ t[j] = s[j - 1] /\ j - 1 \in 1 .. n
        BY <3>7, <3>13
      <4>2. CASE i = 1
        <5>1. t[j] \in ToSet(s)
          BY <3>7, <4>1 DEF ToSet
        <5> QED
          BY <3>3, <3>7, <4>2, <5>1
      <4>3. CASE i # 1
        <5>1. t[i] = s[i - 1] /\ i - 1 \in 1 .. n /\ i - 1 < j - 1
          BY <3>7, <3>13, <4>3
        <5> QED
          BY <3>3, <3>7, <4>1, <5>1
      <4> QED
        BY <4>2, <4>3
    <3> QED
      BY <3>4, <3>7, <3>12, <3>13
  <2> QED
    BY <2>2, <2>3
<1> HIDE DEF Lists
<1>2. T = {}
  <2> SUFFICES ASSUME T # {} PROVE FALSE
    OBVIOUS
  <2>1. T \subseteq Nat
    BY RankFacts
  <2>2. PICK n \in T : \A k \in T : n <= k
    <3> HIDE DEF T
    <3> QED BY <2>1, LeastNatural
  <2>3. PICK k \in Labels : ~Lists(k) /\ n = Rank(k)
    BY <2>2
  <2>4. HeadOf(k) # NoCycle /\ ~Lists(HeadOf(k))
    BY <1>1, <2>3
  <2>5. PICK H \in Labels : H = HeadOf(k) /\ Rank(H) < Rank(k) /\ Rank(H) \in T
    BY <2>4, RankFacts
  <2>6. Rank(H) \in Nat /\ Rank(k) \in Nat
    BY RankFacts
  <2> QED
    BY <2>2, <2>3, <2>5, <2>6
<1>3. Lists(l)
  BY <1>2
<1> QED
  BY <1>3 DEF Lists

(* The heads that Wto::nesting collects through the weak pointers of       *)
(* _containing_cycle are the cycles that hold the label in their           *)
(* partitions, innermost first, for every control-flow graph.              *)
THEOREM NestingIsRight == WtoSpec => []NestingMatchesPartitions
<1>1. WtoInit => PointerInv
  BY PointerInvInit
<1>2. BuilderInv /\ PointerInv /\ [WtoNext]_wtoVars => PointerInv'
  <2>1. ASSUME PointerInv, UNCHANGED wtoVars PROVE PointerInv'
    <3>1. UNCHANGED <<dfn, visitStack, components, parentCycle, containing>>
      BY <2>1 DEF wtoVars, builderVars
    <3>2. /\ Tasks' = Tasks /\ \A i, h : IsContinue(i, h)' <=> IsContinue(i, h)
          /\ \A h : Building(h)' <=> Building(h)
      BY <3>1 DEF Tasks, IsContinue, Building
    <3> QED
      BY <2>1, <3>1, <3>2, PointersSame
  <2> QED
    BY <2>1, PointerInvStep DEF WtoNext
<1>3. BuilderInv /\ PointerInv => NestingMatchesPartitions
  <2> SUFFICES ASSUME BuilderInv, PointerInv, WtoDone, NEW l \in ToSet(Flat)
               PROVE  /\ ToSet(nesting[l]) = HeadsAround(l) \ {l}
                      /\ \A i, j \in DOMAIN nesting[l] :
                           i < j => nesting[l][i] \in Members[nesting[l][j]]
    BY DEF NestingMatchesPartitions
  <2>1. PICK m : PlacedInv(m)
    BY DEF BuilderInv
  <2>2. Members = m /\ m \in [Cycles -> SUBSET Labels] /\ NoCycle \in Cycles
    BY <2>1, MembersAre DEF PlacedInv, Ordered, IsMembers, Cycles
  <2>3. l \in Labels
    <3>1. PICK f : IsFlat(f) /\ Flat = f[NoCycle]
      BY FlatIs
    <3>2. ToSet(Flat) = m[NoCycle]
      BY <2>1, <2>2, <3>1, FlatLists
    <3> QED
      BY <2>2, <3>2
  <2>4. IsNesting(nesting)
    <3>1. nesting = CHOOSE f : IsNesting(f)
      BY DEF nesting, IsNesting, NestAt
    <3> QED
      BY <3>1, NestingExists
  <2>5. /\ ToSet(nesting[l]) = {c \in Labels : l \in m[c] /\ c # l}
        /\ \A i, j \in DOMAIN nesting[l] : i < j => nesting[l][i] \in m[nesting[l][j]]
    BY <2>1, <2>3, <2>4, NestingLists
  <2>6. \A c \in Labels : l \in m[c] => components[c] # <<>>
    BY <2>1, HeadFacts
  <2>7. HeadsAround(l) \ {l} = {c \in Labels : l \in m[c] /\ c # l}
    BY <2>2, <2>6 DEF HeadsAround
  <2> QED
    BY <2>2, <2>5, <2>7
<1> QED
  BY <1>1, <1>2, <1>3, BuilderInvariance, PTL DEF WtoSpec


-----------------------------------------------------------------------------
(***************************************************************************)
(* A cycle is a loop.  A settled label gets back to the label that         *)
(* head_dfn names over labels with the same head_dfn.  The labels visited  *)
(* again while a cycle is built are connected through its head, and they   *)
(* are the ones that end in its partition.                                 *)
(***************************************************************************)

(* The numbered labels known to reach the label numbered n, and it. *)
SameLow(n) == {x \in Labels : Numbered(x) /\ (dfn[x] = n \/ headDfn[x] = n)}

(* An edge out of u starts a path to the label numbered n. *)
GoesBack(u, n) ==
  \E c \in children[u], s \in Labels :
    /\ c \in SameLow(n) /\ Numbered(s) /\ dfn[s] = n
    /\ s \in ReachableFrom({c}, SameLow(n))

ReturnInv == \A u \in Labels, n \in Nat : Settled(u) /\ headDfn[u] = n => GoesBack(u, n)

(* Inside Y every label is reached from h and reaches it again. *)
Connected(h, Y) ==
  /\ Y \subseteq ReachableFrom({h}, Y)
  /\ \A l \in Y : \E c \in children[l] \cap Y : h \in ReachableFrom({c}, Y)

(* Y holds the cycles being built inside that of h, and nothing outside. *)
Encloses(m, h, Y) ==
  /\ \A g \in Labels : Building(g) /\ headDfn[h] <= headDfn[g] => g \in Y /\ m[g] \subseteq Y
  /\ \A c \in Cycles : IsOpen(c) /\ (c = NoCycle \/ headDfn[c] < headDfn[h]) =>
       c \notin Y /\ m[c] \cap Y = {}

(* A finished partition ends with its head and is a loop. *)
FinishedLoop(m, h) ==
  components[h] # <<>> /\ ~Building(h) =>
    /\ components[h][Len(components[h])] = [label |-> h, cycle |-> FALSE]
    /\ Connected(h, m[h])

LoopsFrom(m) ==
  /\ PlacedInv(m)
  /\ \A i \in Tasks, h \in Labels : IsContinue(i, h) =>
       \E Y \in SUBSET Labels : Region(i, h, Y) /\ Connected(h, Y) /\ Encloses(m, h, Y)
  /\ \A h \in Labels : FinishedLoop(m, h)

ConnectInv == ReturnInv /\ \E m : LoopsFrom(m)

LEMMA ReachFacts ==
  ASSUME NEW W, NEW a \in Labels
  PROVE  /\ a \in ReachableFrom({a}, W)
         /\ \A b \in children[a] \cap W : \A t \in ReachableFrom({b}, W) : t \in ReachableFrom({a}, W)
         /\ \A s \in ReachableFrom({a}, W) : \A t \in ReachableFrom({s}, W) :
              t \in ReachableFrom({a}, W)
         /\ \A V : W \subseteq V => ReachableFrom({a}, W) \subseteq ReachableFrom({a}, V)
<1>1. a \in ReachableFrom({a}, W)
  BY DEF ReachableFrom
<1>2. ASSUME NEW b \in children[a] \cap W, NEW t \in ReachableFrom({b}, W)
      PROVE  t \in ReachableFrom({a}, W)
  <2>1. ASSUME NEW C \in SUBSET Labels, {a} \subseteq C, \A u \in C : children[u] \cap W \subseteq C
        PROVE  t \in C
    <3>1. {b} \subseteq C
      BY <1>2, <2>1
    <3> QED
      BY <1>2, <2>1, <3>1 DEF ReachableFrom
  <2>2. t \in Labels
    BY <1>2 DEF ReachableFrom
  <2> QED
    BY <2>1, <2>2 DEF ReachableFrom
<1>3. ASSUME NEW s \in ReachableFrom({a}, W), NEW t \in ReachableFrom({s}, W)
      PROVE  t \in ReachableFrom({a}, W)
  <2>1. ASSUME NEW C \in SUBSET Labels, {a} \subseteq C, \A u \in C : children[u] \cap W \subseteq C
        PROVE  t \in C
    <3>1. {s} \subseteq C
      BY <1>3, <2>1 DEF ReachableFrom
    <3> QED
      BY <1>3, <2>1, <3>1 DEF ReachableFrom
  <2>2. t \in Labels
    BY <1>3 DEF ReachableFrom
  <2> QED
    BY <2>1, <2>2 DEF ReachableFrom
<1>4. ASSUME NEW V, W \subseteq V, NEW t \in ReachableFrom({a}, W)
      PROVE  t \in ReachableFrom({a}, V)
  <2>1. ASSUME NEW C \in SUBSET Labels, {a} \subseteq C, \A u \in C : children[u] \cap V \subseteq C
        PROVE  t \in C
    <3>1. \A u \in C : children[u] \cap W \subseteq C
      BY <1>4, <2>1
    <3> QED
      BY <1>4, <2>1, <3>1 DEF ReachableFrom
  <2>2. t \in Labels
    BY <1>4 DEF ReachableFrom
  <2> QED
    BY <2>1, <2>2 DEF ReachableFrom
<1> QED
  BY <1>1, <1>2, <1>3, <1>4

LEMMA GoesBackSame ==
  ASSUME children' = children, \A l \in Labels : children[l] \in SUBSET Labels,
         NEW u \in Labels, NEW n \in Nat, GoesBack(u, n),
         \A x \in SameLow(n) : x \in SameLow(n)' /\ dfn'[x] = dfn[x] /\ Numbered(x)'
  PROVE  GoesBack(u, n)'
<1>1. PICK c \in children[u], s \in Labels :
        /\ c \in SameLow(n) /\ Numbered(s) /\ dfn[s] = n
        /\ s \in ReachableFrom({c}, SameLow(n))
  BY DEF GoesBack
<1>2. PICK W, V : W = SameLow(n) /\ V = SameLow(n)'
  OBVIOUS
<1>3. c \in Labels /\ s \in SameLow(n) /\ W \subseteq V
  BY <1>1, <1>2 DEF SameLow
<1>4. s \in ReachableFrom({c}, V)
  BY <1>1, <1>2, <1>3, ReachFacts
<1>5. c \in SameLow(n)' /\ Numbered(s)' /\ dfn'[s] = n
  BY <1>1, <1>3
<1>6. s \in ReachableFrom({c}, SameLow(n))'
  BY <1>2, <1>4 DEF ReachableFrom
<1> QED
  BY <1>1, <1>5, <1>6 DEF GoesBack

(* Steps after which every settled label was settled before. *)
LEMMA ReturnSame ==
  ASSUME BuilderInv, ReturnInv, children' = children,
         \A u \in Labels : Settled(u)' => Settled(u) /\ headDfn'[u] = headDfn[u],
         \A u, x \in Labels : Settled(u)' /\ x \in SameLow(headDfn[u]) =>
           Numbered(x)' /\ dfn'[x] = dfn[x] /\ (headDfn'[x] = headDfn[x] \/ Pending(x))
  PROVE  ReturnInv'
<1> SUFFICES ASSUME NEW u \in Labels, NEW n \in Nat, Settled(u)', headDfn'[u] = n
             PROVE  GoesBack(u, n)'
  BY DEF ReturnInv
<1>1. Settled(u) /\ headDfn[u] = n /\ n # 0
  BY DEF Settled
<1>2. GoesBack(u, n)
  BY <1>1 DEF ReturnInv
<1>3. ASSUME NEW x \in SameLow(n)
      PROVE  x \in SameLow(n)' /\ dfn'[x] = dfn[x] /\ Numbered(x)'
  <2>1. x \in Labels /\ Numbered(x) /\ (dfn[x] = n \/ headDfn[x] = n)
    BY <1>3 DEF SameLow
  <2>2. Numbered(x)' /\ dfn'[x] = dfn[x] /\ (headDfn'[x] = headDfn[x] \/ Pending(x))
    BY <1>1, <1>3, <2>1
  <2>3. Pending(x) => dfn[x] = n
    BY <1>1, <2>1 DEF Pending
  <2> QED
    BY <2>1, <2>2, <2>3 DEF SameLow
<1>4. \A l \in Labels : children[l] \in SUBSET Labels
  BY GraphFacts DEF BuilderInv
<1> QED
  BY <1>2, <1>3, <1>4, GoesBackSame

LEMMA ReturnInner ==
  ASSUME BuilderInv, ReturnInv, visitStack # <<>>, Top.type = "StartVisit",
         NEW v \in Labels, v = Top.vertex, StartVisitInner(v), UNCHANGED <<children, num>>
  PROVE  ReturnInv'
<1>1. PICK h \in Nat :
        /\ h # 0 /\ h < dfn[v]
        /\ \E c \in children[v] : h = MinDfn(c)
        /\ \A l \in Labels : headDfn'[l] = IF l = v THEN h ELSE headDfn[l]
        /\ \A l \in Labels : Numbered(l)' <=> Numbered(l)
        /\ \A l \in Labels : Settled(l)' <=> Settled(l) \/ l = v
  BY InnerNumbers
<1>2. Pending(v) /\ \A c \in children[v] : c \in Labels /\ dfn[c] # 0
  BY StartOnTop
<1>3. dfn' = dfn /\ children' = children /\ \A l \in Labels : children[l] \in SUBSET Labels
  BY GraphFacts DEF StartVisitInner, BuilderInv
<1>4. ASSUME NEW n \in Nat, n # 0, NEW x \in SameLow(n)
      PROVE  x \in SameLow(n)' /\ dfn'[x] = dfn[x] /\ Numbered(x)'
  <2>1. x \in Labels /\ Numbered(x) /\ (dfn[x] = n \/ headDfn[x] = n)
    BY <1>4 DEF SameLow
  <2>2. x = v => headDfn[x] # n
    BY <1>2, <1>4 DEF Pending
  <2> QED
    BY <1>1, <1>3, <2>1, <2>2 DEF SameLow
<1>5. GoesBack(v, h)
  <2>1. PICK c \in children[v] : h = MinDfn(c)
    BY <1>1
  <2>2. c \in Labels /\ dfn[c] # 0
    BY <1>2
  <2>3. /\ Settled(c) => MinDfn(c) = headDfn[c]
        /\ ~Settled(c) => MinDfn(c) = dfn[c]
    BY <2>2, MinDfnFacts DEF BuilderInv
  <2>4. PICK W : W = SameLow(h)
    OBVIOUS
  <2>5. CASE Settled(c)
    <3>1. headDfn[c] = h /\ c \in W
      BY <2>1, <2>2, <2>3, <2>4, <2>5 DEF SameLow, Settled
    <3>2. GoesBack(c, h)
      BY <2>2, <2>5, <3>1 DEF ReturnInv
    <3>3. PICK d \in children[c], s \in Labels :
            d \in W /\ Numbered(s) /\ dfn[s] = h /\ s \in ReachableFrom({d}, W)
      BY <2>4, <3>2 DEF GoesBack
    <3>4. s \in ReachableFrom({c}, W)
      BY <2>2, <3>3, ReachFacts
    <3> QED
      BY <2>4, <3>1, <3>3, <3>4 DEF GoesBack
  <2>6. CASE ~Settled(c)
    <3>1. dfn[c] = h
      BY <2>1, <2>3, <2>6
    <3>2. Numbered(c)
      <4>1. dfn[v] \in Nat /\ dfn[v] < DFN_INF /\ DFN_INF \in Nat
        BY <1>2, NumberFacts DEF BuilderInv, Pending
      <4> QED
        BY <1>1, <2>2, <3>1, <4>1 DEF Numbered
    <3>3. c \in W
      BY <2>2, <2>4, <3>1, <3>2 DEF SameLow
    <3>4. c \in ReachableFrom({c}, W)
      BY <2>2, ReachFacts
    <3> QED
      BY <2>2, <2>4, <3>1, <3>2, <3>3, <3>4 DEF GoesBack
  <2> QED
    BY <2>5, <2>6
<1>6. ASSUME NEW u \in Labels, NEW n \in Nat, n # 0, GoesBack(u, n)
      PROVE  GoesBack(u, n)'
  <2>1. \A x \in SameLow(n) : x \in SameLow(n)' /\ dfn'[x] = dfn[x] /\ Numbered(x)'
    BY <1>4, <1>6
  <2> QED
    BY <1>3, <1>6, <2>1, GoesBackSame
<1> SUFFICES ASSUME NEW u \in Labels, NEW n \in Nat, Settled(u)', headDfn'[u] = n
             PROVE  GoesBack(u, n)'
  BY DEF ReturnInv
<1>7. n # 0
  BY DEF Settled
<1>8. CASE u = v
  BY <1>1, <1>5, <1>6, <1>8
<1>9. CASE u # v
  <2>1. Settled(u) /\ headDfn[u] = n
    BY <1>1, <1>9
  <2> QED
    BY <1>6, <1>7, <2>1 DEF ReturnInv
<1> QED
  BY <1>8, <1>9

LEMMA ReturnVertex ==
  ASSUME BuilderInv, ReturnInv, visitStack # <<>>, Top.type = "StartVisit",
         NEW v \in Labels, v = Top.vertex, StartVisitVertex(v), UNCHANGED <<children, num>>
  PROVE  ReturnInv'
<1>1. /\ \A l \in Labels : dfn'[l] = IF l = v THEN DFN_INF ELSE dfn[l]
      /\ \A l \in Labels : headDfn'[l] = IF l = v THEN dfn[v] ELSE headDfn[l]
      /\ \A l \in Labels : Numbered(l)' <=> Numbered(l) /\ l # v
      /\ \A l \in Labels : Settled(l)' <=> Settled(l)
  BY VertexNumbers
<1>2. Pending(v) /\ \A u \in Labels : ~(Numbered(u) /\ dfn[v] < dfn[u])
  BY StartOnTop, VertexOnTop DEF StartVisitVertex
<1>3. ASSUME NEW u \in Labels, Settled(u)
      PROVE  u # v /\ v \notin SameLow(headDfn[u])
  <2>1. headDfn[u] < dfn[u] /\ headDfn[u] # 0 /\ Numbered(u)
    BY <1>3 DEF BuilderInv, LowInv, Settled
  <2>2. u # v /\ headDfn[v] # headDfn[u]
    BY <1>2, <1>3, <2>1 DEF Pending, Settled
  <2>3. dfn[v] # headDfn[u]
    BY <1>2, <2>1
  <2> QED
    BY <2>2, <2>3 DEF SameLow
<1>4. \A u \in Labels : Settled(u)' => Settled(u) /\ headDfn'[u] = headDfn[u]
  BY <1>1, <1>3
<1>5. ASSUME NEW u \in Labels, NEW x \in Labels, Settled(u)', x \in SameLow(headDfn[u])
      PROVE  Numbered(x)' /\ dfn'[x] = dfn[x] /\ headDfn'[x] = headDfn[x]
  <2>1. x # v /\ Numbered(x)
    BY <1>3, <1>4, <1>5 DEF SameLow
  <2> QED
    BY <1>1, <2>1
<1> QED
  BY <1>4, <1>5, ReturnSame

LEMMA ReturnCycle ==
  ASSUME BuilderInv, ReturnInv, visitStack # <<>>, Top.type = "StartVisit",
         NEW v \in Labels, v = Top.vertex, StartVisitCycle(v), UNCHANGED <<children, num>>
  PROVE  ReturnInv'
<1>1. /\ \A l \in Labels : Numbered(l)' <=> Numbered(l) /\ dfn[l] < dfn[v]
      /\ \A l \in Labels : Numbered(l) /\ dfn[l] < dfn[v] =>
           l # v /\ dfn'[l] = dfn[l] /\ headDfn'[l] = headDfn[l]
      /\ \A l \in Labels : Settled(l)' <=> Settled(l) /\ dfn[l] < dfn[v]
  BY CycleNumbers
<1>2. /\ \A l \in Labels : dfn[l] \in Nat /\ headDfn[l] \in Nat
      /\ \A k, l \in Labels : Numbered(k) /\ dfn[k] = dfn[l] => k = l
  BY NumberFacts DEF BuilderInv
<1>3. Pending(v)
  BY StartOnTop
<1>4. \A u \in Labels : Numbered(u) /\ dfn[v] < dfn[u] => dfn[v] <= headDfn[u]
  <2>1. \A c \in children[v] : dfn[v] <= MinDfn(c)
    BY DEF StartVisitCycle, IsHeadDfn
  <2> QED
    BY <1>2, <2>1, AboveStays
<1>5. \A u \in Labels : Settled(u)' => Settled(u) /\ headDfn'[u] = headDfn[u] /\ dfn[u] < dfn[v]
  BY <1>1 DEF Settled
<1>6. ASSUME NEW u \in Labels, NEW x \in Labels, Settled(u)', x \in SameLow(headDfn[u])
      PROVE  Numbered(x)' /\ dfn'[x] = dfn[x] /\ headDfn'[x] = headDfn[x]
  <2>1. /\ headDfn[u] < dfn[u] /\ headDfn[u] # 0 /\ dfn[u] < dfn[v]
    BY <1>5, <1>6 DEF BuilderInv, LowInv, Settled
  <2>2. headDfn[u] < dfn[v]
    BY <1>2, <2>1
  <2>3. Numbered(x) /\ (dfn[x] = headDfn[u] \/ headDfn[x] = headDfn[u])
    BY <1>6 DEF SameLow
  <2>4. x # v
    BY <1>3, <2>1, <2>2, <2>3, <1>2 DEF Pending
  <2>5. ~(dfn[v] < dfn[x])
    BY <1>2, <1>4, <2>2, <2>3
  <2>6. dfn[x] < dfn[v]
    BY <1>2, <2>3, <2>4, <2>5
  <2> QED
    BY <1>1, <2>3, <2>6
<1> QED
  BY <1>5, <1>6, ReturnSame

LEMMA ReturnPush ==
  ASSUME BuilderInv, ReturnInv, NEW v \in Labels, PushSuccessors(v)
  PROVE  ReturnInv'
<1>1. headDfn' = headDfn /\ children' = children
  BY DEF PushSuccessors
<1>2. CASE dfn[v] # 0
  <2>1. dfn' = dfn
    BY <1>2 DEF PushSuccessors
  <2> QED
    BY <1>1, <2>1, ReturnSame DEF Settled, Numbered, SameLow
<1>3. CASE dfn[v] = 0
  <2>1. NumberAdded(v)
    BY <1>3, NewNumber DEF PushSuccessors, NextNumber
  <2>2. ASSUME NEW x \in Labels, Numbered(x)
        PROVE  Numbered(x)' /\ dfn'[x] = dfn[x]
    BY <2>1, <2>2 DEF NumberAdded
  <2>3. \A u \in Labels : Settled(u)' => Settled(u)
    BY <2>1 DEF NumberAdded
  <2> QED
    BY <1>1, <2>2, <2>3, ReturnSame DEF SameLow
<1> QED
  BY <1>2, <1>3

(* What a new cycle will hold is connected through its head. *)
LEMMA CycleConnected ==
  ASSUME BuilderInv, ReturnInv, visitStack # <<>>, Top.type = "StartVisit",
         NEW v \in Labels, v = Top.vertex, StartVisitCycle(v), NEW Y \in SUBSET Labels,
         \A z \in Labels : z \in Y <=> z = v \/ (Numbered(z) /\ dfn[v] < dfn[z])
  PROVE  Connected(v, Y)
<1>1. /\ Pending(v) /\ Numbered(v)
      /\ \A c \in children[v] : c \in Labels /\ dfn[c] # 0
      /\ \A h \in Labels : Building(h) => headDfn[h] < dfn[v]
      /\ \A u \in Labels : Numbered(u) /\ dfn[v] < dfn[u] => Settled(u)
  BY StartOnTop DEF Pending
<1>2. /\ \A l \in Labels : dfn[l] \in Nat /\ headDfn[l] \in Nat
      /\ \A k, l \in Labels : Numbered(k) /\ dfn[k] = dfn[l] => k = l
  BY NumberFacts DEF BuilderInv
<1>3. \A c \in children[v] : dfn[v] <= MinDfn(c)
  BY DEF StartVisitCycle, IsHeadDfn
<1>4. \A u \in Labels : Numbered(u) /\ dfn[v] < dfn[u] => dfn[v] <= headDfn[u]
  BY <1>2, <1>3, AboveStays
<1>y. \A z \in Labels : Numbered(z) /\ dfn[v] <= dfn[z] => z \in Y
  BY <1>1, <1>2
<1>5. ASSUME NEW C \in SUBSET Labels, {v} \subseteq C, \A u \in C : children[u] \cap Y \subseteq C
      PROVE  Y \subseteq C
  <2> DEFINE T == {dfn[u] : u \in {l \in Labels : l \in Y /\ l \notin C}}
  <2> SUFFICES ASSUME T # {} PROVE FALSE
    OBVIOUS
  <2>1. T \subseteq Nat
    BY <1>2
  <2>2. PICK n \in T : \A k \in T : n <= k
    <3> HIDE DEF T
    <3> QED BY <2>1, LeastNatural
  <2>3. PICK u \in Labels : u \in Y /\ u \notin C /\ dfn[u] = n
    BY <2>2
  <2>4. \A w \in Labels : w \in Y /\ dfn[w] < dfn[u] => w \in C
    <3> SUFFICES ASSUME NEW w \in Labels, w \in Y, w \notin C
                 PROVE  ~(dfn[w] < dfn[u])
      OBVIOUS
    <3>1. dfn[w] \in T
      OBVIOUS
    <3>2. n <= dfn[w] /\ n \in Nat /\ dfn[w] \in Nat
      BY <2>1, <2>2, <3>1
    <3> QED
      BY <2>3, <3>2
  <2> HIDE DEF T
  <2>5. Numbered(u) /\ dfn[v] < dfn[u]
    BY <1>5, <2>3
  <2>6. PICK w \in Labels : Numbered(w) /\ dfn[v] <= dfn[w] /\ dfn[w] < dfn[u] /\ u \in children[w]
    <3>1. \A h \in Labels : Building(h) => ~(dfn[v] < headDfn[h] /\ headDfn[h] < dfn[u])
      BY <1>1, <1>2
    <3>2. TreeInv
      BY DEF BuilderInv
    <3> QED
      BY <1>1, <2>5, <3>1, <3>2 DEF TreeInv
  <2>7. w \in C
    BY <1>y, <2>4, <2>6
  <2> QED
    BY <1>5, <2>3, <2>6, <2>7
<1>6. Y \subseteq ReachableFrom({v}, Y)
  <2> SUFFICES ASSUME NEW z \in Y
               PROVE  z \in ReachableFrom({v}, Y)
    OBVIOUS
  <2> QED
    BY <1>5 DEF ReachableFrom
<1>7. ASSUME NEW u \in Labels, u \in Y, u # v
      PROVE  \E c \in children[u] \cap Y, s \in Y : dfn[s] < dfn[u] /\ s \in ReachableFrom({c}, Y)
  <2>1. Settled(u) /\ Numbered(u) /\ dfn[v] <= headDfn[u] /\ headDfn[u] < dfn[u]
    BY <1>1, <1>4, <1>7 DEF BuilderInv, LowInv
  <2>n. PICK n \in Nat : n = headDfn[u]
    BY <1>2
  <2>w. PICK W : W = SameLow(n)
    OBVIOUS
  <2>2. n = headDfn[u] /\ W = SameLow(n)
    BY <2>n, <2>w
  <2>3. PICK c \in children[u], s \in Labels :
          c \in W /\ Numbered(s) /\ dfn[s] = n /\ s \in ReachableFrom({c}, W)
    BY <2>1, <2>2 DEF ReturnInv, GoesBack
  <2>4. W \subseteq Y
    <3> SUFFICES ASSUME NEW x \in W
                 PROVE  x \in Y
      OBVIOUS
    <3>1. x \in Labels /\ Numbered(x) /\ (dfn[x] = n \/ headDfn[x] = n)
      BY <2>2 DEF SameLow
    <3>2. CASE dfn[x] = n
      BY <1>y, <2>1, <2>2, <3>1, <3>2
    <3>3. CASE headDfn[x] = n
      <4>1. n # 0
        BY <2>1, <2>2 DEF Settled
      <4>2. Settled(x)
        BY <3>1, <3>3, <4>1 DEF Settled
      <4>3. headDfn[x] < dfn[x]
        BY <3>1, <4>2 DEF BuilderInv, LowInv
      <4>4. dfn[v] <= dfn[x]
        BY <1>2, <2>1, <2>2, <3>1, <3>3, <4>3
      <4> QED
        BY <1>y, <3>1, <4>4
    <3> QED
      BY <3>1, <3>2, <3>3
  <2>5. s \in Y
    BY <1>y, <2>1, <2>2, <2>3
  <2>6. c \in Y /\ c \in Labels
    BY <2>3, <2>4
  <2>7. s \in ReachableFrom({c}, Y)
    BY <2>3, <2>4, <2>6, ReachFacts
  <2>8. dfn[s] < dfn[u]
    BY <2>1, <2>2, <2>3
  <2> QED
    BY <2>3, <2>5, <2>6, <2>7, <2>8
<1>8. ASSUME NEW a \in Labels, a \in Y
      PROVE  v \in ReachableFrom({a}, Y)
  <2>0. PICK B : B = {l \in Labels : l \in Y /\ v \notin ReachableFrom({l}, Y)}
    OBVIOUS
  <2>b. \A l : l \in B <=> l \in Labels /\ l \in Y /\ v \notin ReachableFrom({l}, Y)
    BY <2>0
  <2> DEFINE T == {dfn[u] : u \in B}
  <2> SUFFICES ASSUME T # {} PROVE FALSE
    BY <1>8, <2>b
  <2>c. B \subseteq Labels
    BY <2>b
  <2>1. T \subseteq Nat
    BY <1>2, <2>c
  <2>2. PICK n \in T : \A k \in T : n <= k
    <3> HIDE DEF T
    <3> QED BY <2>1, LeastNatural
  <2>3. PICK u \in Labels : u \in Y /\ v \notin ReachableFrom({u}, Y) /\ dfn[u] = n
    BY <2>2, <2>b
  <2>4. \A w \in Labels : w \in Y /\ dfn[w] < dfn[u] => v \in ReachableFrom({w}, Y)
    <3> SUFFICES ASSUME NEW w \in Labels, w \in Y, v \notin ReachableFrom({w}, Y)
                 PROVE  ~(dfn[w] < dfn[u])
      OBVIOUS
    <3>1. dfn[w] \in T
      BY <2>b
    <3>2. n <= dfn[w] /\ n \in Nat /\ dfn[w] \in Nat
      BY <2>1, <2>2, <3>1
    <3> QED
      BY <2>3, <3>2
  <2> HIDE DEF T
  <2>5. u # v
    BY <2>3, ReachFacts
  <2>6. PICK c \in children[u] \cap Y, s \in Y : dfn[s] < dfn[u] /\ s \in ReachableFrom({c}, Y)
    BY <1>7, <2>3, <2>5
  <2>7. v \in ReachableFrom({s}, Y)
    BY <2>4, <2>6
  <2>8. v \in ReachableFrom({c}, Y)
    BY <2>6, <2>7, ReachFacts
  <2>9. v \in ReachableFrom({u}, Y)
    BY <2>6, <2>8, ReachFacts
  <2> QED
    BY <2>3, <2>9
<1>9. ASSUME NEW l \in Y
      PROVE  \E c \in children[l] \cap Y : v \in ReachableFrom({c}, Y)
  <2>1. CASE l # v
    <3>1. PICK c \in children[l] \cap Y, s \in Y : s \in ReachableFrom({c}, Y)
      BY <1>7, <2>1
    <3> QED
      BY <1>8, <3>1
  <2>2. CASE l = v
    <3>1. PICK c \in children[v] : MinDfn(c) <= dfn[v]
      BY DEF StartVisitCycle, IsLoop
    <3>2. c \in Labels /\ dfn[c] # 0 /\ dfn[v] <= MinDfn(c)
      BY <1>1, <1>3
    <3>3. /\ MinDfn(c) \in Nat
          /\ Settled(c) => MinDfn(c) = headDfn[c]
          /\ ~Settled(c) => MinDfn(c) = dfn[c]
      BY <3>2, MinDfnFacts DEF BuilderInv
    <3>4. MinDfn(c) = dfn[v]
      BY <1>2, <3>1, <3>2, <3>3
    <3>5. c \in Y
      <4>1. CASE Settled(c)
        <5>1. headDfn[c] < dfn[c] /\ Numbered(c)
          BY <3>2, <4>1 DEF BuilderInv, LowInv, Settled
        <5> QED
          BY <3>2, <3>3, <3>4, <4>1, <5>1
      <4>2. CASE ~Settled(c)
        BY <1>1, <1>2, <3>2, <3>3, <3>4, <4>2
      <4> QED
        BY <4>1, <4>2
    <3> QED
      BY <1>8, <2>2, <3>1, <3>2, <3>5
  <2> QED
    BY <2>1, <2>2
<1> QED
  BY <1>6, <1>9 DEF Connected

(* Steps that leave the partitions and the cycles being built alone. *)
LEMMA LoopsSame ==
  ASSUME BuilderInv, NEW m, LoopsFrom(m), components' = components, children' = children,
         \A l \in Labels : dfn'[l] = DFN_INF <=> dfn[l] = DFN_INF,
         \A l \in Labels : Building(l)' <=> Building(l),
         \A l \in Labels : dfn[l] = DFN_INF => headDfn'[l] = headDfn[l],
         \A i \in Tasks', h \in Labels : IsContinue(i, h)' => i \in Tasks /\ IsContinue(i, h),
         \A i \in Tasks', h \in Labels, Y \in SUBSET Labels :
           IsContinue(i, h)' /\ Region(i, h, Y) => Region(i, h, Y)'
  PROVE  LoopsFrom(m)'
<1>1. PlacedInv(m)'
  BY PlacedSame DEF LoopsFrom
<1>2. ASSUME NEW h, NEW Y, Connected(h, Y)
      PROVE  Connected(h, Y)'
  BY <1>2 DEF Connected, ReachableFrom
<1>3. ASSUME NEW h \in Labels, Building(h), NEW Y \in SUBSET Labels, Encloses(m, h, Y)
      PROVE  Encloses(m, h, Y)'
  <2>1. \A g \in Labels : Building(g) => headDfn'[g] = headDfn[g]
    BY BuildingFacts
  <2>2. \A c \in Cycles : IsOpen(c)' =>
          IsOpen(c) /\ (c = NoCycle \/ (c \in Labels /\ headDfn'[c] = headDfn[c]))
    BY <2>1 DEF IsOpen, Cycles
  <2>3. headDfn'[h] = headDfn[h]
    BY <1>3, <2>1
  <2>4. ASSUME NEW g \in Labels, Building(g)', headDfn'[h] <= headDfn'[g]
        PROVE  g \in Y /\ m[g] \subseteq Y
    BY <1>3, <2>1, <2>3, <2>4 DEF Encloses
  <2>5. ASSUME NEW c \in Cycles, IsOpen(c)', c = NoCycle \/ headDfn'[c] < headDfn'[h]
        PROVE  c \notin Y /\ m[c] \cap Y = {}
    BY <1>3, <2>2, <2>3, <2>5 DEF Encloses
  <2> QED
    BY <2>4, <2>5 DEF Encloses
<1>4. ASSUME NEW i \in Tasks', NEW h \in Labels, IsContinue(i, h)'
      PROVE  \E Y \in SUBSET Labels : Region(i, h, Y)' /\ Connected(h, Y)' /\ Encloses(m, h, Y)'
  <2>1. i \in Tasks /\ IsContinue(i, h) /\ Building(h)
    BY <1>4 DEF Building
  <2>2. PICK Y \in SUBSET Labels : Region(i, h, Y) /\ Connected(h, Y) /\ Encloses(m, h, Y)
    BY <2>1 DEF LoopsFrom
  <2> QED
    BY <1>2, <1>3, <1>4, <2>1, <2>2
<1>5. ASSUME NEW h \in Labels
      PROVE  FinishedLoop(m, h)'
  <2>1. FinishedLoop(m, h)
    BY DEF LoopsFrom
  <2>2. Connected(h, m[h]) => Connected(h, m[h])'
    BY <1>2
  <2> QED
    BY <2>1, <2>2 DEF FinishedLoop
<1> QED
  BY <1>1, <1>4, <1>5 DEF LoopsFrom

LEMMA LoopsPush ==
  ASSUME BuilderInv, BuilderTypes', NEW v \in Labels, PushSuccessors(v), NEW m, LoopsFrom(m)
  PROVE  LoopsFrom(m)'
<1>0. /\ visitStack # <<>> /\ Top.type = "PushSuccessors" /\ v \in Top.todo
      /\ components' = components /\ children' = children /\ headDfn' = headDfn
  BY DEF PushSuccessors
<1>L. PICK L : L = Len(visitStack)
  OBVIOUS
<1>1. CASE dfn[v] # 0
  <2>1. dfn' = dfn /\ visitStack' = PopSuccessor(v)
    BY <1>1 DEF PushSuccessors
  <2>2. \A i \in Tasks', h \in Labels, Y \in SUBSET Labels :
          IsContinue(i, h)' /\ Region(i, h, Y) => Region(i, h, Y)'
    BY <1>1, PassStep
  <2>3. PICK w : w = PopSuccessor(v)
    OBVIOUS
  <2>4. /\ Len(w) \in Nat /\ L \in Nat /\ (Len(w) = L - 1 \/ Len(w) = L)
        /\ \A i \in Tasks : i \in Int /\ i <= L /\ visitStack[i] \in Task
    BY <1>0, <1>L, <2>3, PopSuccessorFacts
  <2>5. Len(visitStack') \in Nat /\ Len(w) <= Len(visitStack') /\ \A i \in 1 .. Len(w) : visitStack'[i] = w[i]
    BY <2>1, <2>3, <2>4
  <2>6. /\ \A i \in Tasks : i <= Len(w) => i \in Tasks' /\ \A l : IsContinue(i, l)' <=> IsContinue(i, l)
        /\ \A i \in Tasks : ~IsPush(i) => i < L /\ i <= Len(w)
    BY <1>0, <1>L, <2>3, <2>5, KeptTasks
  <2>7. \A i \in Tasks' : i \in Tasks /\ i <= Len(w)
    <3>1. Len(visitStack') = Len(w)
      BY <2>1, <2>3
    <3> QED
      BY <1>L, <2>4, <3>1 DEF Tasks
  <2>8. \A i \in Tasks', h \in Labels : IsContinue(i, h)' => i \in Tasks /\ IsContinue(i, h)
    BY <2>6, <2>7
  <2>9. \A l \in Labels : Building(l)' <=> Building(l)
    <3>1. \A i \in Tasks : \A l : IsContinue(i, l) => ~IsPush(i)
      BY DEF IsContinue, IsPush
    <3> QED
      BY <2>6, <2>8, <3>1 DEF Building
  <2> QED
    BY <1>0, <2>1, <2>2, <2>8, <2>9, LoopsSame
<1>2. CASE dfn[v] = 0
  <2>1. \A l \in Labels : dfn'[l] = DFN_INF <=> dfn[l] = DFN_INF
    BY <1>2, NewNumber DEF PushSuccessors, NextNumber, NumberAdded
  <2>2. \A i \in Tasks', h \in Labels, Y \in SUBSET Labels :
          IsContinue(i, h)' /\ Region(i, h, Y) => Region(i, h, Y)'
    BY <1>2, NewRegions
  <2>3. \A l \in Labels : Building(l)' <=> Building(l)
    BY <1>2, NewBuilding
  <2>4. PICK S \in SUBSET Labels :
          visitStack' = PushTasks(Append(PopSuccessor(v), VisitTask("StartVisit", v, Top.partition)),
                                  S, Top.partition)
    BY <1>2, NewPushed
  <2>5. PICK k \in Nat : NewTop(L, k, v, S)
    BY <1>0, <1>L, <2>4, NewTasks
  <2>6. ASSUME NEW i \in Tasks', NEW h \in Labels, IsContinue(i, h)'
        PROVE  i \in Tasks /\ IsContinue(i, h)
    <3>1. ~IsPush(i)'
      BY <2>6 DEF IsContinue, IsPush
    <3> QED
      BY <2>5, <2>6, <3>1 DEF NewTop
  <2> QED
    BY <1>0, <2>1, <2>2, <2>3, <2>6, LoopsSame
<1> QED
  BY <1>1, <1>2

LEMMA LoopsInner ==
  ASSUME BuilderInv, visitStack # <<>>, Top.type = "StartVisit",
         NEW v \in Labels, v = Top.vertex, StartVisitInner(v), UNCHANGED <<children, num>>,
         NEW m, LoopsFrom(m)
  PROVE  LoopsFrom(m)'
<1>1. PICK h \in Nat :
        /\ \A l \in Labels : headDfn'[l] = IF l = v THEN h ELSE headDfn[l]
        /\ \A l \in Labels : Pending(l)' <=> Pending(l) /\ l # v
        /\ \A l \in Labels : Building(l)' <=> Building(l)
  BY InnerNumbers
<1>2. dfn' = dfn /\ visitStack' = Below /\ components' = components
  BY DEF StartVisitInner
<1>3. Pending(v) /\ dfn[v] # DFN_INF
  BY StartOnTop DEF Pending, Numbered
<1>4. \A l \in Labels : dfn[l] = DFN_INF => headDfn'[l] = headDfn[l]
  BY <1>1, <1>3
<1>5. ~IsPush(Len(visitStack)) /\ \A l : IsStart(Len(visitStack), l) <=> l = v
  BY DEF IsPush, IsStart, Top
<1>6. /\ \A i \in Tasks' : i \in Tasks
      /\ \A i \in Tasks' : \A l : IsContinue(i, l)' <=> IsContinue(i, l)
  BY <1>2, VisitPopTasks DEF BuilderInv
<1>7. \A i \in Tasks', g \in Labels, Y \in SUBSET Labels :
        IsContinue(i, g) /\ Region(i, g, Y) => Region(i, g, Y)'
  BY <1>1, <1>2, <1>4, <1>5, PopKeeps
<1> QED
  BY <1>1, <1>2, <1>4, <1>6, <1>7, LoopsSame

LEMMA LoopsVertex ==
  ASSUME BuilderInv, visitStack # <<>>, Top.type = "StartVisit",
         NEW v \in Labels, v = Top.vertex, StartVisitVertex(v), UNCHANGED <<children, num>>,
         NEW m, LoopsFrom(m)
  PROVE  \E m2 : LoopsFrom(m2)'
<1>1. /\ \A l \in Labels : dfn'[l] = IF l = v THEN DFN_INF ELSE dfn[l]
      /\ \A l \in Labels : headDfn'[l] = IF l = v THEN dfn[v] ELSE headDfn[l]
      /\ \A l \in Labels : Pending(l)' <=> Pending(l) /\ l # v
      /\ \A l \in Labels : Building(l)' <=> Building(l)
      /\ \A l \in Labels : Building(l) => l # v
  BY VertexNumbers
<1>2. /\ Pending(v) /\ Numbered(v) /\ dfn[v] # DFN_INF
      /\ \A h \in Labels : Building(h) => headDfn[h] < dfn[v]
  BY StartOnTop DEF Pending, Numbered
<1>3. PICK p \in Cycles :
        /\ p = Top.partition /\ IsOpen(p)
        /\ \A j \in Tasks, h \in Labels : j < Len(visitStack) /\ IsContinue(j, h) =>
             p # NoCycle /\ headDfn[h] <= headDfn[p]
  BY OpenPartition
<1>4. PICK m2 :
        /\ PlacedInv(m2)' /\ m2 \in [Cycles -> SUBSET Labels]
        /\ \A c \in Cycles : m2[c] = IF c = p THEN m[c] \cup {v} ELSE m[c]
  <2>1. PlacedInv(m)
    BY DEF LoopsFrom
  <2>2. PICK m2 :
          /\ PlacedInv(m2)' /\ m2 \in [Cycles -> SUBSET Labels]
          /\ \A c \in Cycles : m2[c] = IF c = Top.partition THEN m[c] \cup {v} ELSE m[c]
    BY <2>1, VertexPlaced
  <2> QED
    BY <1>3, <2>2
<1>5. visitStack' = Below /\ children' = children
  BY DEF StartVisitVertex
<1>6. /\ \A i \in Tasks' : i \in Tasks /\ i # Len(visitStack)
      /\ \A i \in Tasks' : \A l : IsContinue(i, l)' <=> IsContinue(i, l)
  BY <1>5, VisitPopTasks DEF BuilderInv
<1>7. \A i \in Tasks', g \in Labels, Y \in SUBSET Labels :
        IsContinue(i, g) /\ Region(i, g, Y) => Region(i, g, Y)'
  <2>1. ~IsPush(Len(visitStack)) /\ \A l : IsStart(Len(visitStack), l) <=> l = v
    BY DEF IsPush, IsStart, Top
  <2>2. \A l \in Labels : dfn[l] = DFN_INF => headDfn'[l] = headDfn[l]
    BY <1>1, <1>2
  <2>3. \A l \in Labels : dfn'[l] = dfn[l] \/ (dfn'[l] = DFN_INF /\ Numbered(l))
    BY <1>1, <1>2
  <2>4. \A l \in Labels : dfn'[l] # dfn[l] => IsStart(Len(visitStack), l)
    BY <1>1, <2>1
  <2> QED
    BY <1>1, <1>5, <2>1, <2>2, <2>3, <2>4, PopKeeps
<1>8. \A i \in Tasks' : i \in Int /\ i < Len(visitStack)
  BY <1>6, TopTask DEF BuilderInv
<1>9. ASSUME NEW i \in Tasks', NEW h \in Labels, IsContinue(i, h)'
      PROVE  \E Y \in SUBSET Labels : Region(i, h, Y)' /\ Connected(h, Y)' /\ Encloses(m2, h, Y)'
  <2>1. i \in Tasks /\ IsContinue(i, h) /\ Building(h)
    BY <1>6, <1>9 DEF Building
  <2>2. PICK Y \in SUBSET Labels : Region(i, h, Y) /\ Connected(h, Y) /\ Encloses(m, h, Y)
    BY <2>1 DEF LoopsFrom
  <2>3. Connected(h, Y)'
    BY <1>5, <2>2 DEF Connected, ReachableFrom
  <2>4. v \in Y /\ h # v
    BY <1>1, <1>2, <2>1, <2>2 DEF Region
  <2>5. p # NoCycle /\ p \in Labels /\ headDfn[h] <= headDfn[p]
    <3>1. p # NoCycle /\ headDfn[h] <= headDfn[p]
      BY <1>3, <1>8, <2>1
    <3> QED
      BY <3>1 DEF Cycles
  <2>6. ASSUME NEW g \in Labels, Building(g)', headDfn'[h] <= headDfn'[g]
        PROVE  g \in Y /\ m2[g] \subseteq Y
    <3>1. Building(g) /\ headDfn[h] <= headDfn[g]
      BY <1>1, <2>4, <2>6
    <3>2. g \in Y /\ m[g] \subseteq Y
      BY <2>2, <3>1 DEF Encloses
    <3>3. m2[g] = IF g = p THEN m[g] \cup {v} ELSE m[g]
      BY <1>4 DEF Cycles
    <3> QED
      BY <2>4, <3>2, <3>3
  <2>7. ASSUME NEW c \in Cycles, IsOpen(c)', c = NoCycle \/ headDfn'[c] < headDfn'[h]
        PROVE  c \notin Y /\ m2[c] \cap Y = {}
    <3>1. IsOpen(c) /\ (c = NoCycle \/ headDfn[c] < headDfn[h])
      BY <1>1, <2>4, <2>7 DEF IsOpen, Cycles
    <3>2. c # p
      <4>1. headDfn[h] \in Nat /\ headDfn[p] \in Nat
        BY <2>5, NumberFacts DEF BuilderInv
      <4> QED
        BY <2>5, <3>1, <4>1
    <3>3. m2[c] = m[c]
      BY <1>4, <3>2
    <3> QED
      BY <2>2, <3>1, <3>3 DEF Encloses
  <2>8. Encloses(m2, h, Y)'
    BY <2>6, <2>7 DEF Encloses
  <2> QED
    BY <1>7, <1>9, <2>1, <2>2, <2>3, <2>8
<1>10. ASSUME NEW h \in Labels
       PROVE  FinishedLoop(m2, h)'
  <2>1. CASE h = p
    <3>1. Building(h)'
      BY <1>1, <1>3, <2>1, SentinelAssumption DEF IsOpen
    <3> QED
      BY <3>1 DEF FinishedLoop
  <2>2. CASE h # p
    <3>1. components \in [Cycles -> Seq(Component)] /\ h \in Cycles
      BY DEF BuilderInv, BuilderTypes, Cycles
    <3>2. components'[h] = components[h]
      BY <1>3, <2>2, <3>1 DEF StartVisitVertex
    <3>3. m2[h] = m[h]
      BY <1>4, <2>2, <3>1
    <3>4. FinishedLoop(m, h)
      BY DEF LoopsFrom
    <3>5. PICK M : M = m[h]
      OBVIOUS
    <3>6. Connected(h, M) => Connected(h, M)'
      BY <1>5 DEF Connected, ReachableFrom
    <3>7. (components[h] # <<>> /\ ~Building(h)) =>
            components[h][Len(components[h])] = [label |-> h, cycle |-> FALSE] /\ Connected(h, M)
      BY <3>4, <3>5 DEF FinishedLoop
    <3> QED
      BY <1>1, <3>2, <3>3, <3>5, <3>6, <3>7 DEF FinishedLoop
  <2> QED
    BY <2>1, <2>2
<1>11. LoopsFrom(m2)'
  BY <1>4, <1>9, <1>10 DEF LoopsFrom
<1> QED
  BY <1>11

LEMMA LoopsCycle ==
  ASSUME BuilderInv, ReturnInv, visitStack # <<>>, Top.type = "StartVisit",
         NEW v \in Labels, v = Top.vertex, StartVisitCycle(v), UNCHANGED <<children, num>>,
         NEW m, LoopsFrom(m)
  PROVE  LoopsFrom(m)'
<1>1. PICK L : L = Len(visitStack)
  OBVIOUS
<1>2. /\ \A i \in Tasks', h \in Labels, Z \in SUBSET Labels :
           i < L /\ IsContinue(i, h)' /\ Region(i, h, Z) => Region(i, h, Z)'
      /\ \A i \in Tasks', h \in Labels : IsContinue(i, h)' =>
           (i \in Tasks /\ i < L /\ IsContinue(i, h)) \/ (i = L /\ h = v)
      /\ \E Z \in SUBSET Labels :
           /\ \A z \in Labels : z \in Z <=> z = v \/ (Numbered(z) /\ dfn[v] < dfn[z])
           /\ Region(L, v, Z)'
  BY <1>1, CycleRegions
<1>3. /\ Pending(v) /\ Numbered(v) /\ dfn[v] # DFN_INF
      /\ \A h \in Labels : Building(h) => headDfn[h] < dfn[v]
  BY StartOnTop DEF Pending, Numbered
<1>4. /\ \A l \in Labels : dfn[l] = DFN_INF => l # v /\ headDfn'[l] = headDfn[l]
      /\ headDfn'[v] = dfn[v]
  BY CycleNumbers DEF CycleReset
<1>5. \A l \in Labels : Building(l)' <=> Building(l) \/ l = v
  BY CycleBuilding
<1>6. PlacedInv(m) /\ m \in [Cycles -> SUBSET Labels]
  BY DEF LoopsFrom, PlacedInv, Ordered, IsMembers
<1>7. PlacedInv(m)'
  BY <1>6, CyclePlaced
<1>8. components' = components /\ children' = children
  BY DEF StartVisitCycle
<1>9. v \in Cycles /\ m[v] = {}
  <2>1. v \in Cycles /\ v # NoCycle
    BY SentinelAssumption DEF Cycles
  <2>2. components[v] = <<>>
    BY <1>3, <1>6, <2>1 DEF PlacedInv
  <2>3. \A l \in Labels : l \notin m[v]
    BY <1>6, <2>1, <2>2 DEF PlacedInv, Ordered, IsMembers
  <2> QED
    BY <1>6, <2>1, <2>3
<1>n. \A l \in Labels : dfn[l] \in Nat /\ headDfn[l] \in Nat
  BY NumberFacts DEF BuilderInv
<1>b. \A h \in Labels : Building(h) => h # v /\ headDfn'[h] = headDfn[h] /\ dfn[h] = DFN_INF
  BY <1>4, BuildingFacts
<1>o. \A c \in Cycles : IsOpen(c)' =>
        \/ c = NoCycle /\ IsOpen(c)
        \/ c \in Labels /\ c = v
        \/ c \in Labels /\ c # v /\ IsOpen(c) /\ Building(c) /\ headDfn'[c] = headDfn[c]
  BY <1>5, <1>b DEF IsOpen, Cycles
<1>10. ASSUME NEW h \in Labels, Building(h), NEW Y \in SUBSET Labels, v \in Y, Encloses(m, h, Y)
       PROVE  Encloses(m, h, Y)'
  <2>1. headDfn'[h] = headDfn[h] /\ headDfn[h] < dfn[v]
    BY <1>3, <1>10, <1>b
  <2>2. ASSUME NEW g \in Labels, Building(g)', headDfn'[h] <= headDfn'[g]
        PROVE  g \in Y /\ m[g] \subseteq Y
    <3>1. CASE g = v
      BY <1>9, <1>10, <3>1
    <3>2. CASE g # v
      <4>1. Building(g)
        BY <1>5, <2>2, <3>2
      <4> QED
        BY <1>10, <1>b, <2>1, <2>2, <4>1 DEF Encloses
    <3> QED
      BY <3>1, <3>2
  <2>3. ASSUME NEW c \in Cycles, IsOpen(c)', c = NoCycle \/ headDfn'[c] < headDfn'[h]
        PROVE  c \notin Y /\ m[c] \cap Y = {}
    <3>1. c # v \/ c = NoCycle
      BY <1>4, <1>n, <2>1, <2>3
    <3>2. IsOpen(c) /\ (c = NoCycle \/ headDfn[c] < headDfn[h])
      BY <1>o, <2>1, <2>3, <3>1, SentinelAssumption DEF IsOpen
    <3> QED
      BY <1>10, <3>2 DEF Encloses
  <2> QED
    BY <2>2, <2>3 DEF Encloses
<1>11. ASSUME NEW Y \in SUBSET Labels,
              \A z \in Labels : z \in Y <=> z = v \/ (Numbered(z) /\ dfn[v] < dfn[z])
       PROVE  Encloses(m, v, Y)'
  <2>1. ASSUME NEW g \in Labels, Building(g)', headDfn'[v] <= headDfn'[g]
        PROVE  g \in Y /\ m[g] \subseteq Y
    <3>1. g = v
      <4> SUFFICES ASSUME g # v PROVE FALSE
        OBVIOUS
      <4>1. Building(g) /\ headDfn'[g] = headDfn[g] /\ headDfn[g] < dfn[v]
        BY <1>3, <1>5, <1>b, <2>1
      <4> QED
        BY <1>4, <1>n, <2>1, <4>1
    <3> QED
      BY <1>9, <1>11, <3>1
  <2>2. ASSUME NEW c \in Cycles, IsOpen(c)', c = NoCycle \/ headDfn'[c] < headDfn'[v]
        PROVE  c \notin Y /\ m[c] \cap Y = {}
    <3>1. c # v
      BY <1>4, <1>n, <2>2, SentinelAssumption
    <3>2. c = NoCycle \/ (c \in Labels /\ Building(c))
      BY <1>o, <2>2, <3>1
    <3>3. c \notin Y
      BY <1>11, <1>b, <3>1, <3>2, SentinelAssumption DEF Numbered
    <3>4. \A l \in m[c] : l \in Labels /\ dfn[l] = DFN_INF
      BY <1>6 DEF PlacedInv
    <3>5. \A l \in Labels : dfn[l] = DFN_INF => l \notin Y
      BY <1>3, <1>11 DEF Numbered
    <3> QED
      BY <3>3, <3>4, <3>5
  <2> QED
    BY <2>1, <2>2 DEF Encloses
<1>12. ASSUME NEW h, NEW Y, Connected(h, Y)
       PROVE  Connected(h, Y)'
  BY <1>8, <1>12 DEF Connected, ReachableFrom
<1>13. ASSUME NEW i \in Tasks', NEW h \in Labels, IsContinue(i, h)'
       PROVE  \E Y \in SUBSET Labels : Region(i, h, Y)' /\ Connected(h, Y)' /\ Encloses(m, h, Y)'
  <2>1. CASE i \in Tasks /\ i < L /\ IsContinue(i, h)
    <3>1. Building(h)
      BY <2>1 DEF Building
    <3>2. PICK Y \in SUBSET Labels : Region(i, h, Y) /\ Connected(h, Y) /\ Encloses(m, h, Y)
      BY <2>1 DEF LoopsFrom
    <3>3. v \in Y
      BY <1>3, <3>1, <3>2 DEF Region
    <3>4. Region(i, h, Y)'
      BY <1>2, <1>13, <2>1, <3>2
    <3> QED
      BY <1>10, <1>12, <3>1, <3>2, <3>3, <3>4
  <2>2. CASE i = L /\ h = v
    <3>1. PICK Y \in SUBSET Labels :
            /\ \A z \in Labels : z \in Y <=> z = v \/ (Numbered(z) /\ dfn[v] < dfn[z])
            /\ Region(L, v, Y)'
      BY <1>2
    <3>2. Connected(v, Y)
      BY <3>1, CycleConnected
    <3> QED
      BY <1>11, <1>12, <2>2, <3>1, <3>2
  <2> QED
    BY <1>2, <1>13, <2>1, <2>2
<1>14. ASSUME NEW h \in Labels
       PROVE  FinishedLoop(m, h)'
  <2>1. FinishedLoop(m, h)
    BY DEF LoopsFrom
  <2>2. Connected(h, m[h]) => Connected(h, m[h])'
    BY <1>12
  <2> QED
    BY <1>5, <1>8, <2>1, <2>2 DEF FinishedLoop
<1> QED
  BY <1>7, <1>13, <1>14 DEF LoopsFrom

LEMMA LoopsContinue ==
  ASSUME BuilderInv, NEW v \in Labels, ContinueVisit(v), NEW m, LoopsFrom(m)
  PROVE  \E m2 : LoopsFrom(m2)'
<1>1. /\ visitStack # <<>> /\ Top.type = "ContinueVisit" /\ v = Top.vertex
      /\ dfn' = dfn /\ headDfn' = headDfn /\ children' = children /\ num' = num
      /\ visitStack' = Below
  BY DEF ContinueVisit
<1>2. PICK p \in Cycles :
        /\ p = Top.partition /\ p # v /\ IsOpen(p)
        /\ p = NoCycle \/ (p \in Labels /\ Building(p) /\ headDfn[p] < headDfn[v])
        /\ \A g \in Labels : Building(g) => g = v \/ (p # NoCycle /\ headDfn[g] <= headDfn[p])
  BY <1>1, OuterPartition
<1>3. PlacedInv(m) /\ m \in [Cycles -> SUBSET Labels]
  BY DEF LoopsFrom, PlacedInv, Ordered, IsMembers
<1>4. PICK m2 :
        /\ PlacedInv(m2)' /\ m2 \in [Cycles -> SUBSET Labels]
        /\ \A c \in Cycles : m2[c] = IF c = v THEN m[v] \cup {v}
                                     ELSE IF c = p THEN m[c] \cup m[v] \cup {v} ELSE m[c]
  <2>1. PICK m2 :
          /\ PlacedInv(m2)' /\ m2 \in [Cycles -> SUBSET Labels]
          /\ \A c \in Cycles : m2[c] = IF c = v THEN m[v] \cup {v}
                                       ELSE IF c = Top.partition THEN m[c] \cup m[v] \cup {v} ELSE m[c]
    BY <1>3, ContinuePlaced
  <2> QED
    BY <1>2, <2>1
<1>5. \A l \in Labels : Building(l)' <=> Building(l) /\ l # v
  BY ContinueNumbers
<1>6. \A l \in Labels : Pending(l)' <=> Pending(l)
  BY ContinueNumbers
<1>7. /\ dfn[v] = DFN_INF /\ Building(v) /\ v \in Cycles /\ v # NoCycle
      /\ \A c \in children[v] : c \in Labels /\ dfn[c] = DFN_INF
      /\ \A i \in Tasks : IsContinue(i, v) => i = Len(visitStack)
  BY <1>1, ContinueOnTop, SentinelAssumption DEF Cycles
<1>8. /\ \A i \in Tasks' : i \in Tasks /\ i # Len(visitStack)
      /\ \A i \in Tasks' : \A l : IsContinue(i, l)' <=> IsContinue(i, l)
  BY <1>1, VisitPopTasks DEF BuilderInv
<1>9. \A i \in Tasks', g \in Labels, Y \in SUBSET Labels :
        IsContinue(i, g) /\ Region(i, g, Y) => Region(i, g, Y)'
  <2>1. ~IsPush(Len(visitStack)) /\ \A l : ~IsStart(Len(visitStack), l)
    BY <1>1 DEF IsPush, IsStart, Top
  <2>2. \A l \in Labels : dfn'[l] = dfn[l] /\ headDfn'[l] = headDfn[l]
    BY <1>1
  <2> QED
    BY <1>1, <1>6, <2>1, <2>2, PopKeeps
<1>n. \A l \in Labels : headDfn[l] \in Nat
  BY NumberFacts DEF BuilderInv
<1>u. \A c \in Cycles : IsOpen(c) /\ c # v => c = NoCycle \/ headDfn[c] < headDfn[v]
  <2> SUFFICES ASSUME NEW c \in Labels, Building(c), c # v
               PROVE  headDfn[c] < headDfn[v]
    BY DEF IsOpen, Cycles
  <2>1. p # NoCycle /\ headDfn[c] <= headDfn[p] /\ p \in Labels /\ headDfn[p] < headDfn[v]
    BY <1>2
  <2> QED
    BY <1>n, <2>1
<1>10. ASSUME NEW i \in Tasks', NEW h \in Labels, IsContinue(i, h)'
       PROVE  \E Y \in SUBSET Labels : Region(i, h, Y)' /\ Connected(h, Y)' /\ Encloses(m2, h, Y)'
  <2>1. i \in Tasks /\ IsContinue(i, h) /\ Building(h) /\ h # v
    BY <1>7, <1>8, <1>10 DEF Building
  <2>2. PICK Y \in SUBSET Labels : Region(i, h, Y) /\ Connected(h, Y) /\ Encloses(m, h, Y)
    BY <2>1 DEF LoopsFrom
  <2>3. Connected(h, Y)'
    BY <1>1, <2>2 DEF Connected, ReachableFrom
  <2>4. p # NoCycle /\ p \in Labels /\ headDfn[h] <= headDfn[p] /\ headDfn[h] <= headDfn[v]
    <3>1. p # NoCycle /\ p \in Labels /\ headDfn[h] <= headDfn[p] /\ headDfn[p] < headDfn[v]
      BY <1>2, <2>1
    <3> QED
      BY <1>n, <3>1
  <2>5. v \in Y /\ m[v] \subseteq Y
    BY <1>7, <2>2, <2>4 DEF Encloses
  <2>6. ASSUME NEW g \in Labels, Building(g)', headDfn'[h] <= headDfn'[g]
        PROVE  g \in Y /\ m2[g] \subseteq Y
    <3>1. Building(g) /\ g # v /\ headDfn[h] <= headDfn[g] /\ g \in Cycles
      BY <1>1, <1>5, <2>6 DEF Cycles
    <3>2. g \in Y /\ m[g] \subseteq Y
      BY <2>2, <3>1 DEF Encloses
    <3>3. m2[g] = IF g = p THEN m[g] \cup m[v] \cup {v} ELSE m[g]
      BY <1>4, <3>1
    <3> QED
      BY <2>5, <3>2, <3>3
  <2>7. ASSUME NEW c \in Cycles, IsOpen(c)', c = NoCycle \/ headDfn'[c] < headDfn'[h]
        PROVE  c \notin Y /\ m2[c] \cap Y = {}
    <3>1. IsOpen(c) /\ c # v /\ (c = NoCycle \/ headDfn[c] < headDfn[h])
      BY <1>1, <1>5, <1>7, <2>7 DEF IsOpen, Cycles
    <3>2. c # p
      BY <1>n, <2>4, <3>1
    <3>3. m2[c] = m[c]
      BY <1>4, <3>1, <3>2
    <3> QED
      BY <2>2, <3>1, <3>3 DEF Encloses
  <2>8. Encloses(m2, h, Y)'
    BY <2>6, <2>7 DEF Encloses
  <2> QED
    BY <1>9, <1>10, <2>1, <2>2, <2>3, <2>8
<1>11. Connected(v, m[v] \cup {v})
  <2>1. PICK i \in Tasks : IsContinue(i, v)
    BY <1>7 DEF Building
  <2>2. PICK Y \in SUBSET Labels : Region(i, v, Y) /\ Connected(v, Y) /\ Encloses(m, v, Y)
    BY <2>1 DEF LoopsFrom
  <2>3. PICK C \in SUBSET Labels : C = m[v] \cup {v}
    BY <1>3, <1>7
  <2>4. C \subseteq Y
    <3>1. headDfn[v] <= headDfn[v]
      BY <1>n
    <3> QED
      BY <1>7, <2>2, <2>3, <3>1 DEF Encloses
  <2>5. ASSUME NEW u \in C, NEW c \in children[u], c \in Y
        PROVE  c \in C
    <3>1. dfn[c] = DFN_INF /\ c \in Labels
      <4>1. CASE u = v
        BY <1>7, <2>5, <4>1
      <4>2. CASE u \in m[v]
        BY <1>3, <1>7, <2>5, <4>2 DEF PlacedInv
      <4> QED
        BY <2>3, <2>5, <4>1, <4>2
    <3>2. CASE Building(c)
      <4>1. c \in Cycles /\ IsOpen(c)
        BY <3>1, <3>2 DEF Cycles, IsOpen
      <4>2. c # v => c \notin Y
        BY <1>u, <2>2, <4>1 DEF Encloses
      <4> QED
        BY <2>3, <2>5, <4>2
    <3>3. CASE ~Building(c)
      <4>1. PICK b \in Cycles : IsOpen(b) /\ c \in m[b]
        BY <1>3, <3>1, <3>3 DEF PlacedInv
      <4>2. b # v => m[b] \cap Y = {}
        BY <1>u, <2>2, <4>1 DEF Encloses
      <4> QED
        BY <2>3, <2>5, <4>1, <4>2
    <3> QED
      BY <3>2, <3>3
  <2>6. Y \subseteq C
    <3>1. Y \subseteq ReachableFrom({v}, Y)
      BY <2>2 DEF Connected
    <3>2. {v} \subseteq C /\ \A u \in C : children[u] \cap Y \subseteq C
      BY <2>3, <2>5
    <3> QED
      BY <3>1, <3>2 DEF ReachableFrom
  <2>7. C = Y
    BY <2>4, <2>6
  <2> QED
    BY <2>2, <2>3, <2>7
<1>12. ASSUME NEW h \in Labels
       PROVE  FinishedLoop(m2, h)'
  <2>0. components \in [Cycles -> Seq(Component)] /\ h \in Cycles
    BY DEF BuilderInv, BuilderTypes, Cycles
  <2>c. components' = [components EXCEPT ![v] = Append(@, [label |-> v, cycle |-> FALSE]),
                                         ![p] = Append(@, [label |-> v, cycle |-> TRUE])]
    BY <1>2 DEF ContinueVisit
  <2>1. CASE h = v
    <3> DEFINE x == [label |-> v, cycle |-> FALSE]
    <3>1. components'[v] = Append(components[v], x)
      BY <1>2, <1>7, <2>0, <2>c
    <3>2. components'[v][Len(components'[v])] = x
      <4>1. x \in Component /\ components[v] \in Seq(Component)
        BY <1>7, <2>0 DEF Component
      <4>2. Len(components'[v]) = Len(components[v]) + 1
            /\ components'[v][Len(components[v]) + 1] = x
        <5> HIDE DEF x
        <5> QED BY <3>1, <4>1, AppendProperties
      <4> QED
        BY <4>2
    <3>3. m2[v] = m[v] \cup {v}
      BY <1>4, <1>7
    <3>4. PICK M : M = m[v] \cup {v}
      OBVIOUS
    <3>5. Connected(v, M)'
      BY <1>1, <1>11, <3>4 DEF Connected, ReachableFrom
    <3> QED
      BY <2>1, <3>2, <3>3, <3>4, <3>5 DEF FinishedLoop
  <2>2. CASE h = p
    <3>1. Building(h)'
      BY <1>2, <1>5, <2>2, SentinelAssumption DEF IsOpen
    <3> QED
      BY <3>1 DEF FinishedLoop
  <2>3. CASE h # v /\ h # p
    <3>1. components'[h] = components[h]
      BY <1>2, <1>7, <2>0, <2>3, <2>c
    <3>2. m2[h] = m[h]
      BY <1>4, <2>0, <2>3
    <3>3. PICK M : M = m[h]
      OBVIOUS
    <3>4. Connected(h, M) => Connected(h, M)'
      BY <1>1 DEF Connected, ReachableFrom
    <3>5. (components[h] # <<>> /\ ~Building(h)) =>
            components[h][Len(components[h])] = [label |-> h, cycle |-> FALSE] /\ Connected(h, M)
      BY <3>3 DEF LoopsFrom, FinishedLoop
    <3> QED
      BY <1>5, <2>3, <3>1, <3>2, <3>3, <3>4, <3>5 DEF FinishedLoop
  <2> QED
    BY <2>1, <2>2, <2>3
<1>13. LoopsFrom(m2)'
  BY <1>4, <1>10, <1>12 DEF LoopsFrom
<1> QED
  BY <1>13

LEMMA ConnectInvInit == WtoInit => ConnectInv
<1> SUFFICES ASSUME WtoInit
             PROVE  ConnectInv
  OBVIOUS
<1>1. BuilderInv
  BY BuilderInvInit
<1>2. dfn = [l \in Labels |-> 0] /\ components = [c \in Cycles |-> <<>>]
      /\ visitStack = PushTasks(<<>>, {EntryLabel}, NoCycle)
  BY DEF WtoInit
<1>3. ReturnInv
  BY <1>2 DEF ReturnInv, Settled, Numbered
<1>4. PICK m : PlacedInv(m)
  BY <1>1 DEF BuilderInv
<1>5. \A i \in Tasks : IsPush(i)
  BY <1>2 DEF Tasks, IsPush, PushTasks
<1>6. \A i \in Tasks, h \in Labels : ~IsContinue(i, h)
  BY <1>5 DEF IsPush, IsContinue
<1>7. \A h \in Labels : FinishedLoop(m, h)
  BY <1>2 DEF FinishedLoop, Cycles
<1> QED
  BY <1>3, <1>4, <1>6, <1>7 DEF ConnectInv, LoopsFrom

LEMMA ConnectInvStep ==
  ASSUME BuilderInv, BuilderTypes', ConnectInv, BuildStep
  PROVE  ConnectInv'
<1>1. PICK v \in Labels : PushSuccessors(v) \/ StartVisit(v) \/ ContinueVisit(v)
  BY DEF BuildStep
<1>2. ReturnInv
  BY DEF ConnectInv
<1>3. PICK m : LoopsFrom(m)
  BY DEF ConnectInv
<1>4. CASE PushSuccessors(v)
  BY <1>2, <1>3, <1>4, ReturnPush, LoopsPush DEF ConnectInv
<1>5. CASE ContinueVisit(v)
  <2>1. ReturnInv'
    <3>1. UNCHANGED <<dfn, headDfn, children>>
      BY <1>5 DEF ContinueVisit
    <3> QED
      BY <1>2, <3>1 DEF ReturnInv, GoesBack, SameLow, Settled, Numbered, ReachableFrom
  <2> QED
    BY <1>3, <1>5, <2>1, LoopsContinue DEF ConnectInv
<1>6. CASE StartVisit(v)
  <2>1. visitStack # <<>> /\ Top.type = "StartVisit" /\ v = Top.vertex /\ UNCHANGED <<children, num>>
    BY <1>6 DEF StartVisit
  <2>2. CASE StartVisitInner(v)
    BY <1>2, <1>3, <2>1, <2>2, ReturnInner, LoopsInner DEF ConnectInv
  <2>3. CASE StartVisitVertex(v)
    BY <1>2, <1>3, <2>1, <2>3, ReturnVertex, LoopsVertex DEF ConnectInv
  <2>4. CASE StartVisitCycle(v)
    BY <1>2, <1>3, <2>1, <2>4, ReturnCycle, LoopsCycle DEF ConnectInv
  <2> QED
    BY <1>6, <2>2, <2>3, <2>4 DEF StartVisit
<1> QED
  BY <1>1, <1>4, <1>5, <1>6

(* Every cycle of the finished Wto is a loop of the program: start_visit   *)
(* opens a cycle only for labels that lie on a path from its head back to  *)
(* it, and what the visits of push_successors and continue_visit then put  *)
(* into its partition, nested cycles included, is exactly that set.        *)
THEOREM WtoCyclesAreLoops == WtoSpec => []CyclesAreLoops
<1>1. WtoInit => ConnectInv
  BY ConnectInvInit
<1>2. BuilderInv /\ BuilderInv' /\ ConnectInv /\ [WtoNext]_wtoVars => ConnectInv'
  <2>1. ASSUME BuilderInv, ConnectInv, UNCHANGED wtoVars PROVE ConnectInv'
    <3>1. UNCHANGED <<dfn, headDfn, children, visitStack, components>>
      BY <2>1 DEF wtoVars, builderVars
    <3>2. PICK m : LoopsFrom(m)
      BY <2>1 DEF ConnectInv
    <3>3. /\ Tasks' = Tasks /\ \A i, h : IsContinue(i, h)' <=> IsContinue(i, h)
          /\ \A h : Building(h)' <=> Building(h)
      BY <3>1 DEF Tasks, IsContinue, Building
    <3>4. \A i, h, Y : Region(i, h, Y) => Region(i, h, Y)'
      BY <3>1 DEF Region, Tasks, IsPush, Numbered
    <3>5. LoopsFrom(m)'
      BY <2>1, <3>1, <3>2, <3>3, <3>4, LoopsSame
    <3>6. ReturnInv'
      BY <2>1, <3>1 DEF ConnectInv, ReturnInv, GoesBack, SameLow, Settled, Numbered, ReachableFrom
    <3> QED
      BY <3>5, <3>6 DEF ConnectInv
  <2>2. BuilderInv' => BuilderTypes'
    BY DEF BuilderInv
  <2> QED
    BY <2>1, <2>2, ConnectInvStep DEF WtoNext
<1>3. BuilderInv /\ ConnectInv => CyclesAreLoops
  <2> SUFFICES ASSUME BuilderInv, ConnectInv, WtoDone, NEW h \in Labels, components[h] # <<>>
               PROVE  /\ components[h][Len(components[h])] = [label |-> h, cycle |-> FALSE]
                      /\ Members[h] \subseteq ReachableFrom({h}, Members[h])
                      /\ \A l \in Members[h] :
                            \E c \in children[l] \cap Members[h] :
                              h \in ReachableFrom({c}, Members[h])
    BY DEF CyclesAreLoops
  <2>1. PICK m : LoopsFrom(m)
    BY DEF ConnectInv
  <2>2. Members = m
    BY <2>1, MembersAre DEF LoopsFrom
  <2>3. ~Building(h)
    BY DEF WtoDone, Building, Tasks
  <2> QED
    BY <2>1, <2>2, <2>3 DEF LoopsFrom, FinishedLoop, Connected
<1> QED
  BY <1>1, <1>2, <1>3, BuilderInvariance, PTL DEF WtoSpec
=============================================================================
