----------------------------- MODULE CfgProofs -----------------------------
(***************************************************************************)
(* Theorems about CfgBuilder, for every instruction sequence and every     *)
(* limit on the call depth: the graph stays well formed, its two edge maps *)
(* agree, and no label lies in a frame beyond the limit.                   *)
(***************************************************************************)
EXTENDS CfgBuilder, FiniteSetTheorems, SequenceTheorems, TLAPS

(* A graph whose edges connect its labels, are known at both ends, never   *)
(* lead to the entry and never leave the exit.                             *)
GraphOK(g) ==
  /\ g.children \in [NodesOf(g) -> SUBSET NodesOf(g)]
  /\ g.parents \in [NodesOf(g) -> SUBSET NodesOf(g)]
  /\ \A a, b \in NodesOf(g) : b \in g.children[a] <=> a \in g.parents[b]
  /\ entry \in NodesOf(g) /\ g.parents[entry] = {}
  /\ exit \in NodesOf(g) /\ g.children[exit] = {}

-----------------------------------------------------------------------------
(***************************************************************************)
(* The graph operations keep a graph well formed.                          *)
(***************************************************************************)

(* add_child keeps the graph well formed and adds no label, as long as its *)
(* two assertions hold.                                                    *)
LEMMA AddEdgesKeepsOK ==
  ASSUME NEW g, GraphOK(g), NEW E,
         \A e \in E : e[1] # exit /\ e[2] # entry
  PROVE  /\ GraphOK(AddEdges(g, E))
         /\ NodesOf(AddEdges(g, E)) = NodesOf(g)
<1> DEFINE new == {e \in E : e[1] \in NodesOf(g) /\ e[2] \in NodesOf(g)}
           ch == [l \in NodesOf(g) |->
                    g.children[l] \cup {e[2] : e \in {f \in new : f[1] = l}}]
           pa == [l \in NodesOf(g) |->
                    g.parents[l] \cup {e[1] : e \in {f \in new : f[2] = l}}]
<1>1. AddEdges(g, E) = [children |-> ch, parents |-> pa]
  BY DEF AddEdges
<1>2. NodesOf(AddEdges(g, E)) = NodesOf(g)
  BY <1>1 DEF NodesOf
<1>3. ch \in [NodesOf(g) -> SUBSET NodesOf(g)]
  BY DEF GraphOK
<1>4. pa \in [NodesOf(g) -> SUBSET NodesOf(g)]
  BY DEF GraphOK
<1>5. \A a, b \in NodesOf(g) : b \in ch[a] <=> a \in pa[b]
  BY DEF GraphOK
<1>6. pa[entry] = {} /\ ch[exit] = {}
  BY DEF GraphOK
<1> HIDE DEF new, ch, pa
<1> QED
  BY <1>1, <1>2, <1>3, <1>4, <1>5, <1>6 DEF GraphOK

(* insert keeps the graph well formed. *)
LEMMA InsertKeepsOK ==
  ASSUME NEW g, GraphOK(g), NEW S
  PROVE  /\ GraphOK(Insert(g, S))
         /\ NodesOf(Insert(g, S)) = NodesOf(g) \cup S
<1> DEFINE ch == [l \in NodesOf(g) \cup S |->
                    IF l \in NodesOf(g) THEN g.children[l] ELSE {}]
           pa == [l \in NodesOf(g) \cup S |->
                    IF l \in NodesOf(g) THEN g.parents[l] ELSE {}]
           nodes == NodesOf(g) \cup S
<1>1. Insert(g, S) = [children |-> ch, parents |-> pa]
  BY DEF Insert
<1>2. NodesOf(Insert(g, S)) = nodes
  BY <1>1 DEF NodesOf
<1>3. ch \in [nodes -> SUBSET nodes] /\ pa \in [nodes -> SUBSET nodes]
  BY DEF GraphOK
<1>4. \A a, b \in nodes : b \in ch[a] <=> a \in pa[b]
  BY DEF GraphOK
<1>5. pa[entry] = {} /\ ch[exit] = {} /\ entry \in nodes /\ exit \in nodes
  BY DEF GraphOK
<1> HIDE DEF ch, pa
<1> QED
  BY <1>1, <1>2, <1>3, <1>4, <1>5 DEF GraphOK

(* remove_child keeps the graph well formed, also if there is no such edge. *)
LEMMA RemoveKeepsOK ==
  ASSUME NEW g, GraphOK(g), NEW a, NEW b
  PROVE  /\ GraphOK(remove_child(g, a, b))
         /\ NodesOf(remove_child(g, a, b)) = NodesOf(g)
<1> DEFINE ch == [g.children EXCEPT ![a] = @ \ {b}]
           pa == [g.parents EXCEPT ![b] = @ \ {a}]
<1>1. remove_child(g, a, b) = [children |-> ch, parents |-> pa]
  BY DEF remove_child
<1>2. NodesOf(remove_child(g, a, b)) = NodesOf(g)
  BY <1>1 DEF NodesOf, GraphOK
<1>3. /\ ch \in [NodesOf(g) -> SUBSET NodesOf(g)]
      /\ pa \in [NodesOf(g) -> SUBSET NodesOf(g)]
  BY DEF GraphOK
<1>4. \A u, v \in NodesOf(g) : v \in ch[u] <=> u \in pa[v]
  BY DEF GraphOK
<1>5. pa[entry] = {} /\ ch[exit] = {}
  BY DEF GraphOK
<1> HIDE DEF ch, pa
<1> QED
  BY <1>1, <1>2, <1>3, <1>4, <1>5 DEF GraphOK

(* insert_after keeps the graph well formed. *)
LEMMA InsertAfterKeepsOK ==
  ASSUME NEW g, GraphOK(g), NEW prev \in NodesOf(g),
         NEW new, new # entry, new # exit
  PROVE  /\ GraphOK(InsertAfter(g, prev, new))
         /\ NodesOf(InsertAfter(g, prev, new)) = NodesOf(g) \cup {new}
<1> DEFINE ch == [g.children EXCEPT ![prev] = {}]
           pa == [l \in NodesOf(g) |->
                    IF l \in g.children[prev] THEN g.parents[l] \ {prev}
                    ELSE g.parents[l]]
           detached == [children |-> ch, parents |-> pa]
           E == IF g.children[prev] = {} THEN {}
                ELSE {<<prev, new>>} \cup ({new} \X g.children[prev])
<1>1. NodesOf(detached) = NodesOf(g)
  BY DEF NodesOf, GraphOK
<1>2. GraphOK(detached)
  <2>1. /\ ch \in [NodesOf(g) -> SUBSET NodesOf(g)]
        /\ pa \in [NodesOf(g) -> SUBSET NodesOf(g)]
    BY DEF GraphOK
  <2>2. \A u, v \in NodesOf(g) : v \in ch[u] <=> u \in pa[v]
    BY DEF GraphOK
  <2>3. /\ pa[entry] = {} /\ ch[exit] = {}
        /\ entry \in NodesOf(g) /\ exit \in NodesOf(g)
    BY DEF GraphOK
  <2> HIDE DEF ch, pa
  <2> QED
    BY <1>1, <2>1, <2>2, <2>3 DEF GraphOK
<1>3. \A e \in E : e[1] # exit /\ e[2] # entry
  BY DEF GraphOK
<1>4. InsertAfter(g, prev, new) = AddEdges(Insert(detached, {new}), E)
  BY DEF InsertAfter
<1> HIDE DEF detached, E
<1>5. /\ GraphOK(Insert(detached, {new}))
      /\ NodesOf(Insert(detached, {new})) = NodesOf(g) \cup {new}
  BY <1>1, <1>2, InsertKeepsOK
<1> QED
  BY <1>3, <1>4, <1>5, AddEdgesKeepsOK

-----------------------------------------------------------------------------
(***************************************************************************)
(* The inductive invariant.                                                *)
(***************************************************************************)

(* The arguments of from_sequence do not change. *)
InputsOK == \E in \in Inputs : insts = in.insts /\ options = in.options

(* From the first pass on, every defined instruction has its label. *)
InstructionsPresent ==
  phase \in {"link", "inline"} => \A i \in Defined : At(i) \in Nodes

(* An activation of add_cfg_nodes: the caller is a label of `nodes` with   *)
(* room for a frame below it, and each seen label has been cloned unless   *)
(* it is still on the work list.                                           *)
ActivationOK(a, nodes) ==
  /\ a.caller \in nodes
  /\ a.caller # exit
  /\ a.exitTo # entry
  /\ Len(a.caller.prefix) + 1 < MaxCallStackFrames
  /\ a.pending \subseteq a.seen
  /\ \A m \in a.seen : m \in a.macro \/ Clone(m, FramePrefix(a.caller)) \in nodes
  /\ ~a.walking => a.macro = {}

CallsOK == \A k \in DOMAIN calls : ActivationOK(calls[k], Nodes)

(* The inductive strengthening of CfgTypeOK, EdgesMirrored,                *)
(* EntryAndExitAreEnds and FramesAreBounded.                               *)
CfgInv ==
  /\ CfgTypeOK
  /\ GraphOK(Graph)
  /\ FramesAreBounded
  /\ InputsOK
  /\ InstructionsPresent
  /\ CallsOK

-----------------------------------------------------------------------------
(***************************************************************************)
(* Labels and inputs.                                                      *)
(***************************************************************************)

(* The labels the builder makes are labels, and none is the entry or exit. *)
LEMMA LabelFacts ==
  /\ \A i \in Int : At(i) \in Label /\ At(i).prefix = <<>> /\ At(i).from = i
  /\ \A i \in Int : i # -1 => At(i) # entry
  /\ \A i \in Int : i # IntMax => At(i) # exit
  /\ \A i, j \in Int :
       /\ MkLabel(<<>>, i, j) \in Label
       /\ j # -1 => MkLabel(<<>>, i, j) \notin {entry, exit}
BY DEF At, MkLabel, Label, entry, exit

(* Taking the last element off a sequence. *)
LEMMA PopFacts ==
  ASSUME NEW S, NEW s \in Seq(S), s # <<>>
  PROVE  /\ Len(s) \in Nat \ {0}
         /\ DOMAIN s = 1 .. Len(s)
         /\ s[Len(s)] \in S
         /\ SubSeq(s, 1, Len(s) - 1) \in Seq(S)
         /\ Len(SubSeq(s, 1, Len(s) - 1)) = Len(s) - 1
         /\ \A k \in 1 .. Len(s) - 1 : SubSeq(s, 1, Len(s) - 1)[k] = s[k]
<1>1. Len(s) \in Nat \ {0}
  BY EmptySeq
<1>2. DOMAIN s = 1 .. Len(s) /\ \A i \in 1 .. Len(s) : s[i] \in S
  BY LenProperties, ElementOfSeq
<1>3. \A i \in 1 .. Len(s) - 1 : s[i] \in S
  BY <1>1, <1>2
<1> DEFINE n == Len(s) - 1
<1>4. n \in Nat
  BY <1>1
<1>5. \A i \in 1 .. n : s[i] \in S
  BY <1>3
<1> HIDE DEF n
<1>6. /\ SubSeq(s, 1, n) \in Seq(S)
      /\ Len(SubSeq(s, 1, n)) = IF 1 <= n THEN n - 1 + 1 ELSE 0
      /\ \A i \in 1 .. n - 1 + 1 : SubSeq(s, 1, n)[i] = s[1 + i - 1]
  <2>1. 1 \in Int /\ n \in Int
    BY <1>4
  <2> QED
    BY <2>1, <1>5, SubSeqProperties
<1>7. Len(SubSeq(s, 1, n)) = n /\ \A i \in 1 .. n : SubSeq(s, 1, n)[i] = s[i]
  BY <1>4, <1>6
<1> QED
  BY <1>1, <1>2, <1>6, <1>7 DEF n

(* Putting an element on a sequence. *)
LEMMA PushFacts ==
  ASSUME NEW S, NEW s \in Seq(S), NEW e \in S
  PROVE  /\ Append(s, e) \in Seq(S)
         /\ Len(s) \in Nat
         /\ Len(Append(s, e)) = Len(s) + 1
         /\ DOMAIN Append(s, e) = 1 .. Len(s) + 1
         /\ \A k \in 1 .. Len(s) : Append(s, e)[k] = s[k]
         /\ Append(s, e)[Len(s) + 1] = e
<1>1. Len(s) \in Nat
  BY LenProperties
<1>2. /\ Append(s, e) \in Seq(S)
      /\ Len(Append(s, e)) = Len(s) + 1
      /\ \A k \in 1 .. Len(s) : Append(s, e)[k] = s[k]
      /\ Append(s, e)[Len(s) + 1] = e
  BY AppendProperties
<1>3. DOMAIN Append(s, e) = 1 .. Len(s) + 1
  BY <1>2, LenProperties
<1> QED
  BY <1>1, <1>2, <1>3

(* A clone lies one frame below its caller. *)
LEMMA CloneFacts ==
  ASSUME NEW m \in Label, NEW caller \in Label
  PROVE  LET c == Clone(m, FramePrefix(caller))
         IN  /\ c \in Label
             /\ c # entry
             /\ c # exit
             /\ Len(c.prefix) = Len(caller.prefix) + 1
<1> DEFINE p == FramePrefix(caller)
<1>1. p \in Seq(Int) /\ Len(p) = Len(caller.prefix) + 1 /\ p # <<>>
  <2>1. caller.prefix \in Seq(Int) /\ caller.from \in Int
    BY DEF Label
  <2> QED
    BY <2>1, AppendProperties DEF FramePrefix
<1>2. Clone(m, p) = [prefix |-> p, from |-> m.from, to |-> m.to, special |-> 0]
  BY DEF Clone, MkLabel
<1>3. entry.prefix = <<>> /\ exit.prefix = <<>>
  BY DEF entry, exit, At, MkLabel
<1> HIDE DEF p
<1>4. Clone(m, p) \in Label
  BY <1>1, <1>2 DEF Label
<1>5. Clone(m, p).prefix = p
  BY <1>2
<1> QED
  BY <1>1, <1>3, <1>4, <1>5 DEF p

(* The instructions are numbered from 0, below the index of the exit. *)
LEMMA InputFacts ==
  ASSUME InputsOK
  PROVE  /\ N \in Nat
         /\ N <= IntMax
         /\ DOMAIN insts = 0 .. N - 1
         /\ insts \in [0 .. N - 1 -> Instruction]
<1>1. PICK n \in 0 .. IntMax : insts \in [0 .. n - 1 -> Instruction]
  BY BuilderAssumption DEF InputsOK
<1>2. Cardinality(0 .. n - 1) = n
  BY <1>1, FS_Interval, BuilderAssumption
<1> QED
  BY <1>1, <1>2, BuilderAssumption DEF N

-----------------------------------------------------------------------------
(***************************************************************************)
(* What the actions have in common.                                        *)
(***************************************************************************)

(* A step to a well-formed graph without labels beyond the call depth. *)
LEMMA GraphStep ==
  ASSUME CfgInv, NEW g, GraphOK(g), SetGraph(g),
         Nodes \subseteq NodesOf(g), NodesOf(g) \subseteq Label,
         \A l \in NodesOf(g) : Len(l.prefix) < MaxCallStackFrames,
         UNCHANGED inputVars
  PROVE  /\ Nodes' = NodesOf(g)
         /\ GraphOK(Graph)'
         /\ children' \in [Nodes' -> SUBSET Nodes']
         /\ parents' \in [Nodes' -> SUBSET Nodes']
         /\ ({entry, exit} \subseteq Nodes)'
         /\ (Nodes \subseteq Label)'
         /\ FramesAreBounded'
         /\ InputsOK'
         /\ N' = N
         /\ Defined' = Defined
<1>1. children' = g.children /\ parents' = g.parents
  BY DEF SetGraph
<1>2. Nodes' = NodesOf(g) /\ NodesOf(Graph') = NodesOf(g)
  BY <1>1 DEF Nodes, NodesOf, Graph
<1>3. GraphOK(Graph')
  BY <1>1, <1>2 DEF GraphOK, Graph
<1>4. /\ InputsOK'
      /\ N' = N
      /\ Defined' = Defined
  BY DEF CfgInv, InputsOK, N, Defined, inputVars
<1> QED
  BY <1>1, <1>2, <1>3, <1>4 DEF GraphOK, FramesAreBounded, Graph, NodesOf, Nodes

(* A step that leaves the graph alone. *)
LEMMA SameGraph ==
  ASSUME CfgInv, UNCHANGED <<inputVars, graphVars>>
  PROVE  /\ Nodes' = Nodes
         /\ GraphOK(Graph)'
         /\ children' \in [Nodes' -> SUBSET Nodes']
         /\ parents' \in [Nodes' -> SUBSET Nodes']
         /\ code' \in [Nodes' -> Instruction]
         /\ ({entry, exit} \subseteq Nodes)'
         /\ (Nodes \subseteq Label)'
         /\ FramesAreBounded'
         /\ InputsOK'
         /\ N' = N
         /\ Defined' = Defined
<1>1. SetGraph(Graph) /\ NodesOf(Graph) = Nodes /\ GraphOK(Graph)
  BY DEF SetGraph, Graph, NodesOf, Nodes, graphVars, CfgInv
<1>2. /\ Nodes \subseteq Label
      /\ \A l \in Nodes : Len(l.prefix) < MaxCallStackFrames
      /\ code \in [Nodes -> Instruction]
  BY DEF CfgInv, CfgTypeOK, FramesAreBounded
<1> QED
  BY <1>1, <1>2, GraphStep DEF graphVars, inputVars

(* Activations stay well formed when labels are added. *)
LEMMA ActivationsKept ==
  ASSUME CfgInv, Nodes \subseteq Nodes', NEW a, ActivationOK(a, Nodes)
  PROVE  ActivationOK(a, Nodes')
BY DEF ActivationOK

(* The stack of activations when only labels are added ... *)
LEMMA CallsKept ==
  ASSUME CfgInv, Nodes \subseteq Nodes', UNCHANGED calls
  PROVE  CallsOK'
BY ActivationsKept DEF CfgInv, CallsOK

(* ... and when its top is replaced ... *)
LEMMA TopReplaced ==
  ASSUME CfgInv, calls # <<>>, Nodes \subseteq Nodes',
         NEW a \in Activation, ActivationOK(a, Nodes'), calls' = Append(Outer, a)
  PROVE  CallsOK' /\ calls' \in Seq(Activation)
<1>1. calls \in Seq(Activation)
  BY DEF CfgInv, CfgTypeOK
<1>2. /\ Outer \in Seq(Activation)
      /\ Len(calls) \in Nat \ {0}
      /\ DOMAIN calls = 1 .. Len(calls)
      /\ Len(Outer) = Len(calls) - 1
      /\ \A k \in 1 .. Len(Outer) : Outer[k] = calls[k]
  BY <1>1, PopFacts DEF Outer
<1>3. \A k \in 1 .. Len(Outer) : ActivationOK(Outer[k], Nodes')
  BY <1>2, ActivationsKept DEF CfgInv, CallsOK
<1>4. /\ calls' \in Seq(Activation)
      /\ Len(Outer) \in Nat
      /\ DOMAIN calls' = 1 .. Len(Outer) + 1
      /\ \A k \in 1 .. Len(Outer) : calls'[k] = Outer[k]
      /\ calls'[Len(Outer) + 1] = a
  <2>1. a \in Activation /\ Outer \in Seq(Activation)
    BY <1>2
  <2>2. /\ Append(Outer, a) \in Seq(Activation)
        /\ Len(Outer) \in Nat
        /\ DOMAIN Append(Outer, a) = 1 .. Len(Outer) + 1
        /\ \A k \in 1 .. Len(Outer) : Append(Outer, a)[k] = Outer[k]
        /\ Append(Outer, a)[Len(Outer) + 1] = a
    BY <2>1, PushFacts
  <2> QED
    BY <2>2
<1>5. Len(Outer) \in Nat
  BY <1>4
<1>6. ASSUME NEW k \in 1 .. Len(Outer) + 1
      PROVE  ActivationOK(calls'[k], Nodes')
  <2>1. CASE k \in 1 .. Len(Outer)
    BY <2>1, <1>3, <1>4
  <2>2. CASE k = Len(Outer) + 1
    BY <2>2, <1>4
  <2>3. k \in 1 .. Len(Outer) \/ k = Len(Outer) + 1
    BY <1>5
  <2> QED
    BY <2>1, <2>2, <2>3
<1> QED
  BY <1>4, <1>6 DEF CallsOK

(* ... or taken away. *)
LEMMA TopRemoved ==
  ASSUME CfgInv, calls # <<>>, Nodes \subseteq Nodes', calls' = Outer
  PROVE  CallsOK' /\ calls' \in Seq(Activation)
<1>1. calls \in Seq(Activation)
  BY DEF CfgInv, CfgTypeOK
<1>2. /\ Outer \in Seq(Activation)
      /\ Len(calls) \in Nat \ {0}
      /\ DOMAIN calls = 1 .. Len(calls)
      /\ Len(Outer) = Len(calls) - 1
      /\ \A k \in 1 .. Len(Outer) : Outer[k] = calls[k]
  BY <1>1, PopFacts DEF Outer
<1>3. \A k \in 1 .. Len(Outer) : ActivationOK(Outer[k], Nodes')
  BY <1>2, ActivationsKept DEF CfgInv, CallsOK
<1>4. DOMAIN Outer = 1 .. Len(Outer)
  BY <1>2, LenProperties
<1> QED
  BY <1>2, <1>3, <1>4 DEF CallsOK

(* The top activation is well formed. *)
LEMMA ActiveFacts ==
  ASSUME CfgInv, calls # <<>>
  PROVE  Active \in Activation /\ ActivationOK(Active, Nodes)
BY DEF CfgInv, CfgTypeOK, CallsOK, Active

(* An exception ends the construction and changes nothing else. *)
LEMMA FailKeepsInv ==
  ASSUME CfgInv, NEW e, e # "none", Fail(e)
  PROVE  CfgInv'
<1>1. /\ UNCHANGED <<inputVars, graphVars, annotated, next, calls, heads>>
      /\ phase' = "error" /\ error' = e
  BY DEF Fail
<1>2. CfgTypeOK'
  BY <1>1, SameGraph DEF CfgInv, CfgTypeOK
<1> QED
  BY <1>1, <1>2, SameGraph, CallsKept DEF CfgInv, InstructionsPresent

-----------------------------------------------------------------------------
(***************************************************************************)
(* The invariant holds initially and every action keeps it.                *)
(***************************************************************************)

(* The constructor of Program: the entry and the exit, without edges. *)
LEMMA InitEstablishesInv ==
  ASSUME CfgInit
  PROVE  CfgInv
<1>1. InputsOK
  BY DEF CfgInit, InputsOK
<1>2. /\ Nodes = {entry, exit}
      /\ entry \in Label /\ exit \in Label
      /\ entry.prefix = <<>> /\ exit.prefix = <<>>
  BY LabelFacts, BuilderAssumption DEF CfgInit, Nodes, entry, exit
<1>3. GraphOK(Graph)
  BY <1>2 DEF CfgInit, GraphOK, Graph, NodesOf, Nodes
<1>4. FramesAreBounded
  BY <1>2, BuilderAssumption DEF FramesAreBounded
<1>5. CfgTypeOK
  <2>1. code \in [Nodes -> Instruction]
    BY <1>2 DEF CfgInit, Instruction, Kinds
  <2>2. calls \in Seq(Activation)
    BY EmptySeq DEF CfgInit
  <2>3. next \in 0 .. N
    BY <1>1, InputFacts DEF CfgInit
  <2> QED
    BY <1>2, <1>3, <2>1, <2>2, <2>3 DEF CfgInit, CfgTypeOK, GraphOK, Graph, NodesOf, Nodes
<1>6. CallsOK
  BY DEF CfgInit, CallsOK
<1> QED
  BY <1>1, <1>3, <1>4, <1>5, <1>6 DEF CfgInv, InstructionsPresent, CfgInit

(* The facts every action starts from. *)
LEMMA InvFacts ==
  ASSUME CfgInv
  PROVE  /\ GraphOK(Graph) /\ NodesOf(Graph) = Nodes
         /\ Nodes \subseteq Label
         /\ \A l \in Nodes : Len(l.prefix) < MaxCallStackFrames
         /\ entry \in Nodes /\ exit \in Nodes
         /\ code \in [Nodes -> Instruction]
         /\ annotated \subseteq Nodes
         /\ calls \in Seq(Activation)
         /\ heads \subseteq Nodes
         /\ next \in 0 .. N
         /\ InputsOK
BY DEF CfgInv, CfgTypeOK, FramesAreBounded, Graph, NodesOf, Nodes

(* A step that adds labels and edges only, during the first two phases. *)
LEMMA GrowKeepsInv ==
  ASSUME CfgInv, NEW g, GraphOK(g), SetGraph(g),
         Nodes \subseteq NodesOf(g), NodesOf(g) \subseteq Label,
         \A l \in NodesOf(g) : Len(l.prefix) < MaxCallStackFrames,
         code' \in [NodesOf(g) -> Instruction],
         phase' \in {"link", "inline"},
         error = "none",
         \A i \in Defined : At(i) \in NodesOf(g),
         next' \in 0 .. N,
         UNCHANGED <<inputVars, annotated, heads, error>>,
         calls' \in Seq(Activation), CallsOK'
  PROVE  CfgInv'
<1>1. UNCHANGED inputVars
  OBVIOUS
<1>2. CfgTypeOK'
  BY <1>1, GraphStep, InvFacts DEF CfgTypeOK
<1> QED
  BY <1>1, <1>2, GraphStep DEF CfgInv, InstructionsPresent

(* The first loop of instruction_seq_to_cfg. *)
LEMMA InsertInstructionsKeepsInv ==
  ASSUME CfgInv, InsertInstructions
  PROVE  CfgInv'
<1> DEFINE new == {At(i) : i \in Defined}
           g == AddEdges(Insert(Graph, new), {<<entry, At(0)>>})
<1>1. CASE N = 0 \/ 0 \notin Defined
  BY <1>1, FailKeepsInv DEF InsertInstructions
<1>2. CASE ~(N = 0 \/ 0 \notin Defined)
  <2>1. /\ SetGraph(g)
        /\ code' = EmplaceCode(new, LAMBDA l : insts[l.from])
        /\ phase' = "link"
        /\ phase = "insert"
        /\ UNCHANGED <<inputVars, annotated, next, calls, heads, error>>
    BY <1>2 DEF InsertInstructions
  <2>2. \A i \in Defined : i \in Nat /\ insts[i] \in Instruction
    BY InvFacts, InputFacts DEF Defined
  <2>3. /\ new \subseteq Label
        /\ \A l \in new : l.prefix = <<>> /\ l.from \in Defined
    BY <2>2, LabelFacts
  <2>4. GraphOK(Insert(Graph, new)) /\ NodesOf(Insert(Graph, new)) = Nodes \cup new
    BY InvFacts, InsertKeepsOK
  <2>5. \A e \in {<<entry, At(0)>>} : e[1] # exit /\ e[2] # entry
    <3>1. entry # exit /\ At(0) # entry
      BY LabelFacts, BuilderAssumption DEF entry
    <3> QED
      BY <3>1
  <2>6. GraphOK(g) /\ NodesOf(g) = Nodes \cup new
    <3> HIDE DEF new
    <3> QED
      BY <2>4, <2>5, AddEdgesKeepsOK
  <2>7. code' \in [Nodes \cup new -> Instruction]
    BY <2>1, <2>2, <2>3, InvFacts DEF EmplaceCode
  <2>8. Nodes \cup new \subseteq Label
    BY <2>3, InvFacts
  <2>9. \A l \in Nodes \cup new : Len(l.prefix) < MaxCallStackFrames
    BY <2>3, InvFacts, BuilderAssumption
  <2>10. Nodes \subseteq Nodes'
    BY <2>1, <2>6 DEF SetGraph, Nodes, NodesOf
  <2>11. CallsOK' /\ calls' \in Seq(Activation)
    BY <2>1, <2>10, CallsKept, InvFacts
  <2>12. error = "none" /\ next' \in 0 .. N
    BY <2>1, InvFacts DEF CfgInv, CfgTypeOK
  <2> HIDE DEF g
  <2> QED
    BY <2>1, <2>6, <2>7, <2>8, <2>9, <2>11, <2>12, GrowKeepsInv
<1> QED
  BY <1>1, <1>2

(* During the first pass: the i-th instruction, and where it falls through. *)
LEMMA LinkFacts ==
  ASSUME CfgInv, phase = "link", NEW i, i \in DOMAIN insts, i < N
  PROVE  /\ i \in Nat /\ insts[i] \in Instruction
         /\ At(i) # exit /\ exit # entry
         /\ At(insts[i].target) # entry
         /\ Fallthrough(i) # entry
         /\ Fallthrough(i).prefix = <<>>
         /\ Fallthrough(i).from \in Nat
         /\ error = "none"
         /\ \A j \in Defined : At(j) \in Nodes
         /\ N \in Nat
<1>1. /\ i \in Nat /\ insts[i] \in Instruction /\ N \in Nat /\ i # IntMax
      /\ IntMax \in Nat
  BY InvFacts, InputFacts, BuilderAssumption
<1>2. insts[i].target \in Nat
  BY <1>1 DEF Instruction
<1>3. At(i) # exit /\ At(insts[i].target) # entry /\ exit # entry
  BY <1>1, <1>2, LabelFacts DEF exit
<1>4. Fallthrough(i) \in {At(i + 1), At(IntMax)}
  BY DEF Fallthrough, exit
<1>5. /\ Fallthrough(i) # entry
      /\ Fallthrough(i).prefix = <<>>
      /\ Fallthrough(i).from \in Nat
  BY <1>1, <1>4, LabelFacts
<1>6. error = "none" /\ \A j \in Defined : At(j) \in Nodes
  BY DEF CfgInv, CfgTypeOK, InstructionsPresent
<1> QED
  BY <1>1, <1>3, <1>5, <1>6

(* The edges of an instruction that is not split. *)
LEMMA LinkToKeepsInv ==
  ASSUME CfgInv, phase = "link", NEW i, i \in DOMAIN insts, i < N, i = next,
         NEW E, \A e \in E : e[1] # exit /\ e[2] # entry,
         LinkTo(i, E)
  PROVE  CfgInv'
<1> DEFINE g == AddEdges(Graph, E)
<1>1. CASE ~(\A e \in E : e[2] \in Nodes)
  BY <1>1, FailKeepsInv DEF LinkTo
<1>2. CASE \A e \in E : e[2] \in Nodes
  <2>1. /\ SetGraph(g)
        /\ next' = next + 1
        /\ UNCHANGED <<inputVars, code, annotated, phase, calls, heads, error>>
    BY <1>2 DEF LinkTo
  <2>2. GraphOK(g) /\ NodesOf(g) = Nodes
    BY InvFacts, AddEdgesKeepsOK
  <2>3. Nodes \subseteq Nodes'
    BY <2>1, <2>2 DEF SetGraph, Nodes, NodesOf
  <2>4. CallsOK' /\ calls' \in Seq(Activation)
    BY <2>1, <2>3, CallsKept, InvFacts
  <2>5. next' \in 0 .. N
    BY <2>1, LinkFacts
  <2> HIDE DEF g
  <2> QED
    BY <2>1, <2>2, <2>4, <2>5, LinkFacts, InvFacts, GrowKeepsInv
<1> QED
  BY <1>1, <1>2

(* The two Assume nodes of a conditional jump. *)
LEMMA BranchKeepsInv ==
  ASSUME CfgInv, phase = "link", NEW i, i \in DOMAIN insts, i < N, i = next,
         Branch(i, At(insts[i].target))
  PROVE  CfgInv'
<1> DEFINE target == At(insts[i].target)
           jump == make_jump(At(i), target)
           fall == make_jump(At(i), Fallthrough(i))
           E == {<<At(i), jump>>, <<jump, target>>,
                 <<At(i), fall>>, <<fall, Fallthrough(i)>>}
           h == Insert(Graph, {jump, fall})
           g == AddEdges(h, E)
<1>1. CASE target \notin Nodes \/ Fallthrough(i) \notin Nodes
             \/ Nodes \cap {jump, fall} # {}
  BY <1>1, FailKeepsInv DEF Branch
<1>2. CASE ~(target \notin Nodes \/ Fallthrough(i) \notin Nodes
               \/ Nodes \cap {jump, fall} # {})
  <2>1. /\ SetGraph(g)
        /\ code' = EmplaceCode({jump, fall},
                               LAMBDA l : [kind |-> "assume", target |-> 0])
        /\ next' = next + 1
        /\ UNCHANGED <<inputVars, annotated, phase, calls, heads, error>>
    BY <1>2 DEF Branch
  <2>2. \E k \in Nat : target = At(k) /\ k = insts[i].target
    BY LinkFacts DEF Instruction
  <2>3. /\ jump \in Label /\ jump.prefix = <<>> /\ jump \notin {entry, exit}
        /\ fall \in Label /\ fall.prefix = <<>> /\ fall \notin {entry, exit}
    <3>1. jump = MkLabel(<<>>, i, insts[i].target)
      BY <2>2, LinkFacts, LabelFacts DEF make_jump
    <3>2. fall = MkLabel(<<>>, i, Fallthrough(i).from)
      BY LinkFacts, LabelFacts DEF make_jump
    <3>3. \A k, j \in Int : MkLabel(<<>>, k, j).prefix = <<>>
      BY DEF MkLabel
    <3> HIDE DEF jump, fall
    <3> QED
      BY <3>1, <3>2, <3>3, <2>2, LinkFacts, LabelFacts
  <2> HIDE DEF jump, fall
  <2>4. \A e \in E : e[1] # exit /\ e[2] # entry
    BY <2>3, LinkFacts
  <2>5. GraphOK(h) /\ NodesOf(h) = Nodes \cup {jump, fall}
    BY InvFacts, InsertKeepsOK
  <2> HIDE DEF E, h
  <2>6. GraphOK(g) /\ NodesOf(g) = Nodes \cup {jump, fall}
    BY <2>4, <2>5, AddEdgesKeepsOK
  <2>7. code' \in [Nodes \cup {jump, fall} -> Instruction]
    BY <2>1, InvFacts DEF EmplaceCode, Instruction, Kinds
  <2>8. /\ Nodes \cup {jump, fall} \subseteq Label
        /\ \A l \in Nodes \cup {jump, fall} : Len(l.prefix) < MaxCallStackFrames
    BY <2>3, InvFacts, BuilderAssumption
  <2>9. Nodes \subseteq Nodes'
    BY <2>1, <2>6 DEF SetGraph, Nodes, NodesOf
  <2>10. CallsOK' /\ calls' \in Seq(Activation)
    BY <2>1, <2>9, CallsKept, InvFacts
  <2>11. next' \in 0 .. N
    <3>1. i \in Nat /\ N \in Nat
      BY LinkFacts
    <3>2. next' = next + 1
      BY <2>1, Zenon
    <3> QED
      BY <3>1, <3>2
  <2>12. \A j \in Defined : At(j) \in NodesOf(g)
    BY <2>6, LinkFacts
  <2>13. error = "none"
    BY LinkFacts
  <2> HIDE DEF g
  <2> QED
    BY <2>1, <2>6, <2>7, <2>8, <2>10, <2>11, <2>12, <2>13, GrowKeepsInv
<1> QED
  BY <1>1, <1>2

(* One instruction of the first pass. *)
LEMMA LinkInstructionKeepsInv ==
  ASSUME CfgInv, NEW i, i \in DOMAIN insts, LinkInstruction(i)
  PROVE  CfgInv'
<1> DEFINE target == At(insts[i].target)
<1>1. phase = "link" /\ i = next /\ i < N
  BY DEF LinkInstruction
<1>2. CASE LinkTo(i, {})
  BY <1>1, <1>2, LinkToKeepsInv
<1>3. CASE Fail("fallthrough in last instruction")
  BY <1>3, FailKeepsInv
<1>4. CASE Branch(i, target)
  BY <1>1, <1>4, BranchKeepsInv
<1>5. ASSUME NEW t, t # entry, LinkTo(i, {<<At(i), t>>})
      PROVE  CfgInv'
  <2>1. \A e \in {<<At(i), t>>} : e[1] # exit /\ e[2] # entry
    <3>1. At(i) # exit
      BY <1>1, LinkFacts
    <3> QED
      BY <1>5, <3>1
  <2> QED
    BY <1>1, <1>5, <2>1, LinkToKeepsInv
<1>6. target # entry /\ exit # entry /\ Fallthrough(i) # entry
  BY <1>1, LinkFacts
<1>7. \/ LinkTo(i, {})
      \/ Fail("fallthrough in last instruction")
      \/ Branch(i, target)
      \/ LinkTo(i, {<<At(i), target>>})
      \/ LinkTo(i, {<<At(i), exit>>})
      \/ LinkTo(i, {<<At(i), Fallthrough(i)>>})
  BY DEF LinkInstruction
<1> QED
  BY <1>2, <1>3, <1>4, <1>5, <1>6, <1>7

(* Between the passes. *)
LEMMA StartInliningKeepsInv ==
  ASSUME CfgInv, StartInlining
  PROVE  CfgInv'
<1>1. /\ phase = "link" /\ phase' = "inline" /\ next' = 0
      /\ UNCHANGED <<inputVars, graphVars, annotated, calls, heads, error>>
  BY DEF StartInlining
<1>2. CallsOK' /\ calls' \in Seq(Activation)
  BY <1>1, SameGraph, CallsKept, InvFacts
<1>3. next' \in 0 .. N
  BY <1>1, InvFacts, InputFacts
<1>4. CfgTypeOK'
  BY <1>1, <1>2, <1>3, SameGraph DEF CfgInv, CfgTypeOK
<1>5. InstructionsPresent'
  BY <1>1, SameGraph DEF CfgInv, InstructionsPresent
<1> QED
  BY <1>1, <1>2, <1>4, <1>5, SameGraph DEF CfgInv

(* A step of the inlining pass that only pushes, pops or replaces          *)
(* activations.                                                            *)
LEMMA ActivationStep ==
  ASSUME CfgInv, phase = "inline", next' \in 0 .. N,
         UNCHANGED <<inputVars, graphVars, annotated, phase, heads, error>>,
         calls' \in Seq(Activation), CallsOK'
  PROVE  CfgInv'
<1>1. CfgTypeOK'
  BY SameGraph DEF CfgInv, CfgTypeOK
<1>2. InstructionsPresent'
  BY SameGraph DEF CfgInv, InstructionsPresent
<1> QED
  BY <1>1, <1>2, SameGraph DEF CfgInv

(* A call of add_cfg_nodes: the activations below it are kept. *)
LEMMA AddCfgNodesKeepsInv ==
  ASSUME CfgInv, phase = "inline",
         NEW caller \in Nodes, caller # exit,
         Len(caller.prefix) + 1 < MaxCallStackFrames,
         NEW t \in Nat,
         NEW below \in Seq(Activation),
         \A k \in DOMAIN below : ActivationOK(below[k], Nodes),
         NEW n \in 0 .. N,
         add_cfg_nodes(caller, At(t), below, n)
  PROVE  CfgInv'
<1>1. CASE Cardinality(children[caller]) # 1
  BY <1>1, FailKeepsInv DEF add_cfg_nodes
<1>2. CASE Cardinality(children[caller]) = 1
  <2>1. PICK x \in children[caller] :
          calls' = Append(below,
            [caller |-> caller, exitTo |-> x,
             first |-> TRUE, macro |-> {At(t)}, seen |-> {At(t)},
             pending |-> {}, walking |-> TRUE])
    BY <1>2 DEF add_cfg_nodes
  <2>2. /\ next' = n
        /\ UNCHANGED <<inputVars, graphVars, annotated, phase, heads, error>>
    BY <1>2 DEF add_cfg_nodes
  <2> DEFINE a == [caller |-> caller, exitTo |-> x,
                   first |-> TRUE, macro |-> {At(t)}, seen |-> {At(t)},
                   pending |-> {}, walking |-> TRUE]
  <2>3. x \in Nodes /\ x # entry
    BY InvFacts DEF GraphOK, Graph, NodesOf, Nodes
  <2>4. a \in Activation
    BY <2>3, InvFacts, LabelFacts DEF Activation
  <2>5. ActivationOK(a, Nodes)
    BY <2>3 DEF ActivationOK
  <2> HIDE DEF a
  <2>6. /\ Append(below, a) \in Seq(Activation)
        /\ Len(below) \in Nat
        /\ DOMAIN Append(below, a) = 1 .. Len(below) + 1
        /\ \A k \in 1 .. Len(below) : Append(below, a)[k] = below[k]
        /\ Append(below, a)[Len(below) + 1] = a
    BY <2>4, PushFacts
  <2>7. calls' = Append(below, a)
    BY <2>1 DEF a
  <2>8. ASSUME NEW k \in 1 .. Len(below) + 1
        PROVE  ActivationOK(calls'[k], Nodes)
    <3>1. CASE k \in 1 .. Len(below)
      <4>1. k \in DOMAIN below
        BY <3>1, LenProperties
      <4>2. calls'[k] = below[k]
        BY <3>1, <2>6, <2>7
      <4> QED
        BY <4>1, <4>2
    <3>2. CASE k = Len(below) + 1
      BY <3>2, <2>5, <2>6, <2>7
    <3>3. k \in 1 .. Len(below) \/ k = Len(below) + 1
      <4>1. Len(below) \in Nat
        BY <2>6
      <4> QED
        BY <4>1
    <3> QED
      BY <3>1, <3>2, <3>3
  <2>9. CallsOK' /\ calls' \in Seq(Activation)
    BY <2>2, <2>6, <2>7, <2>8, SameGraph DEF CallsOK
  <2> QED
    BY <2>2, <2>9, ActivationStep
<1> QED
  BY <1>1, <1>2

(* The last loop of instruction_seq_to_cfg. *)
LEMMA InlineNextKeepsInv ==
  ASSUME CfgInv, InlineNext
  PROVE  CfgInv'
<1>1. phase = "inline" /\ calls = <<>> /\ next < N
  BY DEF InlineNext
<1>2. /\ next \in Nat /\ next \in DOMAIN insts /\ insts[next] \in Instruction
      /\ N \in Nat /\ next # IntMax
  BY <1>1, InvFacts, InputFacts, BuilderAssumption
<1>3. next + 1 \in 0 .. N
  BY <1>1, <1>2
<1>4. CASE insts[next].kind = "call"
  <2>1. add_cfg_nodes(At(next), At(insts[next].target), <<>>, next + 1)
    BY <1>4 DEF InlineNext
  <2>2. next \in Defined
    BY <1>2, <1>4 DEF Defined
  <2>3. At(next) \in Nodes
    BY <1>1, <2>2 DEF CfgInv, InstructionsPresent
  <2>4. At(next) # exit /\ Len(At(next).prefix) + 1 < MaxCallStackFrames
    BY <1>2, LabelFacts, BuilderAssumption
  <2>5. insts[next].target \in Nat
    BY <1>2 DEF Instruction
  <2>6. <<>> \in Seq(Activation) /\ \A k \in DOMAIN <<>> : FALSE
    BY EmptySeq
  <2> QED
    BY <1>1, <1>3, <2>1, <2>3, <2>4, <2>5, <2>6, AddCfgNodesKeepsInv
<1>5. CASE insts[next].kind # "call"
  <2>1. /\ next' = next + 1
        /\ UNCHANGED <<inputVars, graphVars, annotated, phase, calls, heads, error>>
    BY <1>5 DEF InlineNext
  <2>2. CallsOK' /\ calls' \in Seq(Activation)
    BY <2>1, SameGraph, CallsKept, InvFacts
  <2> QED
    BY <1>1, <1>3, <2>1, <2>2, ActivationStep
<1> QED
  BY <1>4, <1>5

(* The end of the walk over the callee. *)
LEMMA EndWalkKeepsInv ==
  ASSUME CfgInv, EndWalk
  PROVE  CfgInv'
<1> DEFINE g == remove_child(Graph, Active.caller, Active.exitTo)
           a == [Active EXCEPT !.walking = FALSE, !.pending = Active.seen]
<1>1. /\ phase = "inline" /\ calls # <<>> /\ Active.macro = {}
      /\ SetGraph(g) /\ calls' = Append(Outer, a)
      /\ UNCHANGED <<inputVars, code, annotated, phase, next, heads, error>>
  BY DEF EndWalk
<1>2. GraphOK(g) /\ NodesOf(g) = Nodes
  BY InvFacts, RemoveKeepsOK
<1>3. Nodes' = Nodes
  BY <1>1, <1>2 DEF SetGraph, Nodes, NodesOf
<1>4. a \in Activation /\ ActivationOK(a, Nodes')
  BY <1>1, <1>3, ActiveFacts DEF Activation, ActivationOK
<1> HIDE DEF g, a
<1>5. CallsOK' /\ calls' \in Seq(Activation)
  BY <1>1, <1>3, <1>4, TopReplaced
<1>6. error = "none" /\ \A j \in Defined : At(j) \in Nodes
  BY <1>1 DEF CfgInv, CfgTypeOK, InstructionsPresent
<1> QED
  BY <1>1, <1>2, <1>5, <1>6, InvFacts, GrowKeepsInv

(* The return of add_cfg_nodes. *)
LEMMA ReturnKeepsInv ==
  ASSUME CfgInv, Return
  PROVE  CfgInv'
<1>1. /\ phase = "inline" /\ calls # <<>> /\ calls' = Outer
      /\ UNCHANGED <<inputVars, graphVars, annotated, phase, next, heads, error>>
  BY DEF Return
<1>2. CallsOK' /\ calls' \in Seq(Activation)
  BY <1>1, SameGraph, TopRemoved
<1> QED
  BY <1>1, <1>2, InvFacts, ActivationStep

(* A nested call: its label is a clone, so it has a frame of its own, and  *)
(* the check of the depth leaves room for one more.                        *)
LEMMA InlineNestedKeepsInv ==
  ASSUME CfgInv, InlineNested
  PROVE  CfgInv'
<1>1. /\ phase = "inline" /\ calls # <<>> /\ ~Active.walking
  BY DEF InlineNested
<1>2. PICK m \in NestedCalls :
        LET label == Clone(m, FramePrefix(Active.caller))
        IN  IF FrameDepth(Active.caller) >= MaxCallStackFrames
            THEN Fail("too many call stack frames")
            ELSE add_cfg_nodes(label, At(code[label].target),
                   Append(Outer, [Active EXCEPT !.pending = @ \ {m}]), next)
  BY DEF InlineNested
<1> DEFINE label == Clone(m, FramePrefix(Active.caller))
           a == [Active EXCEPT !.pending = @ \ {m}]
           below == Append(Outer, a)
<1>3. Active \in Activation /\ ActivationOK(Active, Nodes)
  BY <1>1, ActiveFacts
<1>4. m \in Active.pending /\ m \in Active.seen /\ m \in Label
  BY <1>3 DEF NestedCalls, ActivationOK, Activation
<1>5. label \in Nodes
  BY <1>1, <1>3, <1>4 DEF ActivationOK
<1>6. Active.caller \in Label /\ Len(Active.caller.prefix) \in Nat
  BY <1>3, LenProperties DEF Activation, Label
<1>7. label # exit /\ Len(label.prefix) = Len(Active.caller.prefix) + 1
  BY <1>4, <1>6, CloneFacts
<1>8. code[label] \in Instruction
  BY <1>5, InvFacts
<1>9. code[label].target \in Nat
  BY <1>8 DEF Instruction
<1>10. a \in Activation /\ ActivationOK(a, Nodes)
  BY <1>3 DEF Activation, ActivationOK
<1> HIDE DEF a, label
<1>11. /\ Outer \in Seq(Activation)
       /\ \A k \in DOMAIN Outer : ActivationOK(Outer[k], Nodes)
  <2>1. /\ Outer \in Seq(Activation)
        /\ Len(calls) \in Nat \ {0}
        /\ DOMAIN calls = 1 .. Len(calls)
        /\ Len(Outer) = Len(calls) - 1
        /\ \A k \in 1 .. Len(Outer) : Outer[k] = calls[k]
    BY <1>1, InvFacts, PopFacts DEF Outer
  <2>2. DOMAIN Outer = 1 .. Len(Outer)
    BY <2>1, LenProperties
  <2> QED
    BY <2>1, <2>2 DEF CfgInv, CallsOK
<1>12. /\ below \in Seq(Activation)
       /\ \A k \in DOMAIN below : ActivationOK(below[k], Nodes)
  <2>1. /\ below \in Seq(Activation)
        /\ Len(Outer) \in Nat
        /\ DOMAIN below = 1 .. Len(Outer) + 1
        /\ \A k \in 1 .. Len(Outer) : below[k] = Outer[k]
        /\ below[Len(Outer) + 1] = a
    BY <1>10, <1>11, PushFacts
  <2>2. DOMAIN Outer = 1 .. Len(Outer)
    BY <1>11, LenProperties
  <2> HIDE DEF below
  <2>3. \A k \in 1 .. Len(Outer) : ActivationOK(below[k], Nodes)
    BY <1>11, <2>1, <2>2
  <2>4. ActivationOK(below[Len(Outer) + 1], Nodes)
    BY <1>10, <2>1
  <2>5. \A k \in 1 .. Len(Outer) + 1 : k \in 1 .. Len(Outer) \/ k = Len(Outer) + 1
    <3>1. Len(Outer) \in Nat
      BY <2>1
    <3> QED
      BY <3>1
  <2> QED
    BY <2>1, <2>3, <2>4, <2>5
<1> HIDE DEF below
<1>13. CASE FrameDepth(Active.caller) >= MaxCallStackFrames
  BY <1>2, <1>13, FailKeepsInv
<1>14. CASE ~(FrameDepth(Active.caller) >= MaxCallStackFrames)
  <2>1. add_cfg_nodes(label, At(code[label].target), below, next)
    BY <1>2, <1>14 DEF label, below, a
  <2>2. Len(label.prefix) + 1 < MaxCallStackFrames
    BY <1>6, <1>7, <1>14, BuilderAssumption DEF FrameDepth
  <2>3. next \in 0 .. N
    BY InvFacts
  <2> QED
    BY <1>1, <1>5, <1>7, <1>9, <1>12, <2>1, <2>2, <2>3, AddCfgNodesKeepsInv
<1> QED
  BY <1>13, <1>14

(* One label of the callee is cloned. *)
LEMMA CloneIntoKeepsInv ==
  ASSUME CfgInv, phase = "inline", calls # <<>>, Active.walking,
         NEW m \in Nodes,
         CloneInto(m, Clone(m, FramePrefix(Active.caller)))
  PROVE  CfgInv'
<1> DEFINE prefix == FramePrefix(Active.caller)
           label == Clone(m, prefix)
           E == (IF Active.first THEN {<<Active.caller, label>>} ELSE {})
                  \cup {<<Clone(p, prefix), label>> : p \in parents[m]}
           g1 == AddEdges(Insert(Graph, {label}), E)
           g2 == AddEdges(g1, {<<label, Active.exitTo>>})
           g == IF exit \in g1.children[m] THEN g2 ELSE g1
           new == Unprocessed(m, g1.children[m] \ {exit}, Active.seen)
           a == [Active EXCEPT
                   !.first = FALSE,
                   !.macro = (@ \ {m}) \cup new,
                   !.seen = IF new = {} THEN @ ELSE @ \cup {m}]
<1>1. /\ SetGraph(g)
      /\ code' = EmplaceCode({label}, LAMBDA l : code[m])
      /\ calls' = Append(Outer, a)
      /\ UNCHANGED <<inputVars, annotated, phase, next, heads, error>>
  BY DEF CloneInto
<1>2. Active \in Activation /\ ActivationOK(Active, Nodes)
  BY ActiveFacts
<1>3. Active.caller \in Label /\ Active.caller # exit /\ Active.exitTo # entry
  BY <1>2 DEF Activation, ActivationOK
<1>4. m \in Label /\ parents[m] \subseteq Label
  BY InvFacts DEF GraphOK, Graph, NodesOf, Nodes
<1>5. /\ label \in Label /\ label # entry /\ label # exit
      /\ Len(label.prefix) = Len(Active.caller.prefix) + 1
      /\ \A p \in parents[m] : Clone(p, prefix) # exit
  BY <1>3, <1>4, CloneFacts
<1>6. \A e \in E : e[1] # exit /\ e[2] # entry
  <2> HIDE DEF label, prefix
  <2> QED
    BY <1>3, <1>5
<1>7. Len(label.prefix) < MaxCallStackFrames
  BY <1>2, <1>5 DEF ActivationOK
<1> HIDE DEF label
<1>8. /\ GraphOK(Insert(Graph, {label}))
      /\ NodesOf(Insert(Graph, {label})) = Nodes \cup {label}
  BY InvFacts, InsertKeepsOK
<1> HIDE DEF E
<1>9. GraphOK(g1) /\ NodesOf(g1) = Nodes \cup {label}
  BY <1>6, <1>8, AddEdgesKeepsOK
<1> HIDE DEF g1
<1>10. \A e \in {<<label, Active.exitTo>>} : e[1] # exit /\ e[2] # entry
  BY <1>3, <1>5
<1>11. GraphOK(g2) /\ NodesOf(g2) = Nodes \cup {label}
  BY <1>9, <1>10, AddEdgesKeepsOK
<1> HIDE DEF g2
<1>12. GraphOK(g) /\ NodesOf(g) = Nodes \cup {label}
  BY <1>9, <1>11
<1> HIDE DEF g
<1>13. Nodes' = Nodes \cup {label}
  BY <1>1, <1>12 DEF SetGraph, Nodes, NodesOf
<1>14. code' \in [Nodes \cup {label} -> Instruction]
  BY <1>1, InvFacts DEF EmplaceCode
<1>15. new \subseteq Label
  <2>1. g1.children[m] \subseteq Nodes \cup {label}
    BY <1>9 DEF GraphOK
  <2> QED
    BY <2>1, <1>5, InvFacts DEF Unprocessed
<1> HIDE DEF new
<1>16. a \in Activation
  BY <1>2, <1>4, <1>15 DEF Activation
<1>17. ActivationOK(a, Nodes')
  <2>1. /\ a.caller = Active.caller /\ a.exitTo = Active.exitTo
        /\ a.pending = Active.pending /\ a.walking = Active.walking
        /\ a.macro = (Active.macro \ {m}) \cup new
        /\ a.seen = IF new = {} THEN Active.seen ELSE Active.seen \cup {m}
    BY <1>2 DEF Activation
  <2> HIDE DEF a
  <2>2. \A x \in a.seen : x \in a.macro \/ Clone(x, FramePrefix(a.caller)) \in Nodes'
    BY <1>2, <1>13, <2>1 DEF ActivationOK, label
  <2> QED
    BY <1>2, <1>13, <2>1, <2>2 DEF ActivationOK
<1> HIDE DEF a
<1>18. CallsOK' /\ calls' \in Seq(Activation)
  BY <1>1, <1>13, <1>16, <1>17, TopReplaced
<1>19. error = "none" /\ \A j \in Defined : At(j) \in NodesOf(g)
  BY <1>12 DEF CfgInv, CfgTypeOK, InstructionsPresent
<1>20. /\ NodesOf(g) \subseteq Label
       /\ \A l \in NodesOf(g) : Len(l.prefix) < MaxCallStackFrames
  BY <1>5, <1>7, <1>12, InvFacts
<1>21. next' \in 0 .. N /\ phase' = "inline"
  BY <1>1, InvFacts
<1> QED
  BY <1>1, <1>12, <1>14, <1>18, <1>19, <1>20, <1>21, GrowKeepsInv

LEMMA CloneLabelKeepsInv ==
  ASSUME CfgInv, CloneLabel
  PROVE  CfgInv'
<1>1. phase = "inline" /\ calls # <<>> /\ Active.walking
  BY DEF CloneLabel
<1>2. PICK m \in Active.macro :
        LET prefix == FramePrefix(Active.caller)
        IN  IF m.prefix = prefix THEN Fail("illegal recursion")
            ELSE IF m \notin Nodes THEN Fail("no such label")
            ELSE IF Clone(m, prefix) \in Nodes THEN Fail("already exists")
            ELSE CloneInto(m, Clone(m, prefix))
  BY DEF CloneLabel
<1>3. \/ \E e : e # "none" /\ Fail(e)
      \/ m \in Nodes /\ CloneInto(m, Clone(m, FramePrefix(Active.caller)))
  BY <1>2
<1> QED
  BY <1>1, <1>3, FailKeepsInv, CloneIntoKeepsInv

(* The end of the inlining pass. *)
LEMMA EndInliningKeepsInv ==
  ASSUME CfgInv, EndInlining
  PROVE  CfgInv'
<1>1. /\ phase = "inline" /\ phase' = "built"
      /\ UNCHANGED <<inputVars, graphVars, annotated, next, calls, heads, error>>
  BY DEF EndInlining
<1>2. CfgTypeOK'
  BY <1>1, SameGraph DEF CfgInv, CfgTypeOK
<1> QED
  BY <1>1, <1>2, SameGraph, CallsKept DEF CfgInv, InstructionsPresent

(* The loop heads are labels of the graph. *)
LEMMA BuildWtoKeepsInv ==
  ASSUME CfgInv, BuildWto
  PROVE  CfgInv'
<1>1. /\ phase = "built" /\ phase' = "count"
      /\ heads' \in IF options.check_for_termination THEN HeadChoices ELSE {{}}
      /\ UNCHANGED <<inputVars, graphVars, annotated, next, calls, error>>
  BY DEF BuildWto
<1>2. heads' \subseteq Nodes
  BY <1>1 DEF HeadChoices, Loops
<1>3. CfgTypeOK'
  BY <1>1, <1>2, SameGraph DEF CfgInv, CfgTypeOK
<1> QED
  BY <1>1, <1>3, SameGraph, CallsKept DEF CfgInv, InstructionsPresent

(* A loop counter is inserted. *)
LEMMA InsertCounterKeepsInv ==
  ASSUME CfgInv, NEW h \in heads, InsertCounter(h)
  PROVE  CfgInv'
<1> DEFINE new == make_increment_counter(h)
           g == InsertAfter(Graph, h, new)
<1>1. /\ phase = "count" /\ SetGraph(g) /\ heads' = heads \ {h}
      /\ code' = EmplaceCode({new}, LAMBDA l : [kind |-> "counter", target |-> 0])
      /\ UNCHANGED <<inputVars, annotated, phase, next, calls, error>>
  BY DEF InsertCounter
<1>2. h \in Nodes /\ h \in Label
  BY InvFacts
<1>3. new \in Label /\ new.prefix = h.prefix /\ new # entry /\ new # exit
  BY <1>2 DEF make_increment_counter, Label, entry, exit, At, MkLabel
<1> HIDE DEF new
<1>4. GraphOK(g) /\ NodesOf(g) = Nodes \cup {new}
  BY <1>2, <1>3, InvFacts, InsertAfterKeepsOK
<1> HIDE DEF g
<1>5. /\ Nodes \subseteq NodesOf(g) /\ NodesOf(g) \subseteq Label
      /\ \A l \in NodesOf(g) : Len(l.prefix) < MaxCallStackFrames
  BY <1>2, <1>3, <1>4, InvFacts
<1>6. UNCHANGED inputVars
  BY <1>1
<1>7. code' \in [NodesOf(g) -> Instruction]
  BY <1>1, <1>4, InvFacts DEF EmplaceCode, Instruction, Kinds
<1>8. Nodes' = NodesOf(g) /\ FramesAreBounded' /\ GraphOK(Graph)' /\ InputsOK'
  BY <1>1, <1>4, <1>5, <1>6, GraphStep
<1>9. CallsOK' /\ calls' \in Seq(Activation)
  BY <1>1, <1>5, <1>8, CallsKept, InvFacts
<1>10. CfgTypeOK'
  BY <1>1, <1>4, <1>5, <1>6, <1>7, <1>9, GraphStep, InvFacts DEF CfgInv, CfgTypeOK
<1> QED
  BY <1>1, <1>8, <1>9, <1>10 DEF CfgInv, InstructionsPresent

(* The assertions are attached. *)
LEMMA SetAssertionsKeepsInv ==
  ASSUME CfgInv, SetAssertions
  PROVE  CfgInv'
<1>1. /\ phase = "count" /\ phase' = "done" /\ annotated' = annotated \cup Nodes
      /\ UNCHANGED <<inputVars, graphVars, next, calls, heads, error>>
  BY DEF SetAssertions
<1>2. CfgTypeOK'
  BY <1>1, SameGraph DEF CfgInv, CfgTypeOK
<1> QED
  BY <1>1, <1>2, SameGraph, CallsKept DEF CfgInv, InstructionsPresent

(* Nothing happens. *)
LEMMA StutterKeepsInv ==
  ASSUME CfgInv, UNCHANGED cfgVars
  PROVE  CfgInv'
<1>1. UNCHANGED <<inputVars, graphVars>> /\ UNCHANGED <<annotated, phase, next,
                                                        calls, heads, error>>
  BY DEF cfgVars
<1>2. CfgTypeOK'
  BY <1>1, SameGraph DEF CfgInv, CfgTypeOK
<1> QED
  BY <1>1, <1>2, SameGraph, CallsKept DEF CfgInv, InstructionsPresent

-----------------------------------------------------------------------------
(***************************************************************************)
(* The theorems.                                                           *)
(***************************************************************************)

(* The invariant is inductive: every part of from_sequence keeps it, for   *)
(* all instruction sequences.                                              *)
THEOREM CfgInvariance == CfgSpec => []CfgInv
<1>1. CfgInit => CfgInv
  BY InitEstablishesInv
<1>2. CfgInv /\ [CfgNext]_cfgVars => CfgInv'
  <2> SUFFICES ASSUME CfgInv, [CfgNext]_cfgVars
               PROVE  CfgInv'
    OBVIOUS
  <2>1. CASE InsertInstructions
    BY <2>1, InsertInstructionsKeepsInv
  <2>2. CASE \E i \in DOMAIN insts : LinkInstruction(i)
    BY <2>2, LinkInstructionKeepsInv
  <2>3. CASE StartInlining
    BY <2>3, StartInliningKeepsInv
  <2>4. CASE InlineNext
    BY <2>4, InlineNextKeepsInv
  <2>5. CASE CloneLabel
    BY <2>5, CloneLabelKeepsInv
  <2>6. CASE EndWalk
    BY <2>6, EndWalkKeepsInv
  <2>7. CASE InlineNested
    BY <2>7, InlineNestedKeepsInv
  <2>8. CASE Return
    BY <2>8, ReturnKeepsInv
  <2>9. CASE EndInlining
    BY <2>9, EndInliningKeepsInv
  <2>10. CASE BuildWto
    BY <2>10, BuildWtoKeepsInv
  <2>11. CASE \E h \in heads : InsertCounter(h)
    BY <2>11, InsertCounterKeepsInv
  <2>12. CASE SetAssertions
    BY <2>12, SetAssertionsKeepsInv
  <2>13. CASE UNCHANGED cfgVars
    BY <2>13, StutterKeepsInv
  <2> QED
    BY <2>1, <2>2, <2>3, <2>4, <2>5, <2>6, <2>7, <2>8, <2>9, <2>10, <2>11,
       <2>12, <2>13 DEF CfgNext, CfgStep
<1> QED
  BY <1>1, <1>2, PTL DEF CfgSpec

(* Type correctness of the builder's state. *)
THEOREM CfgTypeCorrect == CfgSpec => []CfgTypeOK
<1>1. CfgInv => CfgTypeOK
  BY DEF CfgInv
<1> QED
  BY <1>1, CfgInvariance, PTL

(* children_of and parents_of describe the same edges throughout           *)
(* add_child, remove_child and insert_after.                               *)
THEOREM EdgesAreMirrored == CfgSpec => []EdgesMirrored
<1>1. CfgInv => EdgesMirrored
  BY DEF CfgInv, GraphOK, EdgesMirrored, Graph, NodesOf, Nodes
<1> QED
  BY <1>1, CfgInvariance, PTL

(* The two assertions of add_child hold: no edge leads to the entry and    *)
(* none leaves the exit.                                                   *)
THEOREM EntryAndExitStayEnds == CfgSpec => []EntryAndExitAreEnds
<1>1. CfgInv => EntryAndExitAreEnds
  BY DEF CfgInv, GraphOK, EntryAndExitAreEnds, Graph, NodesOf
<1> QED
  BY <1>1, CfgInvariance, PTL

(* add_cfg_nodes never makes a label below MAX_CALL_STACK_FRAMES frames,   *)
(* recursive programs included.                                            *)
THEOREM FramesStayBounded == CfgSpec => []FramesAreBounded
<1>1. CfgInv => FramesAreBounded
  BY DEF CfgInv
<1> QED
  BY <1>1, CfgInvariance, PTL
=============================================================================
