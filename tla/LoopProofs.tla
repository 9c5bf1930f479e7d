----------------------------- MODULE LoopProofs -----------------------------
(***************************************************************************)
(* Theorems about the loop counters of CfgBuilder, for every instruction   *)
(* sequence: insert_after cuts each outermost loop of the graph with a     *)
(* counter and changes no path.                                            *)
(***************************************************************************)
EXTENDS CfgProofs, Induction

(* ch maps each label of its domain to labels of its domain. *)
Edges(ch) == ch \in [DOMAIN ch -> SUBSET DOMAIN ch]

(* The labels T and all their successors. *)
OneMore(ch, T) == T \cup UNION {ch[l] : l \in T}

(* No edge leaves C. *)
Closed(ch, C) == C \subseteq DOMAIN ch /\ \A l \in C : ch[l] \subseteq C

(* The least set that contains S and that no edge leaves. *)
Least(ch, S) ==
  {x \in DOMAIN ch : \A C \in SUBSET DOMAIN ch :
                       Closed(ch, C) /\ S \subseteq C => x \in C}

-----------------------------------------------------------------------------
(***************************************************************************)
(* What Closure computes.                                                  *)
(***************************************************************************)

(* Least is what its name says. *)
LEMMA LeastFacts ==
  ASSUME NEW ch, Edges(ch), NEW S \in SUBSET DOMAIN ch
  PROVE  /\ S \subseteq Least(ch, S)
         /\ Closed(ch, Least(ch, S))
         /\ \A C : Closed(ch, C) /\ S \subseteq C => Least(ch, S) \subseteq C
<1>1. S \subseteq Least(ch, S)
  BY DEF Least
<1>2. ASSUME NEW l \in Least(ch, S), NEW x \in ch[l]
      PROVE  x \in Least(ch, S)
  <2>1. x \in DOMAIN ch
    BY DEF Least, Edges
  <2>2. ASSUME NEW C \in SUBSET DOMAIN ch, Closed(ch, C), S \subseteq C
        PROVE  x \in C
    <3>1. l \in C
      BY <2>2 DEF Least
    <3> QED
      BY <2>2, <3>1 DEF Closed
  <2> QED
    BY <2>1, <2>2 DEF Least
<1>3. Closed(ch, Least(ch, S))
  BY <1>2 DEF Closed, Least
<1>4. \A C : Closed(ch, C) /\ S \subseteq C => Least(ch, S) \subseteq C
  BY DEF Least, Closed
<1> QED
  BY <1>1, <1>3, <1>4

(* A larger set reaches more. *)
LEMMA LeastIsMonotonic ==
  ASSUME NEW ch, Edges(ch), NEW S \in SUBSET DOMAIN ch,
         NEW T \in SUBSET DOMAIN ch, S \subseteq Least(ch, T)
  PROVE  Least(ch, S) \subseteq Least(ch, T)
BY LeastFacts

(* f solves the equation that defines Closure. *)
IsClosure(ch, f) ==
  f = [T \in SUBSET DOMAIN ch |->
         IF OneMore(ch, T) = T THEN T ELSE f[OneMore(ch, T)]]

(* One round of Closure changes nothing of what is reached. *)
LEMMA LeastOfOneMore ==
  ASSUME NEW ch, Edges(ch), NEW T \in SUBSET DOMAIN ch
  PROVE  /\ OneMore(ch, T) \in SUBSET DOMAIN ch
         /\ T \subseteq OneMore(ch, T)
         /\ OneMore(ch, T) = T => Least(ch, T) = T
         /\ Least(ch, OneMore(ch, T)) = Least(ch, T)
<1>1. OneMore(ch, T) \in SUBSET DOMAIN ch /\ T \subseteq OneMore(ch, T)
  BY DEF OneMore, Edges
<1>2. ASSUME OneMore(ch, T) = T
      PROVE  Least(ch, T) = T
  <2>1. Closed(ch, T)
    BY <1>2 DEF Closed, OneMore
  <2> QED
    BY <2>1, LeastFacts
<1>3. Least(ch, T) \subseteq Least(ch, OneMore(ch, T))
  <2>1. T \subseteq Least(ch, OneMore(ch, T))
    BY <1>1, LeastFacts
  <2> QED
    BY <1>1, <2>1, LeastIsMonotonic
<1>4. OneMore(ch, T) \subseteq Least(ch, T)
  BY LeastFacts DEF OneMore, Closed
<1>5. Least(ch, OneMore(ch, T)) \subseteq Least(ch, T)
  BY <1>1, <1>4, LeastIsMonotonic
<1> QED
  BY <1>1, <1>2, <1>3, <1>5

(* Least solves the equation ... *)
LEMMA LeastIsClosure ==
  ASSUME NEW ch, Edges(ch)
  PROVE  IsClosure(ch, [T \in SUBSET DOMAIN ch |-> Least(ch, T)])
<1> DEFINE f == [T \in SUBSET DOMAIN ch |-> Least(ch, T)]
<1>1. ASSUME NEW T \in SUBSET DOMAIN ch
      PROVE  f[T] = IF OneMore(ch, T) = T THEN T ELSE f[OneMore(ch, T)]
  BY LeastOfOneMore
<1> QED
  BY <1>1 DEF IsClosure

(* ... and on a finite graph nothing else does: a round that changes the   *)
(* set leaves fewer labels outside.                                        *)
LEMMA ClosureIsLeast ==
  ASSUME NEW ch, Edges(ch), IsFiniteSet(DOMAIN ch),
         NEW f, IsClosure(ch, f), NEW S \in SUBSET DOMAIN ch
  PROVE  f[S] = Least(ch, S)
<1> DEFINE D == DOMAIN ch
           Left(T) == Cardinality(D \ T)
           wrong == {T \in SUBSET D : f[T] # Least(ch, T)}
           sizes == {Left(T) : T \in wrong}
<1>1. \A T \in SUBSET D : IsFiniteSet(D \ T) /\ Left(T) \in Nat
  <2>1. \A T \in SUBSET D : IsFiniteSet(D \ T)
    BY FS_Difference
  <2> QED
    BY <2>1, FS_CardinalityType
<1> SUFFICES ASSUME wrong # {} PROVE FALSE
  OBVIOUS
<1>2. sizes \subseteq Nat /\ sizes # {}
  <2> HIDE DEF Left
  <2> QED
    BY <1>1
<1>3. PICK n \in sizes : \A k \in sizes : n <= k
  <2> HIDE DEF sizes
  <2> QED
    BY <1>2, LeastNatural
<1>4. PICK T \in wrong : n = Left(T)
  <2> HIDE DEF Left
  <2> QED
    BY <1>3
<1>5. f[T] = IF OneMore(ch, T) = T THEN T ELSE f[OneMore(ch, T)]
  BY DEF IsClosure
<1>6. OneMore(ch, T) # T /\ f[OneMore(ch, T)] # Least(ch, OneMore(ch, T))
  BY <1>4, <1>5, LeastOfOneMore
<1> DEFINE U == OneMore(ch, T)
<1>7. U \in SUBSET D /\ T \subseteq U /\ U # T
  BY <1>6, LeastOfOneMore
<1>8. U \in wrong
  BY <1>6, <1>7
<1>9. PICK x \in U : x \notin T
  BY <1>7
<1>10. Left(U) < Left(T)
  <2>1. D \ U \subseteq (D \ T) \ {x} /\ x \in D \ T
    BY <1>7, <1>9
  <2>2. IsFiniteSet(D \ T) /\ IsFiniteSet((D \ T) \ {x})
    BY <1>1, FS_Subset
  <2>3. Cardinality((D \ T) \ {x}) = Cardinality(D \ T) - 1
    BY <2>1, <2>2, FS_RemoveElement
  <2>4. Cardinality(D \ U) <= Cardinality((D \ T) \ {x})
    BY <2>1, <2>2, FS_Subset
  <2>5. Cardinality(D \ U) \in Nat /\ Cardinality(D \ T) \in Nat
    BY <1>1, <1>7
  <2> QED
    BY <2>3, <2>4, <2>5
<1>11. Left(U) \in sizes
  <2> HIDE DEF Left, wrong
  <2> QED
    BY <1>8
<1>12. n <= Left(U) /\ n \in Nat /\ Left(U) \in Nat /\ Left(T) \in Nat
  <2> HIDE DEF Left, U, sizes
  <2> QED
    BY <1>2, <1>3, <1>4, <1>11
<1> QED
  <2> HIDE DEF Left, U
  <2> QED
    BY <1>4, <1>10, <1>12

(* Closure is the set of labels reached along ch. *)
LEMMA ClosureFacts ==
  ASSUME NEW ch, Edges(ch), IsFiniteSet(DOMAIN ch), NEW S \in SUBSET DOMAIN ch
  PROVE  Closure(ch, S) = Least(ch, S)
<1> DEFINE F == CHOOSE f : IsClosure(ch, f)
<1>1. IsClosure(ch, F)
  BY LeastIsClosure
<1>2. Closure(ch, S) = F[S]
  BY DEF Closure, IsClosure, OneMore
<1> HIDE DEF F
<1> QED
  BY <1>1, <1>2, ClosureIsLeast

-----------------------------------------------------------------------------
(***************************************************************************)
(* What insert_after does to the paths.                                    *)
(***************************************************************************)

(* ch2 is ch with the new label c between h and its successors. *)
Inserted(ch, h, c, ch2) ==
  /\ DOMAIN ch2 = DOMAIN ch \cup {c}
  /\ \A l \in DOMAIN ch \ {h} : ch2[l] = ch[l]
  /\ ch2[h] = IF ch[h] = {} THEN {} ELSE {c}
  /\ ch2[c] = ch[h]

(* insert_after inserts a label. *)
LEMMA InsertAfterInserts ==
  ASSUME NEW g, GraphOK(g), NEW h \in NodesOf(g), NEW c, c \notin NodesOf(g)
  PROVE  Inserted(g.children, h, c, InsertAfter(g, h, c).children)
<1> DEFINE ch == g.children
           D == NodesOf(g)
           detached == [g.children EXCEPT ![h] = {}]
           pa == [l \in NodesOf(g) |->
                    IF l \in g.children[h] THEN g.parents[l] \ {h}
                    ELSE g.parents[l]]
           g1 == Insert([children |-> detached, parents |-> pa], {c})
           E == IF ch[h] = {} THEN {} ELSE {<<h, c>>} \cup ({c} \X ch[h])
           new == {e \in E : e[1] \in NodesOf(g1) /\ e[2] \in NodesOf(g1)}
<1>1. InsertAfter(g, h, c) = AddEdges(g1, E)
  BY DEF InsertAfter
<1>2. ch \in [D -> SUBSET D]
  BY DEF GraphOK
<1>3. /\ NodesOf(g1) = D \cup {c}
      /\ g1.children = [l \in D \cup {c} |-> IF l \in D THEN detached[l] ELSE {}]
  <2>1. DOMAIN detached = D
    BY <1>2 DEF NodesOf
  <2> QED
    BY <2>1 DEF Insert, NodesOf
<1>4. \A l \in D \ {h} : g1.children[l] = ch[l]
  BY <1>2, <1>3
<1>5. g1.children[h] = {} /\ g1.children[c] = {}
  BY <1>2, <1>3
<1> HIDE DEF g1
<1> DEFINE Out(l) == {e[2] : e \in {f \in new : f[1] = l}}
           ch2 == [l \in D \cup {c} |-> g1.children[l] \cup Out(l)]
<1>6. InsertAfter(g, h, c).children = ch2
  BY <1>1, <1>3 DEF AddEdges
<1>7. \A l, x : x \in Out(l) <=> \E e \in new : e[1] = l /\ e[2] = x
  OBVIOUS
<1>8. new = E
  BY <1>2, <1>3
<1> HIDE DEF new, Out
<1>9. \A l \in D \cup {c} : ch2[l] = g1.children[l] \cup Out(l)
  OBVIOUS
<1>10. DOMAIN ch2 = D \cup {c}
  OBVIOUS
<1> HIDE DEF ch2
<1>11. CASE ch[h] = {}
  <2>1. \A l : Out(l) = {}
    BY <1>7, <1>8, <1>11
  <2> QED
    BY <1>4, <1>5, <1>6, <1>9, <1>10, <1>11, <2>1 DEF Inserted, NodesOf
<1>12. CASE ch[h] # {}
  <2>1. \A e : e \in new <=> e = <<h, c>> \/ \E y \in ch[h] : e = <<c, y>>
    BY <1>8, <1>12
  <2>2. \A l, x : x \in Out(l) <=> (l = h /\ x = c) \/ (l = c /\ x \in ch[h])
    <3> TAKE l, x
    <3>1. <<h, c>>[1] = h /\ <<h, c>>[2] = c
      OBVIOUS
    <3>2. \A y : <<c, y>>[1] = c /\ <<c, y>>[2] = y
      OBVIOUS
    <3>3. (\E e \in new : e[1] = l /\ e[2] = x)
            => (l = h /\ x = c) \/ (l = c /\ x \in ch[h])
      BY <2>1, <3>1, <3>2
    <3>4. <<h, c>> \in new /\ \A y \in ch[h] : <<c, y>> \in new
      BY <2>1
    <3> HIDE DEF ch
    <3>5. (l = h /\ x = c) \/ (l = c /\ x \in ch[h])
            => \E e \in new : e[1] = l /\ e[2] = x
      BY <3>1, <3>2, <3>4
    <3> QED
      BY <1>7, <3>3, <3>5
  <2>3. Out(h) = {c} /\ Out(c) = ch[h] /\ \A l \in D \ {h} : Out(l) = {}
    BY <2>2
  <2>4. \A l \in D \ {h} : ch2[l] = ch[l]
    BY <1>4, <1>9, <2>3
  <2>5. ch2[h] = {c} /\ ch2[c] = ch[h]
    BY <1>5, <1>9, <2>3
  <2> QED
    BY <1>6, <1>10, <1>12, <2>4, <2>5 DEF Inserted, NodesOf
<1> QED
  BY <1>11, <1>12

(* What is reached after the insertion: the same labels, and the new one   *)
(* wherever h is reached and has a successor.                              *)
LEMMA InsertedReach ==
  ASSUME NEW ch, Edges(ch), NEW h \in DOMAIN ch, NEW c, c \notin DOMAIN ch,
         NEW ch2, ch2 = [l \in DOMAIN ch2 |-> ch2[l]], Inserted(ch, h, c, ch2),
         NEW S \in SUBSET DOMAIN ch
  PROVE  /\ Edges(ch2)
         /\ \A l \in DOMAIN ch : l \in Least(ch2, S) <=> l \in Least(ch, S)
         /\ c \in Least(ch2, S) <=> ch[h] # {} /\ h \in Least(ch, S)
<1> DEFINE L == Least(ch, S)
           M == Least(ch2, S)
           extra == IF ch[h] # {} /\ h \in L THEN {c} ELSE {}
<1>1. Edges(ch2)
  BY DEF Edges, Inserted
<1>2. /\ S \subseteq L /\ Closed(ch, L)
      /\ \A C : Closed(ch, C) /\ S \subseteq C => L \subseteq C
  BY LeastFacts
<1>3. S \in SUBSET DOMAIN ch2
  BY DEF Inserted
<1>4. /\ S \subseteq M /\ Closed(ch2, M)
      /\ \A C : Closed(ch2, C) /\ S \subseteq C => M \subseteq C
  BY <1>1, <1>3, LeastFacts
<1> HIDE DEF L, M
<1>5. M \subseteq L \cup extra
  <2>1. L \cup extra \subseteq DOMAIN ch2
    BY <1>2 DEF Closed, Inserted
  <2>2. \A l \in L : ch2[l] \subseteq L \cup extra
    BY <1>2 DEF Closed, Inserted
  <2>3. \A l \in extra : ch2[l] \subseteq L \cup extra
    BY <1>2 DEF Closed, Inserted
  <2>4. Closed(ch2, L \cup extra)
    BY <2>1, <2>2, <2>3 DEF Closed
  <2> QED
    BY <1>2, <1>4, <2>4
<1>6. L \subseteq M
  <2> DEFINE C == M \cap DOMAIN ch
  <2>1. ASSUME NEW l \in C
        PROVE  ch[l] \subseteq C
    <3>1. ch[l] \subseteq DOMAIN ch
      BY DEF Edges
    <3>2. CASE l # h
      BY <1>4, <3>1, <3>2 DEF Closed, Inserted
    <3>3. CASE l = h /\ ch[h] # {}
      <4>1. c \in M
        BY <1>4, <3>3 DEF Closed, Inserted
      <4> QED
        BY <1>4, <3>1, <3>3, <4>1 DEF Closed, Inserted
    <3> QED
      BY <3>2, <3>3
  <2>2. Closed(ch, C)
    BY <2>1 DEF Closed
  <2> QED
    BY <1>2, <1>4, <2>2
<1>7. extra \subseteq M
  BY <1>4, <1>6 DEF Closed, Inserted
<1>8. M = L \cup extra /\ L \subseteq DOMAIN ch
  BY <1>2, <1>5, <1>6, <1>7 DEF Closed
<1> QED
  BY <1>1, <1>8 DEF L, M

-----------------------------------------------------------------------------
(***************************************************************************)
(* The inductive invariant.                                                *)
(***************************************************************************)

(* S can be added to the labels before the loops are counted. *)
Plain(S) == IsFiniteSet(S) /\ \A l \in S : l.special = 0

(* The labels are finitely many, none is a counter before the loops are    *)
(* counted, and the counter of a head that is still to be visited is not   *)
(* there yet.                                                              *)
PlainInv ==
  /\ IsFiniteSet(Nodes)
  /\ phase \notin {"count", "done"} => \A l \in Nodes : l.special = 0
  /\ phase # "count" => heads = {}
  /\ \A h \in heads : h.special = 0 /\ make_increment_counter(h) \notin Nodes

(* l is on a loop that the entry reaches. *)
OnLoop(ch, l) == l \in Least(ch, {entry}) /\ l \in Least(ch, ch[l])

(* l and m reach one another. *)
SameLoop(ch, l, m) == m \in Least(ch, {l}) /\ l \in Least(ch, {m})

(* Every way on from l is by its counter. *)
Cut(l) == l.special = 0 /\ children[l] = {make_increment_counter(l)}

(* Every label on a loop shares it with a label that is left by a counter  *)
(* only, or with a head that is still to be visited.                       *)
LoopInv ==
  (phase \in {"count", "done"} /\ options.check_for_termination) =>
    \A l \in Nodes : OnLoop(children, l) =>
      \E m \in Nodes : /\ OnLoop(children, m)
                       /\ SameLoop(children, l, m)
                       /\ Cut(m) \/ m \in heads

(* The operations on a graph and its labels. *)
LEMMA NodesOfFacts ==
  ASSUME NEW g
  PROVE  /\ \A E : NodesOf(AddEdges(g, E)) = NodesOf(g)
         /\ \A S : NodesOf(Insert(g, S)) = NodesOf(g) \cup S
         /\ \A a, b : NodesOf(remove_child(g, a, b)) = NodesOf(g)
         /\ SetGraph(g) => Nodes' = NodesOf(g)
<1>1. \A E : NodesOf(AddEdges(g, E)) = NodesOf(g)
  BY DEF NodesOf, AddEdges
<1>2. \A S : NodesOf(Insert(g, S)) = NodesOf(g) \cup S
  BY DEF NodesOf, Insert
<1>3. \A a, b : NodesOf(remove_child(g, a, b)) = NodesOf(g)
  BY DEF NodesOf, remove_child
<1>4. SetGraph(g) => Nodes' = NodesOf(g)
  BY DEF SetGraph, Nodes, NodesOf
<1> QED
  BY <1>1, <1>2, <1>3, <1>4

(* The labels after an insert and the edges that go with it. *)
LEMMA GrownNodes ==
  ASSUME NEW S, NEW E
  PROVE  NodesOf(AddEdges(Insert(Graph, S), E)) = Nodes \cup S
<1>1. NodesOf(Graph) = Nodes
  BY DEF NodesOf, Graph, Nodes
<1> QED
  BY <1>1, NodesOfFacts

(* Sets of at most two labels that are no counters. *)
LEMMA PlainFacts ==
  /\ Plain({})
  /\ \A p, f, t : Plain({MkLabel(p, f, t)})
  /\ \A p, f, t, q, a, b : Plain({MkLabel(p, f, t), MkLabel(q, a, b)})
<1>1. \A a, b : IsFiniteSet({}) /\ IsFiniteSet({a}) /\ IsFiniteSet({a, b})
  <2> TAKE a, b
  <2>1. IsFiniteSet({}) /\ IsFiniteSet({a}) /\ IsFiniteSet({b})
    BY FS_EmptySet, FS_Singleton
  <2>2. IsFiniteSet({a} \cup {b})
    BY <2>1, FS_Union
  <2>3. {a, b} = {a} \cup {b}
    OBVIOUS
  <2> QED
    BY <2>1, <2>2, <2>3
<1>2. \A p, f, t : MkLabel(p, f, t).special = 0
  BY DEF MkLabel
<1> QED
  BY <1>1, <1>2 DEF Plain

(* While the graph is built, a step adds finitely many labels, none of     *)
(* them a counter.                                                         *)
Grows == \E S : Plain(S) /\ Nodes' = Nodes \cup S

LEMMA FailGrows ==
  ASSUME NEW e, Fail(e)
  PROVE  Grows /\ phase' = "error" /\ UNCHANGED heads
<1>1. Nodes' = Nodes \cup {}
  BY DEF Fail, graphVars, Nodes
<1> QED
  BY <1>1, PlainFacts DEF Grows, Fail

LEMMA InsertInstructionsGrows ==
  ASSUME CfgInv, InsertInstructions
  PROVE  Grows /\ phase' \notin {"count", "done"} /\ UNCHANGED heads
<1> DEFINE new == {At(i) : i \in Defined}
           g == AddEdges(Insert(Graph, new), {<<entry, At(0)>>})
<1>1. \/ \E e : Fail(e)
      \/ SetGraph(g) /\ phase' = "link" /\ UNCHANGED heads
  BY DEF InsertInstructions
<1>2. Plain(new)
  <2>1. IsFiniteSet(Defined)
    <3>1. /\ DOMAIN insts = 0 .. N - 1 /\ N \in Nat
      BY InputFacts DEF CfgInv
    <3>2. IsFiniteSet(0 .. N - 1)
      BY <3>1, FS_Interval
    <3> QED
      BY <3>1, <3>2, FS_Subset DEF Defined
  <2> DEFINE f == [i \in Defined |-> At(i)]
  <2>2. new = {f[i] : i \in Defined}
    OBVIOUS
  <2> HIDE DEF f
  <2>3. IsFiniteSet(new)
    BY <2>1, <2>2, FiniteValues
  <2>4. \A l \in new : l.special = 0
    BY DEF At, MkLabel
  <2> QED
    BY <2>3, <2>4 DEF Plain
<1> HIDE DEF new
<1>3. NodesOf(g) = Nodes \cup new
  BY GrownNodes
<1> HIDE DEF g
<1>4. SetGraph(g) => Nodes' = Nodes \cup new
  BY <1>3, NodesOfFacts
<1> QED
  BY <1>1, <1>2, <1>4, FailGrows DEF Grows

LEMMA LinkInstructionGrows ==
  ASSUME NEW i, LinkInstruction(i)
  PROVE  Grows /\ phase' \notin {"count", "done"} /\ UNCHANGED heads
<1>1. ASSUME NEW E, LinkTo(i, E)
      PROVE  Grows /\ phase' \notin {"count", "done"} /\ UNCHANGED heads
  <2>1. \/ \E e : Fail(e)
        \/ SetGraph(AddEdges(Graph, E)) /\ UNCHANGED <<phase, heads>>
    BY <1>1 DEF LinkTo
  <2>2. SetGraph(AddEdges(Graph, E)) => Nodes' = Nodes \cup {}
    BY NodesOfFacts DEF NodesOf, Graph, Nodes
  <2>3. phase = "link"
    BY DEF LinkInstruction
  <2> QED
    BY <2>1, <2>2, <2>3, FailGrows, PlainFacts DEF Grows
<1>2. ASSUME NEW target, Branch(i, target)
      PROVE  Grows /\ phase' \notin {"count", "done"} /\ UNCHANGED heads
  <2> DEFINE jump == make_jump(At(i), target)
             fall == make_jump(At(i), Fallthrough(i))
             E == {<<At(i), jump>>, <<jump, target>>,
                   <<At(i), fall>>, <<fall, Fallthrough(i)>>}
             g == AddEdges(Insert(Graph, {jump, fall}), E)
  <2>1. \/ \E e : Fail(e)
        \/ SetGraph(g) /\ UNCHANGED <<phase, heads>>
    BY <1>2 DEF Branch
  <2>2. Plain({jump, fall})
    BY PlainFacts DEF make_jump
  <2> HIDE DEF jump, fall, E
  <2>3. NodesOf(g) = Nodes \cup {jump, fall}
    BY GrownNodes
  <2>4. phase = "link"
    BY DEF LinkInstruction
  <2> HIDE DEF g
  <2>5. SetGraph(g) => Nodes' = Nodes \cup {jump, fall}
    BY <2>3, NodesOfFacts
  <2> QED
    BY <2>1, <2>2, <2>4, <2>5, FailGrows DEF Grows
<1>3. \/ \E e : Fail(e)
      \/ \E E : LinkTo(i, E)
      \/ \E target : Branch(i, target)
  BY DEF LinkInstruction
<1> QED
  BY <1>1, <1>2, <1>3, FailGrows

(* add_cfg_nodes only pushes an activation. *)
LEMMA AddCfgNodesGrows ==
  ASSUME NEW caller, NEW target, NEW activations, NEW n,
         add_cfg_nodes(caller, target, activations, n)
  PROVE  /\ Grows /\ UNCHANGED heads
         /\ phase' = phase \/ phase' = "error"
<1>1. \/ \E e : Fail(e)
      \/ UNCHANGED <<graphVars, phase, heads>>
  BY DEF add_cfg_nodes
<1>2. UNCHANGED graphVars => Nodes' = Nodes \cup {}
  BY DEF graphVars, Nodes
<1> QED
  BY <1>1, <1>2, FailGrows, PlainFacts DEF Grows

LEMMA CloneLabelGrows ==
  ASSUME CloneLabel
  PROVE  Grows /\ phase' \notin {"count", "done"} /\ UNCHANGED heads
<1>1. PICK m \in Active.macro :
        \/ \E e : Fail(e)
        \/ CloneInto(m, Clone(m, FramePrefix(Active.caller)))
  BY DEF CloneLabel
<1> DEFINE prefix == FramePrefix(Active.caller)
           label == Clone(m, prefix)
           E == (IF Active.first THEN {<<Active.caller, label>>} ELSE {})
                  \cup {<<Clone(p, prefix), label>> : p \in parents[m]}
           g1 == AddEdges(Insert(Graph, {label}), E)
           g == IF exit \in g1.children[m]
                THEN AddEdges(g1, {<<label, Active.exitTo>>})
                ELSE g1
<1>2. CloneInto(m, label) => SetGraph(g) /\ UNCHANGED <<phase, heads>>
  BY DEF CloneInto
<1>3. Plain({label})
  BY PlainFacts DEF Clone
<1> HIDE DEF label, E
<1>4. NodesOf(g1) = Nodes \cup {label}
  BY GrownNodes
<1> HIDE DEF g1
<1>5. NodesOf(g) = Nodes \cup {label}
  BY <1>4, NodesOfFacts
<1> HIDE DEF g
<1>6. SetGraph(g) => Nodes' = Nodes \cup {label}
  BY <1>5, NodesOfFacts
<1>7. phase = "inline"
  BY DEF CloneLabel
<1>8. CASE \E e : Fail(e)
  BY <1>8, FailGrows
<1>9. CASE CloneInto(m, label)
  BY <1>2, <1>3, <1>6, <1>7, <1>9 DEF Grows
<1> QED
  BY <1>1, <1>8, <1>9 DEF label

(* Every step before the loops are counted grows the graph in this way. *)
LEMMA BuildingGrows ==
  ASSUME CfgInv, CfgNext, phase \notin {"built", "count", "done"}
  PROVE  Grows /\ phase' \notin {"count", "done"} /\ UNCHANGED heads
<1>1. ASSUME UNCHANGED <<graphVars, heads>>, phase' \notin {"count", "done"}
      PROVE  Grows /\ phase' \notin {"count", "done"} /\ UNCHANGED heads
  <2>1. Nodes' = Nodes \cup {}
    BY <1>1 DEF graphVars, Nodes
  <2> QED
    BY <1>1, <2>1, PlainFacts DEF Grows
<1>2. CASE InsertInstructions
  BY <1>2, InsertInstructionsGrows
<1>3. CASE \E i \in DOMAIN insts : LinkInstruction(i)
  BY <1>3, LinkInstructionGrows
<1>4. CASE StartInlining
  BY <1>1, <1>4 DEF StartInlining
<1>5. CASE InlineNext
  <2>1. \/ add_cfg_nodes(At(next), At(insts[next].target), <<>>, next + 1)
        \/ UNCHANGED <<graphVars, phase, heads>>
    BY <1>5 DEF InlineNext
  <2> QED
    BY <1>1, <2>1, AddCfgNodesGrows
<1>6. CASE CloneLabel
  BY <1>6, CloneLabelGrows
<1>7. CASE EndWalk
  <2>1. /\ SetGraph(remove_child(Graph, Active.caller, Active.exitTo))
        /\ UNCHANGED <<phase, heads>>
    BY <1>7 DEF EndWalk
  <2>2. NodesOf(Graph) = Nodes
    BY DEF NodesOf, Graph, Nodes
  <2>3. Nodes' = Nodes \cup {}
    BY <2>1, <2>2, NodesOfFacts
  <2> QED
    BY <2>1, <2>3, PlainFacts DEF Grows
<1>8. CASE InlineNested
  <2>1. \/ \E e : Fail(e)
        \/ \E caller, target, activations :
             add_cfg_nodes(caller, target, activations, next)
    BY <1>8 DEF InlineNested
  <2> QED
    BY <2>1, FailGrows, AddCfgNodesGrows
<1>9. CASE Return
  BY <1>1, <1>9 DEF Return
<1>10. CASE EndInlining
  BY <1>1, <1>10 DEF EndInlining
<1>11. CASE UNCHANGED cfgVars
  BY <1>1, <1>11 DEF cfgVars
<1> QED
  BY <1>2, <1>3, <1>4, <1>5, <1>6, <1>7, <1>8, <1>9, <1>10, <1>11
     DEF CfgNext, CfgStep, BuildWto, InsertCounter, SetAssertions

-----------------------------------------------------------------------------
(***************************************************************************)
(* The steps that count the loops.                                         *)
(***************************************************************************)

(* ReachableFrom and Loops in terms of Least. *)
LEMMA ReachFacts ==
  ASSUME CfgInv, PlainInv
  PROVE  /\ Edges(children)
         /\ entry \in Nodes
         /\ \A S \in SUBSET Nodes : ReachableFrom(S) = Least(children, S)
         /\ Loops = {{m \in Nodes : OnLoop(children, m) /\ SameLoop(children, l, m)} :
                       l \in {k \in Nodes : OnLoop(children, k)}}
<1>1. Edges(children) /\ entry \in Nodes
  BY DEF CfgInv, CfgTypeOK, Edges, Nodes
<1>2. \A S \in SUBSET Nodes : ReachableFrom(S) = Least(children, S)
  BY <1>1, ClosureFacts DEF PlainInv, Nodes, ReachableFrom
<1> DEFINE onLoop == {l \in Nodes : /\ l \in ReachableFrom({entry})
                                    /\ l \in ReachableFrom(children[l])}
           Shared(l) == {m \in onLoop : /\ m \in ReachableFrom({l})
                                        /\ l \in ReachableFrom({m})}
<1>3. \A l \in Nodes : children[l] \in SUBSET Nodes
  BY <1>1 DEF Edges, Nodes
<1>4. onLoop = {l \in Nodes : OnLoop(children, l)}
  BY <1>1, <1>2, <1>3 DEF OnLoop
<1>5. \A l \in Nodes : Shared(l) =
        {m \in Nodes : OnLoop(children, m) /\ SameLoop(children, l, m)}
  BY <1>2, <1>4 DEF SameLoop
<1>6. Loops = {Shared(l) : l \in onLoop}
  BY DEF Loops
<1> HIDE DEF onLoop, Shared
<1> QED
  BY <1>1, <1>2, <1>4, <1>5, <1>6

(* The counter of a head is a new label between it and its successors. *)
LEMMA CounterInserted ==
  ASSUME CfgInv, PlainInv, NEW h \in heads, InsertCounter(h)
  PROVE  LET c == make_increment_counter(h)
         IN  /\ h \in Nodes /\ c \notin Nodes
             /\ Nodes' = Nodes \cup {c}
             /\ Inserted(children, h, c, children')
             /\ children' = [l \in DOMAIN children' |-> children'[l]]
<1> DEFINE c == make_increment_counter(h)
<1>1. h \in Nodes /\ c \notin Nodes
  BY DEF CfgInv, CfgTypeOK, PlainInv
<1>2. GraphOK(Graph) /\ NodesOf(Graph) = Nodes /\ Graph.children = children
  BY DEF CfgInv, Graph, NodesOf, Nodes
<1>3. children' = InsertAfter(Graph, h, c).children
  BY DEF InsertCounter, SetGraph
<1> HIDE DEF c
<1>4. Inserted(children, h, c, children')
  BY <1>1, <1>2, <1>3, InsertAfterInserts
<1>5. Nodes' = Nodes \cup {c}
  BY <1>4 DEF Inserted, Nodes
<1>6. children' = [l \in DOMAIN children' |-> children'[l]]
  BY <1>3 DEF InsertAfter, AddEdges
<1> QED
  BY <1>1, <1>4, <1>5, <1>6 DEF c

(* The labels of counters, and of heads, stay apart. *)
LEMMA PlainStep ==
  ASSUME CfgInv, PlainInv, [CfgNext]_cfgVars
  PROVE  PlainInv'
<1>1. CASE phase \notin {"built", "count", "done"} /\ CfgNext
  <2>1. heads = {} /\ heads' = {} /\ phase' \notin {"count", "done"}
    BY <1>1, BuildingGrows DEF PlainInv
  <2>2. PICK S : Plain(S) /\ Nodes' = Nodes \cup S
    BY <1>1, BuildingGrows DEF Grows
  <2>3. IsFiniteSet(Nodes')
    BY <2>2, FS_Union DEF Plain, PlainInv
  <2>4. \A l \in Nodes' : l.special = 0
    BY <1>1, <2>2 DEF Plain, PlainInv
  <2> QED
    BY <2>1, <2>3, <2>4 DEF PlainInv
<1>2. CASE BuildWto
  <2>1. /\ phase = "built" /\ phase' = "count" /\ Nodes' = Nodes
        /\ heads' \in IF options.check_for_termination THEN HeadChoices ELSE {{}}
    BY <1>2 DEF BuildWto, graphVars, Nodes
  <2>2. heads' \subseteq Nodes
    BY <2>1 DEF HeadChoices, Loops
  <2>3. \A h \in Nodes : h.special = 0 /\ make_increment_counter(h) \notin Nodes
    <3>1. \A h \in Nodes : make_increment_counter(h).special = 1
      BY DEF CfgInv, CfgTypeOK, make_increment_counter, Label
    <3> QED
      BY <2>1, <3>1 DEF PlainInv
  <2> QED
    BY <2>1, <2>2, <2>3 DEF PlainInv
<1>3. CASE \E h \in heads : InsertCounter(h)
  <2>1. PICK h \in heads : InsertCounter(h)
    BY <1>3
  <2> DEFINE c == make_increment_counter(h)
  <2>2. Nodes' = Nodes \cup {c}
    BY <2>1, CounterInserted
  <2>3. phase = "count" /\ phase' = "count" /\ heads' = heads \ {h}
    BY <2>1 DEF InsertCounter
  <2>4. IsFiniteSet(Nodes')
    BY <2>2, FS_Singleton, FS_Union DEF PlainInv
  <2>5. ASSUME NEW k \in heads \ {h}
        PROVE  k.special = 0 /\ make_increment_counter(k) \notin Nodes'
    <3>1. k \in Label /\ h \in Label /\ k.special = 0 /\ h.special = 0
      BY DEF CfgInv, CfgTypeOK, PlainInv
    <3>2. make_increment_counter(k) # c
      BY <3>1 DEF make_increment_counter, Label
    <3> QED
      BY <2>2, <3>1, <3>2 DEF PlainInv
  <2> QED
    BY <2>3, <2>4, <2>5 DEF PlainInv
<1>4. CASE SetAssertions
  BY <1>4 DEF SetAssertions, PlainInv, graphVars, Nodes
<1>5. CASE UNCHANGED cfgVars
  BY <1>5 DEF cfgVars, graphVars, PlainInv, Nodes
<1>6. phase \in {"built", "count", "done"} /\ CfgNext =>
        \/ BuildWto
        \/ \E h \in heads : InsertCounter(h)
        \/ SetAssertions
        \/ UNCHANGED cfgVars
  BY DEF CfgNext, CfgStep, InsertInstructions, LinkInstruction, StartInlining,
         InlineNext, CloneLabel, EndWalk, InlineNested, Return, EndInlining
<1> QED
  BY <1>1, <1>2, <1>3, <1>4, <1>5, <1>6

(* The loops stay, and a counter is on those of its head. *)
LEMMA CounterIsOnLoop ==
  ASSUME NEW ch, Edges(ch), entry \in DOMAIN ch, NEW h \in DOMAIN ch,
         NEW c, c \notin DOMAIN ch,
         NEW ch2, ch2 = [l \in DOMAIN ch2 |-> ch2[l]], Inserted(ch, h, c, ch2)
  PROVE  /\ \A l \in DOMAIN ch : OnLoop(ch2, l) <=> OnLoop(ch, l)
         /\ \A l, m \in DOMAIN ch : SameLoop(ch2, l, m) <=> SameLoop(ch, l, m)
         /\ OnLoop(ch, h) => ch[h] # {}
         /\ OnLoop(ch2, c) => OnLoop(ch, h) /\ SameLoop(ch2, c, h)
<1> DEFINE D == DOMAIN ch
<1>1. \A S \in SUBSET D : \A l \in D : l \in Least(ch2, S) <=> l \in Least(ch, S)
  BY InsertedReach
<1>2. \A S \in SUBSET D : c \in Least(ch2, S) <=> ch[h] # {} /\ h \in Least(ch, S)
  BY InsertedReach
<1>3. Edges(ch2) /\ D \subseteq DOMAIN ch2 /\ c \in DOMAIN ch2
  <2>1. {} \in SUBSET D
    OBVIOUS
  <2>2. Edges(ch2)
    BY <2>1, InsertedReach
  <2> QED
    BY <2>2 DEF Inserted
<1>4. \A l \in D : ch[l] \in SUBSET D /\ {l} \in SUBSET D
  BY DEF Edges
<1>5. {c} \in SUBSET DOMAIN ch2 /\ ch[h] \in SUBSET DOMAIN ch2
  BY <1>3, <1>4
<1>6. ch[h] = ch2[c]
  BY DEF Inserted
<1>7. c \in Least(ch2, {c})
  BY <1>3, <1>5, LeastFacts
<1>8. Least(ch2, ch[h]) \subseteq Least(ch2, {c})
  <2>1. ch[h] \subseteq Least(ch2, {c})
    BY <1>3, <1>5, <1>6, <1>7, LeastFacts DEF Closed
  <2> QED
    BY <1>3, <1>5, <2>1, LeastIsMonotonic
<1>9. \A l \in D : l \in Least(ch2, {c}) => l \in Least(ch2, ch[h])
  <2> DEFINE C == {c} \cup Least(ch2, ch[h])
  <2>1. /\ ch[h] \subseteq Least(ch2, ch[h])
        /\ Closed(ch2, Least(ch2, ch[h]))
    BY <1>3, <1>5, LeastFacts
  <2>2. Closed(ch2, C)
    BY <1>3, <1>6, <2>1 DEF Closed
  <2>3. Least(ch2, {c}) \subseteq C
    BY <1>3, <1>5, <2>2, LeastFacts
  <2> QED
    BY <2>3
<1>10. \A l \in D : l \in Least(ch2, {c}) <=> l \in Least(ch, ch[h])
  BY <1>1, <1>4, <1>8, <1>9
<1>11. ASSUME NEW l \in D
       PROVE  OnLoop(ch2, l) <=> OnLoop(ch, l)
  <2>1. l \in Least(ch2, {entry}) <=> l \in Least(ch, {entry})
    BY <1>1
  <2>2. CASE l # h \/ ch[h] = {}
    <3>1. ch2[l] = ch[l]
      BY <2>2 DEF Inserted
    <3> QED
      BY <1>1, <1>4, <2>1, <3>1 DEF OnLoop
  <2>3. CASE l = h /\ ch[h] # {}
    <3>1. ch2[l] = {c}
      BY <2>3 DEF Inserted
    <3> QED
      BY <1>10, <2>1, <2>3, <3>1 DEF OnLoop
  <2> QED
    BY <2>2, <2>3
<1>12. \A l, m \in D : SameLoop(ch2, l, m) <=> SameLoop(ch, l, m)
  BY <1>1, <1>4 DEF SameLoop
<1>13. ASSUME OnLoop(ch, h)
       PROVE  ch[h] # {}
  <2>1. h \in Least(ch, ch[h])
    BY <1>13 DEF OnLoop
  <2>2. Closed(ch, {}) /\ {} \in SUBSET D
    BY DEF Closed
  <2>3. Least(ch, {}) \subseteq {}
    BY <2>2, LeastFacts
  <2> QED
    BY <2>1, <2>3
<1>14. ASSUME OnLoop(ch2, c)
       PROVE  OnLoop(ch, h) /\ SameLoop(ch2, c, h)
  <2>1. c \in Least(ch2, {entry}) /\ c \in Least(ch2, ch[h])
    BY <1>6, <1>14 DEF OnLoop
  <2>2. ch[h] # {} /\ h \in Least(ch, {entry})
    <3>1. {entry} \in SUBSET D
      OBVIOUS
    <3> QED
      BY <1>2, <2>1, <3>1
  <2>3. h \in Least(ch, ch[h])
    BY <1>2, <1>4, <2>1
  <2>4. h \in Least(ch2, {c})
    BY <1>10, <2>3
  <2>5. h \in Least(ch, {h})
    BY <1>4, LeastFacts
  <2>6. c \in Least(ch2, {h})
    BY <1>2, <1>4, <2>2, <2>5
  <2> QED
    BY <2>2, <2>3, <2>4, <2>6 DEF OnLoop, SameLoop
<1> QED
  BY <1>11, <1>12, <1>13, <1>14

(* Every loop stays cut or keeps a head that is still to be visited. *)
LEMMA LoopStep ==
  ASSUME CfgInv, PlainInv, LoopInv, [CfgNext]_cfgVars
  PROVE  LoopInv'
<1>1. CASE phase \notin {"built", "count", "done"} /\ CfgNext
  BY <1>1, BuildingGrows DEF LoopInv
<1>2. CASE BuildWto
  <2>1. /\ phase' = "count" /\ Nodes' = Nodes /\ UNCHANGED <<children, options>>
        /\ heads' \in IF options.check_for_termination THEN HeadChoices ELSE {{}}
    BY <1>2 DEF BuildWto, graphVars, inputVars, Nodes
  <2> SUFFICES ASSUME options.check_for_termination,
                      NEW l \in Nodes, OnLoop(children, l)
               PROVE  \E m \in Nodes : /\ OnLoop(children, m)
                                       /\ SameLoop(children, l, m)
                                       /\ m \in heads'
    BY <2>1 DEF LoopInv
  <2> DEFINE L == {m \in Nodes : OnLoop(children, m) /\ SameLoop(children, l, m)}
  <2>2. L \in Loops
    BY ReachFacts
  <2> HIDE DEF L
  <2>3. Cardinality(heads' \cap L) = 1
    BY <2>1, <2>2 DEF HeadChoices
  <2>4. heads' \cap L # {}
    BY <2>3, FS_EmptySet
  <2> QED
    BY <2>4 DEF L
<1>3. CASE \E h \in heads : InsertCounter(h)
  <2>1. PICK h \in heads : InsertCounter(h)
    BY <1>3
  <2> DEFINE c == make_increment_counter(h)
  <2>2. /\ phase = "count" /\ heads' = heads \ {h}
        /\ phase' = "count" /\ options' = options
    BY <2>1 DEF InsertCounter, inputVars
  <2>3. /\ h \in Nodes /\ c \notin Nodes /\ Nodes' = Nodes \cup {c}
        /\ Inserted(children, h, c, children')
        /\ children' = [l \in DOMAIN children' |-> children'[l]]
    BY <2>1, CounterInserted
  <2>4. Edges(children) /\ entry \in Nodes
    BY ReachFacts
  <2>5. /\ \A l \in Nodes : OnLoop(children', l) <=> OnLoop(children, l)
        /\ \A l, m \in Nodes : SameLoop(children', l, m) <=> SameLoop(children, l, m)
        /\ OnLoop(children, h) => children[h] # {}
        /\ OnLoop(children', c) => OnLoop(children, h) /\ SameLoop(children', c, h)
    <3> HIDE DEF c
    <3> QED
      BY <2>3, <2>4, CounterIsOnLoop DEF Nodes
  <2>6. OnLoop(children, h) => Cut(h)'
    <3>1. h.special = 0
      BY DEF PlainInv
    <3>2. OnLoop(children, h) => children'[h] = {c}
      BY <2>3, <2>5 DEF Inserted
    <3> QED
      BY <3>1, <3>2 DEF Cut
  <2>7. ASSUME NEW m \in Nodes, Cut(m)
        PROVE  Cut(m)'
    <3>1. make_increment_counter(m) \in Nodes
      BY <2>7 DEF Cut, CfgInv, CfgTypeOK
    <3>2. m # h
      BY <2>3, <3>1
    <3>3. children'[m] = children[m]
      BY <2>3, <3>2 DEF Inserted, Nodes
    <3> QED
      BY <2>7, <3>3 DEF Cut
  <2> HIDE DEF c
  <2> SUFFICES ASSUME options.check_for_termination,
                      NEW l \in Nodes \cup {c}, OnLoop(children', l)
               PROVE  \E m \in Nodes \cup {c} :
                        /\ OnLoop(children', m)
                        /\ SameLoop(children', l, m)
                        /\ Cut(m)' \/ m \in heads \ {h}
    BY <2>2, <2>3 DEF LoopInv
  <2>8. CASE l = c
    BY <2>3, <2>5, <2>6, <2>8
  <2>9. CASE l \in Nodes
    <3>1. PICK m \in Nodes : /\ OnLoop(children, m)
                             /\ SameLoop(children, l, m)
                             /\ Cut(m) \/ m \in heads
      BY <2>2, <2>5, <2>9 DEF LoopInv
    <3>2. CASE m = h
      BY <2>5, <2>6, <2>9, <3>1, <3>2
    <3>3. CASE m # h
      BY <2>5, <2>7, <2>9, <3>1, <3>3
    <3> QED
      BY <3>2, <3>3
  <2> QED
    BY <2>8, <2>9
<1>4. CASE SetAssertions
  BY <1>4 DEF SetAssertions, LoopInv, Cut, graphVars, inputVars, Nodes
<1>5. CASE UNCHANGED cfgVars
  BY <1>5 DEF cfgVars, graphVars, inputVars, LoopInv, Cut, Nodes
<1>6. phase \in {"built", "count", "done"} /\ CfgNext =>
        \/ BuildWto
        \/ \E h \in heads : InsertCounter(h)
        \/ SetAssertions
        \/ UNCHANGED cfgVars
  BY DEF CfgNext, CfgStep, InsertInstructions, LinkInstruction, StartInlining,
         InlineNext, CloneLabel, EndWalk, InlineNested, Return, EndInlining
<1> QED
  BY <1>1, <1>2, <1>3, <1>4, <1>5, <1>6

-----------------------------------------------------------------------------
(***************************************************************************)
(* The theorems.                                                           *)
(***************************************************************************)

(* The invariant of the loop counters is inductive relative to CfgInv. *)
THEOREM LoopInvariance == CfgSpec => [](PlainInv /\ LoopInv)
<1>1. CfgInit => PlainInv /\ LoopInv
  <2> SUFFICES ASSUME CfgInit PROVE PlainInv /\ LoopInv
    OBVIOUS
  <2>1. Nodes = {entry, exit} /\ phase = "insert" /\ heads = {}
    BY DEF CfgInit, Nodes
  <2>2. Plain({entry, exit})
    BY PlainFacts DEF entry, exit, At
  <2> QED
    BY <2>1, <2>2 DEF PlainInv, LoopInv, Plain
<1>2. CfgInv /\ (PlainInv /\ LoopInv) /\ [CfgNext]_cfgVars => (PlainInv /\ LoopInv)'
  BY PlainStep, LoopStep
<1> QED
  BY <1>1, <1>2, CfgInvariance, PTL DEF CfgSpec

(* With check_for_termination, in every program that from_sequence hands   *)
(* to the analysis each outermost loop has a head that cannot come round   *)
(* without passing a counter: only inner loops that miss it are uncounted. *)
THEOREM OutermostLoopsAreCut == CfgSpec => []UncountedLoopsAreInner
<1>1. CfgInv /\ (PlainInv /\ LoopInv) => UncountedLoopsAreInner
  <2> DEFINE uncounted == [l \in Nodes |-> {c \in children[l] : c.special = 0}]
  <2> SUFFICES ASSUME CfgInv, PlainInv, LoopInv, phase = "done",
                      options.check_for_termination, NEW L \in Loops
               PROVE  \E h \in L : /\ h.special = 0
                                   /\ h \notin Closure(uncounted, uncounted[h])
    BY DEF UncountedLoopsAreInner
  <2>1. PICK l \in Nodes :
          /\ OnLoop(children, l)
          /\ L = {m \in Nodes : OnLoop(children, m) /\ SameLoop(children, l, m)}
    BY ReachFacts
  <2>2. PICK m \in Nodes : /\ OnLoop(children, m)
                           /\ SameLoop(children, l, m)
                           /\ Cut(m) \/ m \in heads
    BY <2>1 DEF LoopInv
  <2>3. Cut(m)
    BY <2>2 DEF PlainInv
  <2>4. uncounted[m] = {}
    <3>1. make_increment_counter(m).special = 1
      BY DEF CfgInv, CfgTypeOK, make_increment_counter, Label
    <3> QED
      BY <2>3, <3>1 DEF Cut
  <2>5. DOMAIN uncounted = Nodes /\ Edges(uncounted)
    BY DEF CfgInv, CfgTypeOK, Edges
  <2> HIDE DEF uncounted
  <2>6. Closure(uncounted, {}) = {}
    <3>1. {} \in SUBSET DOMAIN uncounted /\ Closed(uncounted, {})
      BY DEF Closed
    <3>2. Least(uncounted, {}) = {}
      BY <2>5, <3>1, LeastFacts
    <3> QED
      BY <2>5, <3>1, <3>2, ClosureFacts DEF PlainInv
  <2> QED
    BY <2>1, <2>2, <2>3, <2>4, <2>6 DEF Cut
<1> QED
  BY <1>1, CfgInvariance, LoopInvariance, PTL

(* insert_after changes no path but for the counter on it. *)
THEOREM CountersKeepAllPaths == CfgSpec => CountersKeepPaths
<1> DEFINE Kept == phase = "count" =>
                     \A l \in Nodes :
                       children[l] = UNION {IF c \in Nodes THEN {c} ELSE children'[c] :
                                              c \in children'[l]}
<1>1. CfgInv /\ (PlainInv /\ LoopInv) /\ [CfgNext]_cfgVars => [Kept]_cfgVars
  <2> SUFFICES ASSUME CfgInv, PlainInv, CfgNext, phase = "count"
               PROVE  \A l \in Nodes :
                        children[l] = UNION {IF c \in Nodes THEN {c} ELSE children'[c] :
                                               c \in children'[l]}
    OBVIOUS
  <2> DEFINE Skip(c) == IF c \in Nodes THEN {c} ELSE children'[c]
  <2>1. \A l \in Nodes : children[l] \subseteq Nodes
    BY DEF CfgInv, CfgTypeOK
  <2>2. CASE UNCHANGED children
    BY <2>1, <2>2
  <2>3. CASE \E h \in heads : InsertCounter(h)
    <3>1. PICK h \in heads : InsertCounter(h)
      BY <2>3
    <3> DEFINE c == make_increment_counter(h)
    <3>2. /\ h \in Nodes /\ c \notin Nodes
          /\ Inserted(children, h, c, children')
      BY <3>1, CounterInserted
    <3> HIDE DEF c
    <3>3. ASSUME NEW l \in Nodes, l # h \/ children[h] = {}
          PROVE  children[l] = UNION {Skip(x) : x \in children'[l]}
      <4>1. children'[l] = children[l]
        BY <3>2, <3>3 DEF Inserted, Nodes
      <4> QED
        BY <2>1, <4>1
    <3>4. ASSUME children[h] # {}
          PROVE  children[h] = UNION {Skip(x) : x \in children'[h]}
      <4>1. children'[h] = {c} /\ Skip(c) = children[h]
        BY <3>2, <3>4 DEF Inserted
      <4> HIDE DEF Skip
      <4> QED
        BY <4>1
    <3> QED
      BY <3>3, <3>4
  <2>4. UNCHANGED children \/ \E h \in heads : InsertCounter(h)
    BY DEF CfgNext, CfgStep, InsertInstructions, LinkInstruction, StartInlining,
           InlineNext, CloneLabel, EndWalk, InlineNested, Return, EndInlining,
           BuildWto, SetAssertions, graphVars, cfgVars
  <2> QED
    BY <2>2, <2>3, <2>4
<1> QED
  BY <1>1, CfgInvariance, LoopInvariance, PTL DEF CfgSpec, CountersKeepPaths
=============================================================================
