-------------------------- MODULE SoundnessProofs --------------------------
(***************************************************************************)
(* The result of the fixpoint iterator is sound, for every program, every  *)
(* control-flow graph and every sound abstract domain, whatever its        *)
(* widening does.                                                          *)
(***************************************************************************)
EXTENDS FwdSoundness, WtoProofs

-----------------------------------------------------------------------------
(***************************************************************************)
(* The bookkeeping of errors.                                              *)
(***************************************************************************)

(* Before the analysis there is no error; until its end only checked       *)
(* labels, not loop counters, have one.                                    *)
ErrorsInv ==
  /\ failed \in BOOLEAN
  /\ FailedIffErrors
  /\ phase \in {"build", "run", "done"}
  /\ phase = "build" => errors = {}
  /\ phase = "run" => \A l \in errors : ~IsCounter(instr[l])

(* transform_to_post adds an error and sets `failed` together, and leaves  *)
(* the post-invariant of a label with an error alone.                      *)
LEMMA TransformFacts ==
  ASSUME ErrorsInv, phase = "run", NEW l, NEW d, transform_to_post(l, d)
  PROVE  /\ failed' \in BOOLEAN
         /\ failed' <=> errors' # {}
         /\ \A k \in errors' : ~IsCounter(instr[k])
         /\ \A k \in errors : k \in errors' /\ post'[k] = post[k]
<1>1. CASE NewError(l, d)
  <2>1. errors' = errors \cup {l} /\ failed' = TRUE /\ post' = post
    BY <1>1 DEF transform_to_post
  <2>2. ~IsCounter(instr[l])
    BY <1>1 DEF NewError
  <2> QED
    BY <2>1, <2>2 DEF ErrorsInv
<1>2. CASE ~NewError(l, d)
  <2>1. /\ errors' = errors /\ failed' = failed
        /\ post' = IF HasError(l) THEN post
                   ELSE [post EXCEPT ![l] = TransformD(instr[l], d)]
    BY <1>2 DEF transform_to_post, ErrorsInv
  <2>2. \A k \in errors : post'[k] = post[k]
    BY <2>1 DEF ErrorsInv, HasError
  <2> QED
    BY <2>1, <2>2 DEF ErrorsInv, FailedIffErrors
<1> QED
  BY <1>1, <1>2

(* A step either leaves the results alone, or transforms one label, or is  *)
(* the last one.                                                           *)
LEMMA StepShape ==
  ASSUME AnalysisStep
  PROVE  \/ UNCHANGED <<phase, instr, errors, failed, post>>
         \/ phase = "build" /\ phase' = "run" /\ UNCHANGED <<errors, failed, post>>
         \/ /\ phase = "run"
            /\ UNCHANGED <<phase, instr>>
            /\ \E l \in Labels : \E d : transform_to_post(l, d)
         \/ Finish
<1>1. CASE BuildWto
  BY <1>1 DEF BuildWto, fwdVars, resultVars
<1>2. CASE StartAnalysis
  BY <1>2 DEF StartAnalysis
<1>3. ASSUME NEW l \in Labels, VisitLabel(l)
      PROVE  \/ UNCHANGED <<phase, instr, errors, failed, post>>
             \/ /\ phase = "run"
                /\ UNCHANGED <<phase, instr>>
                /\ transform_to_post(l, join_all_prevs(l))
  BY <1>3 DEF VisitLabel, resultVars
<1>4. ASSUME NEW l \in Labels, EnterCycle(l)
      PROVE  \/ UNCHANGED <<phase, instr, errors, failed, post>>
             \/ /\ phase = "run"
                /\ UNCHANGED <<phase, instr>>
                /\ transform_to_post(l, EnteringInvariant(l))
  BY <1>4 DEF EnterCycle, resultVars
<1>5. ASSUME NEW l \in Labels, AscendStable(l)
      PROVE  /\ phase = "run"
             /\ UNCHANGED <<phase, instr>>
             /\ transform_to_post(l, join_all_prevs(l))
  BY <1>5 DEF AscendStable, EndOfIteration
<1>6. ASSUME NEW l \in Labels, AscendGrow(l)
      PROVE  /\ phase = "run"
             /\ UNCHANGED <<phase, instr>>
             /\ \E d : transform_to_post(l, d)
  BY <1>6 DEF AscendGrow, EndOfIteration
<1>7. ASSUME NEW l \in Labels, DescendEnd(l)
      PROVE  UNCHANGED <<phase, instr, errors, failed, post>>
  BY <1>7 DEF DescendEnd, EndOfIteration, resultVars
<1>8. ASSUME NEW l \in Labels, DescendRefine(l)
      PROVE  /\ phase = "run"
             /\ UNCHANGED <<phase, instr>>
             /\ \E d : transform_to_post(l, d)
  BY <1>8 DEF DescendRefine, EndOfIteration
<1>9. ASSUME NEW l \in Labels, SkipHead(l)
      PROVE  UNCHANGED <<phase, instr, errors, failed, post>>
  BY <1>9 DEF SkipHead, resultVars
<1> QED
  BY <1>1, <1>2, <1>3, <1>4, <1>5, <1>6, <1>7, <1>8, <1>9 DEF AnalysisStep

(* What every step does to the errors. *)
LEMMA ErrorsStep ==
  ASSUME ErrorsInv, [Next]_vars
  PROVE  /\ ErrorsInv'
         /\ \A l \in errors : l \in errors' /\ post'[l] = post[l]
<1>1. CASE UNCHANGED <<phase, instr, errors, failed, post>>
  BY <1>1 DEF ErrorsInv, FailedIffErrors
<1>2. CASE phase = "build" /\ phase' = "run" /\ UNCHANGED <<errors, failed, post>>
  BY <1>2 DEF ErrorsInv, FailedIffErrors
<1>3. ASSUME phase = "run", UNCHANGED <<phase, instr>>,
             NEW l \in Labels, NEW d, transform_to_post(l, d)
      PROVE  /\ ErrorsInv'
             /\ \A k \in errors : k \in errors' /\ post'[k] = post[k]
  BY <1>3, TransformFacts DEF ErrorsInv, FailedIffErrors
<1>4. CASE Finish
  <2>1. PICK found :
          /\ errors' = errors \cup found
          /\ failed' = (failed \/ found # {})
    BY <1>4 DEF Finish
  <2>2. phase' = "done" /\ UNCHANGED post
    BY <1>4 DEF Finish
  <2> QED
    BY <2>1, <2>2 DEF ErrorsInv, FailedIffErrors
<1>5. CASE UNCHANGED vars
  <2>1. UNCHANGED <<phase, instr, errors, failed, post>>
    BY <1>5 DEF vars, fwdVars, resultVars
  <2> QED
    BY <1>1, <2>1
<1> QED
  BY <1>1, <1>2, <1>3, <1>4, <1>5, StepShape DEF Next

(* The bookkeeping of errors is inductive. *)
THEOREM ErrorsInvariance == Spec => []ErrorsInv
<1>1. Init => ErrorsInv
  BY DEF Init, ErrorsInv, FailedIffErrors
<1>2. ErrorsInv /\ [Next]_vars => ErrorsInv'
  BY ErrorsStep
<1> QED
  BY <1>1, <1>2, PTL DEF Spec

(* AnalysisResult::failed is set exactly when some label has an error, for *)
(* every program and abstract domain.                                      *)
THEOREM FailedIsErrors == Spec => []FailedIffErrors
<1>1. ErrorsInv => FailedIffErrors
  BY DEF ErrorsInv
<1> QED
  BY <1>1, ErrorsInvariance, PTL

(* No iteration, of whatever cycle, clears an error or changes what the    *)
(* label that has it passes on.                                            *)
THEOREM ErrorsStayFinal == Spec => ErrorsAreFinal
<1>1. ErrorsInv /\ [Next]_vars => [ErrorsKept]_vars
  BY ErrorsStep DEF ErrorsKept
<1> QED
  BY <1>1, ErrorsInvariance, PTL DEF Spec, ErrorsAreFinal

-----------------------------------------------------------------------------
(***************************************************************************)
(* The join over the predecessors is a fold over a finite set.             *)
(***************************************************************************)

(* The recursion that FoldSet is defined by. *)
JoinBody(g, s) ==
  IF s = {} THEN Bottom
  ELSE JoinD(CHOOSE x \in s : TRUE, g[s \ {CHOOSE x \in s : TRUE}])

LEMMA JoinFunctionExists ==
  ASSUME NEW S, IsFiniteSet(S)
  PROVE  \E g : g = [s \in SUBSET S |-> JoinBody(g, s)]
<1> DEFINE T == {n \in Nat : \E g : g = [s \in UpTo(S, n) |-> JoinBody(g, s)]}
<1>0. \A s \in SUBSET S : IsFiniteSet(s) /\ Cardinality(s) \in Nat
  BY FS_Subset, FS_CardinalityType
<1>1. 0 \in T
  <2> DEFINE g == [s \in UpTo(S, 0) |-> Bottom]
  <2>1. \A s \in UpTo(S, 0) : s = {}
    BY <1>0, FS_EmptySet DEF UpTo
  <2>2. g = [s \in UpTo(S, 0) |-> JoinBody(g, s)]
    BY <2>1 DEF JoinBody
  <2> QED
    BY <2>2
<1>2. ASSUME NEW n \in T
      PROVE  n + 1 \in T
  <2>1. PICK g : g = [s \in UpTo(S, n) |-> JoinBody(g, s)]
    OBVIOUS
  <2> DEFINE h == [s \in UpTo(S, n + 1) |-> JoinBody(g, s)]
  <2>2. \A s \in UpTo(S, n) : s \in UpTo(S, n + 1) /\ h[s] = g[s]
    BY <1>0, <2>1 DEF UpTo
  <2>3. ASSUME NEW s \in UpTo(S, n + 1)
        PROVE  JoinBody(g, s) = JoinBody(h, s)
    <3> HIDE DEF h
    <3>1. CASE s = {}
      BY <3>1 DEF JoinBody
    <3>2. CASE s # {}
      <4> DEFINE r == s \ {CHOOSE x \in s : TRUE}
      <4>1. r \in UpTo(S, n)
        BY <3>2, RemoveOne
      <4>2. h[r] = g[r]
        <5> HIDE DEF r
        <5> QED BY <2>2, <4>1
      <4> QED
        BY <3>2, <4>2 DEF JoinBody
    <3> QED
      BY <3>1, <3>2
  <2>4. h = [s \in UpTo(S, n + 1) |-> JoinBody(h, s)]
    BY <2>3
  <2> HIDE DEF h
  <2> QED
    BY <2>4
<1>3. T = Nat
  <2> HIDE DEF T
  <2>1. T \subseteq Nat
    BY DEF T
  <2> QED
    BY <1>1, <1>2, <2>1, SetInduction
<1>4. UpTo(S, Cardinality(S)) = SUBSET S
  BY FS_Subset, FS_CardinalityType DEF UpTo
<1>5. Cardinality(S) \in T
  BY <1>0, <1>3
<1> QED
  BY <1>4, <1>5

(* JoinOver is the value of a function that satisfies the recursion. *)
LEMMA JoinRecursion ==
  ASSUME NEW S, IsFiniteSet(S)
  PROVE  \E f : /\ f = [s \in SUBSET S |-> JoinBody(f, s)]
                /\ JoinOver(S) = f[S]
<1> DEFINE f == CHOOSE g : g = [s \in SUBSET S |->
                  IF s = {} THEN Bottom
                  ELSE JoinD(CHOOSE x \in s : TRUE, g[s \ {CHOOSE x \in s : TRUE}])]
<1>1. JoinOver(S) = f[S]
  BY DEF JoinOver, FoldSet, MapThenFoldSet
<1>2. f = [s \in SUBSET S |-> JoinBody(f, s)]
  BY JoinFunctionExists DEF JoinBody
<1> QED
  BY <1>1, <1>2

(* join_all_prevs and the invariant a cycle starts from describe           *)
(* everything that one of the joined post-invariants describes.            *)
LEMMA JoinIsSound ==
  ASSUME NEW S, S \subseteq D, IsFiniteSet(S)
  PROVE  /\ JoinOver(S) \in D
         /\ \A d \in S : \A x \in Values : InD(x, d) => InD(x, JoinOver(S))
<1>1. PICK f : /\ f = [s \in SUBSET S |-> JoinBody(f, s)]
               /\ JoinOver(S) = f[S]
  BY JoinRecursion
<1> DEFINE Good(s) == /\ f[s] \in D
                      /\ \A d \in s : \A x \in Values : InD(x, d) => InD(x, f[s])
           T == {n \in Nat : \A s \in UpTo(S, n) : Good(s)}
<1>0. \A s \in SUBSET S : IsFiniteSet(s) /\ Cardinality(s) \in Nat
  BY FS_Subset, FS_CardinalityType
<1>2. 0 \in T
  <2>1. \A s \in UpTo(S, 0) : s = {} /\ s \in SUBSET S
    BY <1>0, FS_EmptySet DEF UpTo
  <2>2. f[{}] = Bottom
    BY <1>1 DEF JoinBody
  <2> QED
    BY <2>1, <2>2, DomainAssumption
<1>3. ASSUME NEW n \in T
      PROVE  n + 1 \in T
  <2> SUFFICES ASSUME NEW s \in UpTo(S, n + 1)
               PROVE  Good(s)
    OBVIOUS
  <2>1. CASE s = {}
    BY <1>1, <2>1, DomainAssumption DEF JoinBody
  <2>2. CASE s # {}
    <3> DEFINE e == CHOOSE x \in s : TRUE
               r == s \ {e}
    <3>1. r \in UpTo(S, n)
      BY <2>2, RemoveOne
    <3>2. s \in SUBSET S
      BY DEF UpTo
    <3>3. e \in s
      BY <2>2
    <3>4. f[s] = JoinD(e, f[r])
      BY <1>1, <2>2, <3>2 DEF JoinBody
    <3> HIDE DEF e
    <3>5. e \in D /\ Good(r)
      BY <3>1, <3>2, <3>3
    <3>6. f[s] \in D
      BY <3>4, <3>5, DomainAssumption
    <3>7. ASSUME NEW d \in s, NEW x \in Values, InD(x, d)
          PROVE  InD(x, f[s])
      <4>1. d = e \/ d \in r
        OBVIOUS
      <4>2. InD(x, e) \/ InD(x, f[r])
        BY <3>5, <3>7, <4>1
      <4> QED
        BY <3>4, <3>5, <4>2, SoundDomainAssumption
    <3> QED
      BY <3>6, <3>7
  <2> QED
    BY <2>1, <2>2
<1>4. T = Nat
  <2> HIDE DEF T
  <2>1. T \subseteq Nat
    BY DEF T
  <2> QED
    BY <1>2, <1>3, <2>1, SetInduction
<1>5. S \in UpTo(S, Cardinality(S)) /\ Cardinality(S) \in T
  BY <1>0, <1>4 DEF UpTo
<1> QED
  BY <1>1, <1>5

-----------------------------------------------------------------------------
(***************************************************************************)
(* The invariant is about two records, so that the facts before and after  *)
(* a step can be compared: the program g with the partitions of its Wto,   *)
(* which no step changes, and the results r.                               *)
(***************************************************************************)
ProgramOf(ins) ==
  [ch |-> children, ins |-> ins,
   parts |-> [c \in Cycles |-> InOrder(c)], mem |-> Members]

TheProgram == ProgramOf(instr)

TheResults == [pre |-> pre, post |-> post, err |-> errors]

ResultType == [pre : [Labels -> D], post : [Labels -> D], err : SUBSET Labels]

(***************************************************************************)
(* Runs inside a set M of labels: what enters M is read off the post-      *)
(* invariants of the labels around it, and inside M the program runs, not  *)
(* past a label with an error.                                             *)
(***************************************************************************)

(* y may enter M at m: at the start, or after a label outside M. *)
Enters(g, r, M, m, y) ==
  \/ m = EntryLabel /\ y \in EntryValues
  \/ \E p \in Labels \ M : m \in g.ch[p] /\ InD(y, r.post[p])

Follows(g, r, l, x, m, y) ==
  l \notin r.err /\ m \in g.ch[l] /\ y \in Exec(g.ins[l], x)

(* G contains everything that enters M and follows something in G. *)
IsClosed(g, r, M, G) ==
  \A m \in M, y \in Values :
    (\/ Enters(g, r, M, m, y)
     \/ \E l \in M, x \in Values :
          <<l, x>> \in G /\ Follows(g, r, l, x, m, y))
    => <<m, y>> \in G

(* <<l, x>> is in the least closed set. *)
Reached(g, r, M, l, x) ==
  /\ l \in M /\ x \in Values
  /\ \A G \in SUBSET (M \X Values) :
       IsClosed(g, r, M, G) => <<l, x>> \in G

(* What enters M is reached. *)
LEMMA ReachedEnters ==
  ASSUME NEW g, NEW r, NEW M, NEW m \in M, NEW y \in Values,
         Enters(g, r, M, m, y)
  PROVE  Reached(g, r, M, m, y)
  BY DEF Reached, IsClosed

(* What follows something reached is reached. *)
LEMMA ReachedFollows ==
  ASSUME NEW g, NEW r, NEW M, NEW l, NEW x,
         Reached(g, r, M, l, x),
         NEW m \in M, NEW y \in Values, Follows(g, r, l, x, m, y)
  PROVE  Reached(g, r, M, m, y)
<1> SUFFICES ASSUME NEW G \in SUBSET (M \X Values),
                    IsClosed(g, r, M, G)
             PROVE  <<m, y>> \in G
  BY DEF Reached
<1>1. <<l, x>> \in G /\ l \in M /\ x \in Values
  BY DEF Reached
<1> QED
  BY <1>1 DEF IsClosed

(* Nothing else is reached. *)
LEMMA ReachedSupport ==
  ASSUME NEW g, NEW r, NEW M, NEW m, NEW y,
         Reached(g, r, M, m, y)
  PROVE  \/ Enters(g, r, M, m, y)
         \/ \E l \in M, x \in Values :
              Reached(g, r, M, l, x) /\ Follows(g, r, l, x, m, y)
<1> DEFINE R(l, x) == Reached(g, r, M, l, x)
           Sup(k, z) == \/ Enters(g, r, M, k, z)
                        \/ \E l \in M, x \in Values :
                             R(l, x) /\ Follows(g, r, l, x, k, z)
           G == {s \in M \X Values : Sup(s[1], s[2])}
<1>1. ASSUME NEW k \in M, NEW z \in Values, Sup(k, z)
      PROVE  R(k, z)
  BY <1>1, ReachedEnters, ReachedFollows
<1>2. \A k \in M, z \in Values : <<k, z>> \in G <=> Sup(k, z)
  OBVIOUS
<1> HIDE DEF R, Sup
<1>3. IsClosed(g, r, M, G)
  <2> HIDE DEF G
  <2> SUFFICES ASSUME NEW k \in M, NEW z \in Values,
                      \/ Enters(g, r, M, k, z)
                      \/ \E l \in M, x \in Values :
                           <<l, x>> \in G /\ Follows(g, r, l, x, k, z)
               PROVE  Sup(k, z)
    BY <1>2 DEF IsClosed
  <2> QED
    BY <1>1, <1>2 DEF Sup
<1>4. m \in M /\ y \in Values /\ (G \in SUBSET (M \X Values) => <<m, y>> \in G)
  BY <1>3 DEF Reached
<1>5. G \in SUBSET (M \X Values)
  OBVIOUS
<1> QED
  BY <1>2, <1>4, <1>5 DEF Sup, R

(* Fewer things reach M when more labels have errors and less enters. *)
LEMMA ReachedShrinks ==
  ASSUME NEW g, NEW r, NEW r2, NEW M, NEW l, NEW x,
         r.err \subseteq r2.err,
         \A m \in M, y \in Values : Enters(g, r2, M, m, y) => Enters(g, r, M, m, y),
         Reached(g, r2, M, l, x)
  PROVE  Reached(g, r, M, l, x)
<1> SUFFICES ASSUME NEW G \in SUBSET (M \X Values),
                    IsClosed(g, r, M, G)
             PROVE  <<l, x>> \in G
  BY DEF Reached
<1>1. IsClosed(g, r2, M, G)
  BY DEF IsClosed, Follows
<1> QED
  BY <1>1 DEF Reached

(* Runs inside a part N of M, where the rest of M has post-invariants that *)
(* describe its runs.                                                      *)
LEMMA ReachedPart ==
  ASSUME NEW g, NEW r, NEW M \in SUBSET Labels, NEW N \in SUBSET M,
         \A p \in M \ N, x \in Values, m \in N, y \in Values :
           Reached(g, r, M, p, x) /\ Follows(g, r, p, x, m, y) => InD(y, r.post[p]),
         NEW l \in N, NEW x, Reached(g, r, M, l, x)
  PROVE  Reached(g, r, N, l, x)
<1> DEFINE RM(k, z) == Reached(g, r, M, k, z)
           RN(k, z) == Reached(g, r, N, k, z)
           G == {s \in M \X Values : RM(s[1], s[2]) /\ (s[1] \in N => RN(s[1], s[2]))}
<1>1. \A k \in M, z \in Values : <<k, z>> \in G <=> RM(k, z) /\ (k \in N => RN(k, z))
  OBVIOUS
<1>2. IsClosed(g, r, M, G)
  <2> HIDE DEF G
  <2> SUFFICES ASSUME NEW m \in M, NEW y \in Values,
                      \/ Enters(g, r, M, m, y)
                      \/ \E k \in M, z \in Values :
                           <<k, z>> \in G /\ Follows(g, r, k, z, m, y)
               PROVE  RM(m, y) /\ (m \in N => RN(m, y))
    <3> HIDE DEF RM, RN
    <3> QED BY <1>1 DEF IsClosed
  <2>1. CASE Enters(g, r, M, m, y)
    <3>1. RM(m, y)
      BY <2>1, ReachedEnters
    <3>2. m \in N => Enters(g, r, N, m, y)
      BY <2>1 DEF Enters
    <3> QED
      BY <3>1, <3>2, ReachedEnters
  <2>2. ASSUME NEW k \in M, NEW z \in Values, <<k, z>> \in G,
               Follows(g, r, k, z, m, y)
        PROVE  RM(m, y) /\ (m \in N => RN(m, y))
    <3>1. RM(k, z) /\ (k \in N => RN(k, z))
      <4> HIDE DEF RM, RN
      <4> QED BY <1>1, <2>2
    <3>2. RM(m, y)
      BY <2>2, <3>1, ReachedFollows
    <3>3. ASSUME m \in N, k \in N
          PROVE  RN(m, y)
      BY <2>2, <3>1, <3>3, ReachedFollows
    <3>4. ASSUME m \in N, k \notin N
          PROVE  RN(m, y)
      <4>1. InD(y, r.post[k])
        BY <2>2, <3>1, <3>4
      <4>2. Enters(g, r, N, m, y)
        BY <2>2, <3>4, <4>1 DEF Enters, Follows
      <4> QED
        BY <3>4, <4>2, ReachedEnters
    <3> QED
      BY <3>2, <3>3, <3>4
  <2> QED
    BY <2>1, <2>2
<1>3. <<l, x>> \in G
  BY <1>2 DEF Reached
<1> QED
  BY <1>1, <1>3

-----------------------------------------------------------------------------
(***************************************************************************)
(* Programs and results.                                                   *)
(***************************************************************************)

(* The labels of a component, as LabelsIn. *)
LabelsOf(g, x) == IF x.cycle THEN g.mem[x.label] ELSE {x.label}

IsHeadOf(c, x) == x = [label |-> c, cycle |-> FALSE]

Part(g, c, i) == g.parts[c][i]

(* What PartitionsAreOrdered says of the finished Wto, with the types. *)
WellOrdered(g) ==
  /\ g.ch \in [Labels -> SUBSET Labels]
  /\ \A l \in Labels : EntryLabel \notin g.ch[l]
  /\ g.ins \in [Labels -> Instructions]
  /\ g.parts \in [Cycles -> Seq(Component)]
  /\ g.mem \in [Cycles -> SUBSET Labels]
  /\ \A c \in Cycles : \A i \in 1 .. Len(g.parts[c]) :
       LabelsOf(g, Part(g, c, i)) \subseteq g.mem[c]
  /\ \A c \in Cycles : \A l \in g.mem[c] :
       \E i \in 1 .. Len(g.parts[c]) : l \in LabelsOf(g, Part(g, c, i))
  /\ \A c \in Cycles : \A i, j \in 1 .. Len(g.parts[c]) :
       i # j => LabelsOf(g, Part(g, c, i)) \cap LabelsOf(g, Part(g, c, j)) = {}
  /\ \A c \in Cycles : \A i \in 1 .. Len(g.parts[c]) :
       Part(g, c, i).cycle =>
         /\ Part(g, c, i).label # c
         /\ Part(g, c, i).label \in g.mem[Part(g, c, i).label]
  /\ \A c \in Cycles : c \in g.mem[c] =>
       \E i \in 1 .. Len(g.parts[c]) : IsHeadOf(c, Part(g, c, i))
  /\ \A c \in Cycles : \A i, j \in 1 .. Len(g.parts[c]) :
       \A p \in LabelsOf(g, Part(g, c, i)), l \in LabelsOf(g, Part(g, c, j)) :
         l \in g.ch[p] /\ l # c => i < j \/ (i = j /\ Part(g, c, i).cycle)
  /\ \A l \in g.mem[NoCycle] : g.ch[l] \subseteq g.mem[NoCycle]
  /\ Len(g.parts[NoCycle]) > 0
  /\ Part(g, NoCycle, 1) = [label |-> EntryLabel, cycle |-> FALSE]

(* Where the pre-invariants describe the runs inside M, apart from S. *)
Sound(g, r, M, S) ==
  \A l \in M \ S, x \in Values : Reached(g, r, M, l, x) => InD(x, r.pre[l])

(* A label without an error was checked and transformed. *)
Transformed(g, r, l) ==
  l \notin r.err =>
    \A x \in Values : InD(x, r.pre[l]) =>
      /\ \A y \in Exec(g.ins[l], x) : InD(y, r.post[l])
      /\ IsCounter(g.ins[l]) \/ Safe(g.ins[l], x)

(* set_pre and transform_to_post of the same label, with the same value. *)
Touches(g, r, r2, l, d) ==
  /\ r2 \in ResultType
  /\ r.err \subseteq r2.err
  /\ \A k \in Labels \ {l} :
       /\ r2.pre[k] = r.pre[k]
       /\ r2.post[k] = r.post[k]
       /\ k \in r2.err => k \in r.err
  /\ r2.pre[l] = d
  /\ l \notin r2.err =>
       /\ r2.post[l] = TransformD(g.ins[l], d)
       /\ IsCounter(g.ins[l]) \/ CheckD(g.ins[l], d)

(* The touched label is transformed, and the others stay so. *)
LEMMA TouchTransforms ==
  ASSUME NEW g, WellOrdered(g), NEW r \in ResultType, NEW r2,
         NEW l \in Labels, NEW d \in D, Touches(g, r, r2, l, d)
  PROVE  /\ Transformed(g, r2, l)
         /\ \A k \in Labels \ {l} : Transformed(g, r, k) => Transformed(g, r2, k)
<1>1. Transformed(g, r2, l)
  <2> SUFFICES ASSUME l \notin r2.err, NEW x \in Values, InD(x, d)
               PROVE  /\ \A y \in Exec(g.ins[l], x) : InD(y, r2.post[l])
                      /\ IsCounter(g.ins[l]) \/ Safe(g.ins[l], x)
    BY DEF Transformed, Touches
  <2>1. g.ins[l] \in Instructions
    BY DEF WellOrdered
  <2>2. r2.post[l] = TransformD(g.ins[l], d) /\ (IsCounter(g.ins[l]) \/ CheckD(g.ins[l], d))
    BY DEF Touches
  <2> QED
    BY <2>1, <2>2, SoundDomainAssumption
<1>2. ASSUME NEW k \in Labels \ {l}, Transformed(g, r, k)
      PROVE  Transformed(g, r2, k)
  BY <1>2 DEF Transformed, Touches
<1> QED
  BY <1>1, <1>2

(* Touching a label outside M that has no edge into M. *)
LEMMA TouchOutside ==
  ASSUME NEW g, NEW r, NEW r2, NEW M \in SUBSET Labels, NEW l \in Labels \ M, NEW d,
         g.ch[l] \cap M = {}, Touches(g, r, r2, l, d), Sound(g, r, M, {})
  PROVE  Sound(g, r2, M, {})
<1> SUFFICES ASSUME NEW k \in M, NEW x \in Values, Reached(g, r2, M, k, x)
             PROVE  InD(x, r2.pre[k])
  BY DEF Sound
<1>1. \A m \in M, y \in Values : Enters(g, r2, M, m, y) => Enters(g, r, M, m, y)
  BY DEF Enters, Touches
<1>2. Reached(g, r, M, k, x)
  BY <1>1, ReachedShrinks DEF Touches
<1>3. r2.pre[k] = r.pre[k]
  BY DEF Touches
<1> QED
  BY <1>2, <1>3 DEF Sound

(* Touching a label inside M does not add runs inside M. *)
LEMMA TouchInside ==
  ASSUME NEW g, NEW r, NEW r2, NEW M \in SUBSET Labels, NEW l \in M, NEW d,
         Touches(g, r, r2, l, d), NEW k, NEW x, Reached(g, r2, M, k, x)
  PROVE  Reached(g, r, M, k, x)
<1>1. \A m \in M, y \in Values : Enters(g, r2, M, m, y) => Enters(g, r, M, m, y)
  BY DEF Enters, Touches
<1> QED
  BY <1>1, ReachedShrinks DEF Touches

LEMMA TouchActive ==
  ASSUME NEW g, NEW r, NEW r2, NEW M \in SUBSET Labels, NEW l \in M, NEW d,
         Touches(g, r, r2, l, d), NEW S, l \in S, Sound(g, r, M, S)
  PROVE  Sound(g, r2, M, S)
<1> SUFFICES ASSUME NEW k \in M \ S, NEW x \in Values, Reached(g, r2, M, k, x)
             PROVE  InD(x, r2.pre[k])
  BY DEF Sound
<1>1. Reached(g, r, M, k, x)
  BY TouchInside
<1>2. r2.pre[k] = r.pre[k]
  BY DEF Touches
<1> QED
  BY <1>1, <1>2 DEF Sound

-----------------------------------------------------------------------------
(***************************************************************************)
(* The join over the predecessors of a label.                              *)
(***************************************************************************)
PrevJoin(g, r, m) == JoinOver({r.post[p] : p \in {q \in Labels : m \in g.ch[q]}})

LEMMA PrevJoinCovers ==
  ASSUME NEW g, NEW r \in ResultType, NEW m
  PROVE  /\ PrevJoin(g, r, m) \in D
         /\ \A p \in Labels, y \in Values :
              m \in g.ch[p] /\ InD(y, r.post[p]) => InD(y, PrevJoin(g, r, m))
<1> DEFINE P == {q \in Labels : m \in g.ch[q]}
           S == {r.post[p] : p \in P}
<1>1. IsFiniteSet(P)
  BY LabelsAssumption, FS_Subset
<1>2. IsFiniteSet(S)
  <2> HIDE DEF P
  <2> QED
    BY <1>1, FiniteValues
<1>3. S \subseteq D
  BY DEF ResultType
<1>4. /\ JoinOver(S) \in D
      /\ \A d \in S : \A x \in Values : InD(x, d) => InD(x, JoinOver(S))
  <2> HIDE DEF S
  <2> QED
    BY <1>2, <1>3, JoinIsSound
<1> QED
  BY <1>4 DEF PrevJoin

(* Whatever reaches m passes through a post-invariant that is joined,      *)
(* when the labels it comes from are described and transformed.            *)
LEMMA ReachedIsJoined ==
  ASSUME NEW g, WellOrdered(g), NEW r \in ResultType,
         NEW M \in SUBSET Labels, NEW m \in M, m # EntryLabel,
         \A l \in M : Transformed(g, r, l),
         \A l \in M, x \in Values :
           Reached(g, r, M, l, x) /\ m \in g.ch[l] => InD(x, r.pre[l]),
         NEW y, Reached(g, r, M, m, y)
  PROVE  InD(y, PrevJoin(g, r, m))
<1>0. y \in Values
  BY DEF Reached
<1>1. CASE Enters(g, r, M, m, y)
  <2>1. PICK p \in Labels \ M : m \in g.ch[p] /\ InD(y, r.post[p])
    BY <1>1 DEF Enters
  <2> QED
    BY <1>0, <2>1, PrevJoinCovers
<1>2. ASSUME NEW l \in M, NEW x \in Values, Reached(g, r, M, l, x),
             Follows(g, r, l, x, m, y)
      PROVE  InD(y, PrevJoin(g, r, m))
  <2>1. l \notin r.err /\ m \in g.ch[l] /\ y \in Exec(g.ins[l], x)
    BY <1>2 DEF Follows
  <2>2. InD(x, r.pre[l])
    BY <1>2, <2>1
  <2>3. InD(y, r.post[l])
    BY <2>1, <2>2 DEF Transformed
  <2> QED
    BY <1>0, <2>1, <2>3, PrevJoinCovers
<1> QED
  BY <1>1, <1>2, ReachedSupport

(* A plain label of an increasing iteration: its join describes what it    *)
(* is reached with.                                                        *)
LEMMA VisitIsSound ==
  ASSUME NEW g, WellOrdered(g), NEW r \in ResultType, NEW r2,
         NEW l \in Labels, l # EntryLabel, l \notin g.ch[l], Transformed(g, r, l),
         Touches(g, r, r2, l, PrevJoin(g, r, l))
  PROVE  Sound(g, r2, {l}, {})
<1> SUFFICES ASSUME NEW x \in Values, Reached(g, r2, {l}, l, x)
             PROVE  InD(x, r2.pre[l])
  BY DEF Sound
<1>1. Reached(g, r, {l}, l, x)
  BY TouchInside
<1>2. InD(x, PrevJoin(g, r, l))
  BY <1>1, ReachedIsJoined
<1> QED
  BY <1>2 DEF Touches

(* The entry keeps its pre-invariant. *)
LEMMA VisitEntryIsSound ==
  ASSUME NEW g, WellOrdered(g), NEW r \in ResultType, NEW r2,
         \A x \in EntryValues : InD(x, r.pre[EntryLabel]),
         Touches(g, r, r2, EntryLabel, r.pre[EntryLabel])
  PROVE  Sound(g, r2, {EntryLabel}, {})
<1> SUFFICES ASSUME NEW x \in Values, Reached(g, r2, {EntryLabel}, EntryLabel, x)
             PROVE  InD(x, r2.pre[EntryLabel])
  BY DEF Sound
<1>1. x \in EntryValues
  BY ReachedSupport, LabelsAssumption DEF Enters, Follows, WellOrdered
<1> QED
  BY <1>1 DEF Touches

(* A label of a decreasing iteration: whatever the new pre-invariant       *)
(* keeps of both the old one and the join describes all runs.              *)
LEMMA DescendIsSound ==
  ASSUME NEW g, WellOrdered(g), NEW r \in ResultType, NEW r2,
         NEW M \in SUBSET Labels, NEW l \in M, l # EntryLabel, NEW d,
         \A k \in M : Transformed(g, r, k),
         Sound(g, r, M, {}),
         Touches(g, r, r2, l, d),
         \A x \in Values : InD(x, r.pre[l]) /\ InD(x, PrevJoin(g, r, l)) => InD(x, d)
  PROVE  Sound(g, r2, M, {})
<1> SUFFICES ASSUME NEW k \in M, NEW x \in Values, Reached(g, r2, M, k, x)
             PROVE  InD(x, r2.pre[k])
  BY DEF Sound
<1>1. Reached(g, r, M, k, x)
  BY TouchInside
<1>2. InD(x, r.pre[k])
  BY <1>1 DEF Sound
<1>3. CASE k = l
  <2>1. \A j \in M, y \in Values : Reached(g, r, M, j, y) => InD(y, r.pre[j])
    BY DEF Sound
  <2>2. InD(x, PrevJoin(g, r, l))
    BY <1>1, <1>3, <2>1, ReachedIsJoined
  <2> QED
    BY <1>2, <1>3, <2>2 DEF Touches
<1>4. CASE k # l
  BY <1>2, <1>4 DEF Touches
<1> QED
  BY <1>3, <1>4

(* The end of the increasing sequence: what the head is reached with from  *)
(* all sides is below the invariant the iteration started from, and every  *)
(* other component was found sound from there.                             *)
LEMMA StableIsSound ==
  ASSUME NEW g, WellOrdered(g), NEW r \in ResultType, NEW r2,
         NEW c \in Labels, c \in g.mem[c], EntryLabel \notin g.mem[c],
         \A l \in Labels : Transformed(g, r, l),
         \A i \in 1 .. Len(g.parts[c]) :
           IsHeadOf(c, Part(g, c, i)) \/ Sound(g, r, LabelsOf(g, Part(g, c, i)), {}),
         LeqD(PrevJoin(g, r, c), r.pre[c]),
         Touches(g, r, r2, c, PrevJoin(g, r, c))
  PROVE  Sound(g, r2, g.mem[c], {})
<1> DEFINE M == g.mem[c]
           K(i) == LabelsOf(g, Part(g, c, i))
           J == PrevJoin(g, r, c)
           I == 1 .. Len(g.parts[c])
           Ok(l, x) == \/ l = c /\ InD(x, J)
                       \/ \E i \in I : /\ ~IsHeadOf(c, Part(g, c, i))
                                       /\ l \in K(i)
                                       /\ Reached(g, r, K(i), l, x)
           G == {s \in M \X Values : Ok(s[1], s[2])}
<1>0. c \in Cycles /\ M \in SUBSET Labels /\ M \subseteq Labels
  BY DEF WellOrdered, Cycles
<1>1. \A l \in M, x \in Values : <<l, x>> \in G <=> Ok(l, x)
  OBVIOUS
<1>2. \A i \in I : K(i) \subseteq M
  BY <1>0 DEF WellOrdered
<1>3. \A l \in M \ {c} : \E i \in I : l \in K(i) /\ ~IsHeadOf(c, Part(g, c, i))
  <2> SUFFICES ASSUME NEW l \in M \ {c}
               PROVE  \E i \in I : l \in K(i) /\ ~IsHeadOf(c, Part(g, c, i))
    OBVIOUS
  <2>1. PICK i \in I : l \in K(i)
    BY <1>0 DEF WellOrdered
  <2>2. ~IsHeadOf(c, Part(g, c, i))
    BY <2>1 DEF IsHeadOf, LabelsOf
  <2> QED
    BY <2>1, <2>2
<1>4. J \in D /\ r.pre[c] \in D
  BY PrevJoinCovers DEF ResultType
<1>5. ASSUME NEW l \in M, NEW x \in Values, Ok(l, x)
      PROVE  InD(x, r.pre[l])
  <2>1. CASE l = c /\ InD(x, J)
    BY <1>4, <2>1, SoundDomainAssumption
  <2>2. ASSUME NEW i \in I, ~IsHeadOf(c, Part(g, c, i)), l \in K(i),
               Reached(g, r, K(i), l, x)
        PROVE  InD(x, r.pre[l])
    BY <2>2 DEF Sound
  <2> QED
    BY <1>5, <2>1, <2>2
<1>6. ASSUME NEW l \in M, NEW x \in Values, Ok(l, x), NEW m, NEW y,
             Follows(g, r, l, x, m, y)
      PROVE  m \in g.ch[l] /\ InD(y, r.post[l])
  BY <1>0, <1>5, <1>6 DEF Follows, Transformed
<1>7. IsClosed(g, r, M, G)
  <2> HIDE DEF G
  <2> SUFFICES ASSUME NEW m \in M, NEW y \in Values,
                      \/ Enters(g, r, M, m, y)
                      \/ \E l \in M, x \in Values :
                           <<l, x>> \in G /\ Follows(g, r, l, x, m, y)
               PROVE  Ok(m, y)
    <3> HIDE DEF Ok, M
    <3> QED
      BY <1>1 DEF IsClosed
  <2>1. ASSUME NEW p \in Labels, m \in g.ch[p], InD(y, r.post[p]),
               \A i \in I : m \in K(i) /\ p \in K(i) => Reached(g, r, K(i), m, y)
        PROVE  Ok(m, y)
    <3>1. CASE m = c
      BY <2>1, <3>1, PrevJoinCovers
    <3>2. CASE m # c
      <4>1. PICK i \in I : m \in K(i) /\ ~IsHeadOf(c, Part(g, c, i))
        BY <1>3, <3>2
      <4>2. CASE p \in K(i)
        BY <2>1, <4>1, <4>2
      <4>3. CASE p \notin K(i)
        <5>1. Enters(g, r, K(i), m, y)
          BY <2>1, <4>3 DEF Enters
        <5>2. Reached(g, r, K(i), m, y)
          BY <4>1, <5>1, ReachedEnters
        <5> QED
          BY <4>1, <5>2
      <4> QED
        BY <4>2, <4>3
    <3> QED
      BY <3>1, <3>2
  <2>2. CASE Enters(g, r, M, m, y)
    <3>1. PICK p \in Labels \ M : m \in g.ch[p] /\ InD(y, r.post[p])
      BY <2>2 DEF Enters
    <3>2. \A i \in I : p \notin K(i)
      BY <1>2, <3>1
    <3> QED
      BY <2>1, <3>1, <3>2
  <2>3. ASSUME NEW l \in M, NEW x \in Values, <<l, x>> \in G,
               Follows(g, r, l, x, m, y)
        PROVE  Ok(m, y)
    <3>1. Ok(l, x)
      BY <1>1, <2>3
    <3>2. m \in g.ch[l] /\ InD(y, r.post[l]) /\ l \in Labels
      BY <1>0, <1>6, <2>3, <3>1
    <3>3. ASSUME NEW i \in I, m \in K(i), l \in K(i)
          PROVE  Ok(m, y) \/ Reached(g, r, K(i), m, y)
      <4>1. CASE l = c /\ InD(x, J)
        <5>1. PICK h \in I : IsHeadOf(c, Part(g, c, h))
          BY <1>0 DEF WellOrdered
        <5>2. K(h) = {c}
          BY <5>1 DEF IsHeadOf, LabelsOf
        <5>3. h = i
          BY <1>0, <3>3, <4>1, <5>2 DEF WellOrdered
        <5>4. m = c
          BY <3>3, <5>2, <5>3
        <5> QED
          BY <3>2, <5>4, PrevJoinCovers
      <4>2. ASSUME NEW j \in I, l \in K(j), Reached(g, r, K(j), l, x)
            PROVE  Reached(g, r, K(i), m, y)
        <5>1. j = i
          BY <1>0, <3>3, <4>2 DEF WellOrdered
        <5> QED
          BY <2>3, <3>3, <4>2, <5>1, ReachedFollows
      <4> QED
        BY <3>1, <4>1, <4>2
    <3> QED
      BY <2>1, <3>2, <3>3
  <2> QED
    BY <2>2, <2>3
<1>8. ASSUME NEW l \in M, NEW x \in Values, Reached(g, r2, M, l, x)
      PROVE  InD(x, r2.pre[l])
  <2>1. Reached(g, r, M, l, x)
    BY <1>0, <1>8, TouchInside
  <2>2. Ok(l, x)
    <3>1. <<l, x>> \in G
      BY <1>7, <2>1 DEF Reached
    <3> HIDE DEF G, Ok
    <3> QED
      BY <1>1, <1>8, <3>1
  <2>3. InD(x, r.pre[l])
    BY <1>5, <2>2
  <2>4. CASE l # c
    BY <1>0, <1>8, <2>3, <2>4 DEF Touches
  <2>5. CASE l = c
    <3>1. \A i \in I : ~IsHeadOf(c, Part(g, c, i)) => c \notin K(i)
      <4>1. PICK h \in I : IsHeadOf(c, Part(g, c, h))
        BY <1>0 DEF WellOrdered
      <4>2. c \in K(h)
        BY <4>1 DEF IsHeadOf, LabelsOf
      <4> QED
        BY <1>0, <4>1, <4>2 DEF WellOrdered
    <3>2. InD(x, J)
      BY <2>2, <2>5, <3>1
    <3> QED
      BY <2>5, <3>2 DEF Touches
  <2> QED
    BY <2>4, <2>5
<1> QED
  BY <1>8 DEF Sound

-----------------------------------------------------------------------------
(***************************************************************************)
(* The activations.                                                        *)
(***************************************************************************)

(* How many components of its partition an activation has started. *)
At(g, f) == Len(g.parts[f.cycle]) - Len(f.todo)

(* What an activation has left to do is the end of its partition. *)
FrameOK(g, f) ==
  /\ f \in Frame
  /\ Len(f.todo) <= Len(g.parts[f.cycle])
  /\ \A j \in 1 .. Len(f.todo) : f.todo[j] = Part(g, f.cycle, At(g, f) + j)

(* The component an activation has started last is the cycle c. *)
Entered(g, f, c) ==
  /\ At(g, f) >= 1
  /\ Part(g, f.cycle, At(g, f)) = [label |-> c, cycle |-> TRUE]

(* Each activation but the outermost is of a cycle that the one around it  *)
(* has entered.                                                            *)
Stacked(g, w) ==
  /\ w \in Seq(Frame)
  /\ w # <<>>
  /\ w[1].mode = "top" /\ w[1].cycle = NoCycle
  /\ \A i \in 1 .. Len(w) : FrameOK(g, w[i])
  /\ \A i \in 2 .. Len(w) : w[i].mode # "top" /\ w[i].cycle \in Labels
  /\ \A i \in 1 .. Len(w) - 1 : Entered(g, w[i], w[i + 1].cycle)
  /\ \A i, j \in 2 .. Len(w) : i <= j => g.mem[w[j].cycle] \subseteq g.mem[w[i].cycle]

LEMMA StackedFacts ==
  ASSUME NEW g, WellOrdered(g), NEW w, Stacked(g, w)
  PROVE  /\ Len(w) \in Nat /\ Len(w) >= 1
         /\ \A i \in 1 .. Len(w) :
              /\ w[i] \in Frame
              /\ w[i].cycle \in Cycles
              /\ w[i].todo \in Seq(Component)
              /\ w[i].invariant \in D
              /\ Len(g.parts[w[i].cycle]) \in Nat
              /\ At(g, w[i]) \in 0 .. Len(g.parts[w[i].cycle])
         /\ \A i \in 1 .. Len(w) - 1 :
              At(g, w[i]) \in 1 .. Len(g.parts[w[i].cycle])
         /\ \A i \in 2 .. Len(w) :
              /\ w[i].cycle \in g.mem[w[i].cycle]
              /\ EntryLabel \notin g.mem[w[i].cycle]
         /\ \A i \in 2 .. Len(w) - 1 : w[i].cycle \notin g.mem[w[i + 1].cycle]
<1>1. Len(w) \in Nat /\ Len(w) >= 1
  BY DEF Stacked
<1>2. ASSUME NEW i \in 1 .. Len(w)
      PROVE  /\ w[i] \in Frame
             /\ w[i].cycle \in Cycles
             /\ w[i].todo \in Seq(Component)
             /\ w[i].invariant \in D
             /\ Len(g.parts[w[i].cycle]) \in Nat
             /\ At(g, w[i]) \in 0 .. Len(g.parts[w[i].cycle])
  <2>1. FrameOK(g, w[i])
    BY DEF Stacked
  <2>2. w[i].cycle \in Cycles /\ w[i].todo \in Seq(Component) /\ w[i].invariant \in D
    BY <2>1 DEF FrameOK, Frame
  <2>3. Len(g.parts[w[i].cycle]) \in Nat
    BY <2>2 DEF WellOrdered
  <2>4. Len(w[i].todo) \in Nat /\ Len(w[i].todo) <= Len(g.parts[w[i].cycle])
    BY <2>1, <2>2 DEF FrameOK
  <2>5. At(g, w[i]) \in 0 .. Len(g.parts[w[i].cycle])
    <3> DEFINE a == Len(g.parts[w[i].cycle])
               b == Len(w[i].todo)
    <3>1. At(g, w[i]) = a - b
      BY DEF At
    <3>2. a \in Nat /\ b \in Nat /\ b <= a
      BY <2>3, <2>4
    <3> HIDE DEF a, b
    <3>3. a - b \in 0 .. a
      BY <3>2
    <3> QED
      BY <3>1, <3>3 DEF a
  <2> QED
    BY <2>1, <2>2, <2>3, <2>5 DEF FrameOK
<1>3. ASSUME NEW i \in 1 .. Len(w) - 1
      PROVE  At(g, w[i]) \in 1 .. Len(g.parts[w[i].cycle])
  <2>1. i \in 1 .. Len(w)
    BY <1>1
  <2>2. At(g, w[i]) >= 1
    BY DEF Stacked, Entered
  <2> QED
    BY <1>2, <2>1, <2>2
<1>4. ASSUME NEW i \in 1 .. Len(w) - 1
      PROVE  /\ w[i + 1].cycle \in g.mem[w[i + 1].cycle]
             /\ LabelsOf(g, Part(g, w[i].cycle, At(g, w[i]))) = g.mem[w[i + 1].cycle]
             /\ Part(g, w[i].cycle, At(g, w[i])).cycle
  <2>1. /\ Part(g, w[i].cycle, At(g, w[i])) = [label |-> w[i + 1].cycle, cycle |-> TRUE]
        /\ i \in 1 .. Len(w)
    BY <1>1 DEF Stacked, Entered
  <2>2. /\ Part(g, w[i].cycle, At(g, w[i])).cycle
        /\ Part(g, w[i].cycle, At(g, w[i])).label = w[i + 1].cycle
    BY <2>1
  <2> QED
    BY <1>2, <1>3, <2>1, <2>2 DEF WellOrdered, LabelsOf
<1>5. ASSUME NEW i \in 2 .. Len(w)
      PROVE  w[i].cycle \in g.mem[w[i].cycle]
  <2>1. i - 1 \in 1 .. Len(w) - 1 /\ (i - 1) + 1 = i
    BY <1>1
  <2> QED
    BY <1>4, <2>1
<1>6. ASSUME NEW i \in 2 .. Len(w)
      PROVE  EntryLabel \notin g.mem[w[i].cycle]
  <2>1. 1 \in 1 .. Len(w) - 1 /\ 2 \in 2 .. Len(w) /\ 1 + 1 = 2
    BY <1>1
  <2>2. g.mem[w[i].cycle] \subseteq g.mem[w[2].cycle]
    BY <1>1, <2>1 DEF Stacked
  <2>3. /\ g.mem[w[2].cycle] = LabelsOf(g, Part(g, NoCycle, At(g, w[1])))
        /\ Part(g, NoCycle, At(g, w[1])).cycle
        /\ At(g, w[1]) \in 1 .. Len(g.parts[NoCycle])
    BY <1>3, <1>4, <2>1 DEF Stacked
  <2>4. /\ Part(g, NoCycle, 1) = [label |-> EntryLabel, cycle |-> FALSE]
        /\ Len(g.parts[NoCycle]) > 0
    BY DEF WellOrdered
  <2>5. At(g, w[1]) # 1
    BY <2>3, <2>4
  <2>6. EntryLabel \in LabelsOf(g, Part(g, NoCycle, 1))
    BY <2>4 DEF LabelsOf
  <2>7. /\ NoCycle \in Cycles
        /\ 1 \in 1 .. Len(g.parts[NoCycle])
    BY <2>3, <2>4 DEF Cycles
  <2>8. LabelsOf(g, Part(g, NoCycle, 1)) \cap LabelsOf(g, Part(g, NoCycle, At(g, w[1]))) = {}
    BY <2>3, <2>5, <2>7 DEF WellOrdered
  <2> QED
    BY <2>2, <2>3, <2>6, <2>8
<1>7. ASSUME NEW i \in 2 .. Len(w) - 1
      PROVE  w[i].cycle \notin g.mem[w[i + 1].cycle]
  <2>1. i \in 1 .. Len(w) - 1 /\ i \in 2 .. Len(w)
    BY <1>1
  <2>c. PICK c \in Cycles : c = w[i].cycle
    BY <1>2, <2>1
  <2>a. PICK a \in 1 .. Len(g.parts[c]) : a = At(g, w[i])
    BY <1>3, <2>1, <2>c
  <2>2. PICK h \in 1 .. Len(g.parts[c]) : IsHeadOf(c, Part(g, c, h))
    <3>1. c \in g.mem[c]
      BY <1>5, <2>1, <2>c
    <3> QED
      BY <3>1 DEF WellOrdered
  <2>3. h # a
    BY <1>4, <2>1, <2>2, <2>a, <2>c DEF IsHeadOf
  <2>4. c \in LabelsOf(g, Part(g, c, h))
    BY <2>2 DEF IsHeadOf, LabelsOf
  <2>5. LabelsOf(g, Part(g, c, h)) \cap LabelsOf(g, Part(g, c, a)) = {}
    BY <2>3 DEF WellOrdered
  <2>6. LabelsOf(g, Part(g, c, a)) = g.mem[w[i + 1].cycle]
    BY <1>4, <2>1, <2>a, <2>c
  <2> QED
    BY <2>c, <2>4, <2>5, <2>6
<1> QED
  BY <1>1, <1>2, <1>3, <1>5, <1>6, <1>7

Pop(w) == SubSeq(w, 1, Len(w) - 1)

AdvanceOf(w) == Append(Pop(w), [w[Len(w)] EXCEPT !.todo = Tail(@)])

LEMMA PopFacts ==
  ASSUME NEW A, NEW w \in Seq(A), w # <<>>
  PROVE  /\ Pop(w) \in Seq(A)
         /\ Len(Pop(w)) = Len(w) - 1
         /\ \A i \in 1 .. Len(w) - 1 : Pop(w)[i] = w[i]
  BY FrontType DEF Pop

LEMMA ReplaceFacts ==
  ASSUME NEW A, NEW w \in Seq(A), w # <<>>, NEW f \in A
  PROVE  /\ Append(Pop(w), f) \in Seq(A)
         /\ Append(Pop(w), f) # <<>>
         /\ Len(Append(Pop(w), f)) = Len(w)
         /\ \A i \in 1 .. Len(w) - 1 : Append(Pop(w), f)[i] = w[i]
         /\ Append(Pop(w), f)[Len(w)] = f
<1>1. Len(w) \in Nat /\ Len(w) >= 1
  OBVIOUS
<1>2. /\ Pop(w) \in Seq(A)
      /\ Len(Pop(w)) = Len(w) - 1
      /\ \A i \in 1 .. Len(w) - 1 : Pop(w)[i] = w[i]
  BY PopFacts
<1> QED
  BY <1>1, <1>2

(* An activation whose cycle and mode stay may take the top's place. *)
LEMMA ReplaceStacked ==
  ASSUME NEW g, WellOrdered(g), NEW w, Stacked(g, w), NEW f, FrameOK(g, f),
         f.cycle = w[Len(w)].cycle, f.mode = "top" <=> w[Len(w)].mode = "top"
  PROVE  Stacked(g, Append(Pop(w), f))
<1> DEFINE v == Append(Pop(w), f)
           n == Len(w)
<1>1. w \in Seq(Frame) /\ w # <<>> /\ f \in Frame /\ n \in Nat /\ n >= 1
  BY DEF Stacked, FrameOK
<1>2. /\ v \in Seq(Frame) /\ v # <<>> /\ Len(v) = n
      /\ \A i \in 1 .. n - 1 : v[i] = w[i]
      /\ v[n] = f
  BY <1>1, ReplaceFacts
<1> HIDE DEF v
<1>3. \A i \in 1 .. n : /\ v[i].cycle = w[i].cycle
                        /\ v[i].mode = "top" <=> w[i].mode = "top"
                        /\ FrameOK(g, v[i])
  <2> SUFFICES ASSUME NEW i \in 1 .. n
               PROVE  /\ v[i].cycle = w[i].cycle
                      /\ v[i].mode = "top" <=> w[i].mode = "top"
                      /\ FrameOK(g, v[i])
    OBVIOUS
  <2>1. CASE i = n
    BY <1>2, <2>1
  <2>2. CASE i # n
    <3>1. v[i] = w[i]
      BY <1>1, <1>2, <2>2
    <3> QED
      BY <3>1 DEF Stacked
  <2> QED
    BY <2>1, <2>2
<1>4. v[1].mode = "top" /\ v[1].cycle = NoCycle
  BY <1>1, <1>3 DEF Stacked
<1>5. \A i \in 2 .. n : v[i].mode # "top" /\ v[i].cycle \in Labels
  BY <1>1, <1>3 DEF Stacked
<1>6. \A i \in 1 .. n - 1 : Entered(g, v[i], v[i + 1].cycle)
  <2> SUFFICES ASSUME NEW i \in 1 .. n - 1
               PROVE  Entered(g, v[i], v[i + 1].cycle)
    OBVIOUS
  <2>1. v[i] = w[i] /\ i + 1 \in 1 .. n
    BY <1>1, <1>2
  <2>2. v[i + 1].cycle = w[i + 1].cycle
    BY <1>3, <2>1
  <2> QED
    BY <2>1, <2>2 DEF Stacked
<1>7. \A i, j \in 2 .. n : i <= j => g.mem[v[j].cycle] \subseteq g.mem[v[i].cycle]
  <2>1. \A i \in 2 .. n : v[i].cycle = w[i].cycle
    BY <1>1, <1>3
  <2> QED
    BY <2>1 DEF Stacked
<1>8. Stacked(g, v)
  BY <1>2, <1>3, <1>4, <1>5, <1>6, <1>7 DEF Stacked
<1> QED
  BY <1>8 DEF v

(* Starting the next component. *)
LEMMA AdvanceStacked ==
  ASSUME NEW g, WellOrdered(g), NEW w, Stacked(g, w), w[Len(w)].todo # <<>>
  PROVE  LET n == Len(w)
             v == AdvanceOf(w)
         IN  /\ Stacked(g, v)
             /\ Len(v) = n
             /\ \A i \in 1 .. n - 1 : v[i] = w[i]
             /\ v[n].mode = w[n].mode
             /\ v[n].cycle = w[n].cycle
             /\ v[n].invariant = w[n].invariant
             /\ At(g, v[n]) = At(g, w[n]) + 1
             /\ At(g, v[n]) \in 1 .. Len(g.parts[w[n].cycle])
             /\ Head(w[n].todo) = Part(g, w[n].cycle, At(g, v[n]))
<1> DEFINE n == Len(w)
           f == [w[n] EXCEPT !.todo = Tail(@)]
           v == AdvanceOf(w)
<1>1. /\ w \in Seq(Frame) /\ w # <<>> /\ n \in Nat /\ n >= 1
      /\ n \in 1 .. Len(w)
      /\ FrameOK(g, w[n])
  BY StackedFacts DEF Stacked
<1>2. w[n] \in Frame /\ w[n].todo \in Seq(Component)
  BY <1>1, StackedFacts
<1>3. f \in Frame
  <2>1. PICK u \in Frame : u = w[n]
    BY <1>2
  <2>2. PICK q \in Seq(Component) : q = Tail(u.todo)
    <3>1. PICK t \in Seq(Component) : t = w[n].todo /\ t # <<>>
      BY <1>2
    <3>2. Tail(t) \in Seq(Component)
      BY <3>1, HeadTailProperties
    <3> QED
      BY <2>1, <3>1, <3>2
  <2>3. [u EXCEPT !.todo = q] \in Frame
    BY DEF Frame
  <2> QED
    BY <2>1, <2>2, <2>3
<1>4. f.mode = w[n].mode /\ f.cycle = w[n].cycle /\ f.invariant = w[n].invariant
  BY <1>2 DEF Frame
<1>5. f.todo = Tail(w[n].todo)
  BY <1>2 DEF Frame
<1>6. v = Append(Pop(w), f)
  BY DEF AdvanceOf
<1> HIDE DEF f, v
<1>7. /\ Len(f.todo) = Len(w[n].todo) - 1
      /\ Len(w[n].todo) \in Nat
      /\ Len(w[n].todo) >= 1
      /\ \A j \in 1 .. Len(f.todo) : f.todo[j] = w[n].todo[j + 1]
      /\ Head(w[n].todo) = w[n].todo[1]
  BY <1>2, <1>5
<1>8. At(g, f) = At(g, w[n]) + 1
  <2> DEFINE a == Len(g.parts[w[n].cycle])
             b == Len(w[n].todo)
             c == Len(f.todo)
  <2>1. a \in Nat /\ b \in Nat /\ c = b - 1
    BY <1>1, <1>7, StackedFacts
  <2>2. At(g, f) = a - c /\ At(g, w[n]) = a - b
    BY <1>4 DEF At
  <2> HIDE DEF a, b, c
  <2> QED
    BY <2>1, <2>2
<1>9. At(g, w[n]) \in 0 .. Len(g.parts[w[n].cycle]) /\ Len(g.parts[w[n].cycle]) \in Nat
  BY <1>1, StackedFacts
<1>10. FrameOK(g, f)
  <2>1. Len(f.todo) <= Len(g.parts[f.cycle])
    BY <1>1, <1>4, <1>7, <1>9 DEF FrameOK
  <2>2. ASSUME NEW j \in 1 .. Len(f.todo)
        PROVE  f.todo[j] = Part(g, f.cycle, At(g, f) + j)
    <3>1. j \in Int /\ j + 1 \in 1 .. Len(w[n].todo)
      BY <1>7
    <3>2. w[n].todo[j + 1] = Part(g, w[n].cycle, At(g, w[n]) + (j + 1))
      BY <1>1, <3>1 DEF FrameOK
    <3>3. At(g, w[n]) + (j + 1) = At(g, f) + j
      BY <1>8, <1>9, <3>1
    <3> QED
      BY <1>4, <1>7, <3>2, <3>3
  <2> QED
    BY <1>3, <2>1, <2>2 DEF FrameOK
<1>11. Stacked(g, v)
  BY <1>4, <1>6, <1>10, ReplaceStacked
<1>12. Len(v) = n /\ v[n] = f /\ \A i \in 1 .. n - 1 : v[i] = w[i]
  BY <1>1, <1>3, <1>6, ReplaceFacts
<1>13. Head(w[n].todo) = Part(g, w[n].cycle, At(g, f))
  <2>1. 1 \in 1 .. Len(w[n].todo)
    BY <1>7
  <2> QED
    BY <1>1, <1>7, <1>8, <2>1 DEF FrameOK
<1>14. At(g, f) \in 1 .. Len(g.parts[w[n].cycle])
  <2> DEFINE a == Len(g.parts[w[n].cycle])
             b == Len(w[n].todo)
             t == At(g, w[n])
  <2>1. t = a - b /\ a \in Nat /\ b \in Nat /\ b >= 1 /\ t \in 0 .. a
    BY <1>7, <1>9 DEF At
  <2> HIDE DEF a, b, t
  <2>2. t + 1 \in 1 .. a
    BY <2>1
  <2> QED
    BY <1>8, <2>2 DEF a, t
<1> QED
  BY <1>4, <1>8, <1>11, <1>12, <1>13, <1>14 DEF v

(* Starting to iterate the cycle that was just entered. *)
LEMMA PushStacked ==
  ASSUME NEW g, WellOrdered(g), NEW w, Stacked(g, w),
         NEW c \in Labels, Entered(g, w[Len(w)], c),
         NEW f, FrameOK(g, f), f.cycle = c, f.mode # "top"
  PROVE  /\ Stacked(g, Append(w, f))
         /\ g.mem[c] = LabelsOf(g, Part(g, w[Len(w)].cycle, At(g, w[Len(w)])))
<1> DEFINE n == Len(w)
           v == Append(w, f)
<1>1. w \in Seq(Frame) /\ w # <<>> /\ f \in Frame /\ n \in Nat /\ n >= 1
  BY DEF Stacked, FrameOK
<1>2. /\ v \in Seq(Frame) /\ v # <<>> /\ Len(v) = n + 1
      /\ \A i \in 1 .. n : v[i] = w[i]
      /\ v[n + 1] = f
  BY <1>1
<1> HIDE DEF v
<1>3. g.mem[c] = LabelsOf(g, Part(g, w[n].cycle, At(g, w[n])))
  BY DEF Entered, LabelsOf
<1>4. g.mem[c] \subseteq g.mem[w[n].cycle]
  <2>1. /\ w[n].cycle \in Cycles
        /\ At(g, w[n]) \in 0 .. Len(g.parts[w[n].cycle])
        /\ Len(g.parts[w[n].cycle]) \in Nat
    BY <1>1, StackedFacts
  <2>2. At(g, w[n]) \in 1 .. Len(g.parts[w[n].cycle])
    BY <2>1 DEF Entered
  <2> QED
    BY <1>3, <2>1, <2>2 DEF WellOrdered
<1>5. \A i \in 1 .. n + 1 : i = n + 1 \/ (i \in 1 .. n /\ v[i] = w[i])
  BY <1>1, <1>2
<1>6. \A i \in 1 .. n + 1 : FrameOK(g, v[i])
  BY <1>2, <1>5 DEF Stacked
<1>7. \A i \in 2 .. n + 1 : v[i].mode # "top" /\ v[i].cycle \in Labels
  <2>1. \A i \in 2 .. n + 1 : i = n + 1 \/ (i \in 2 .. n /\ v[i] = w[i])
    BY <1>1, <1>2
  <2> QED
    BY <1>2, <2>1 DEF Stacked
<1>8. \A i \in 1 .. n : Entered(g, v[i], v[i + 1].cycle)
  <2> SUFFICES ASSUME NEW i \in 1 .. n
               PROVE  Entered(g, v[i], v[i + 1].cycle)
    OBVIOUS
  <2>1. CASE i = n
    BY <1>1, <1>2, <2>1
  <2>2. CASE i # n
    <3>1. v[i] = w[i] /\ v[i + 1] = w[i + 1] /\ i \in 1 .. n - 1
      BY <1>1, <1>2, <2>2
    <3> QED
      BY <3>1 DEF Stacked
  <2> QED
    BY <2>1, <2>2
<1>9. ASSUME NEW i \in 2 .. n + 1, NEW j \in 2 .. n + 1, i <= j
      PROVE  g.mem[v[j].cycle] \subseteq g.mem[v[i].cycle]
  <2>1. CASE j # n + 1
    <3>1. i \in 2 .. n /\ j \in 2 .. n /\ v[i] = w[i] /\ v[j] = w[j]
      BY <1>1, <1>2, <1>9, <2>1
    <3> QED
      BY <1>9, <3>1 DEF Stacked
  <2>2. CASE j = n + 1 /\ i = n + 1
    BY <2>2
  <2>3. CASE j = n + 1 /\ i # n + 1
    <3>1. i \in 2 .. n /\ n \in 2 .. n /\ i <= n /\ v[i] = w[i]
      BY <1>1, <1>2, <1>9, <2>3
    <3>2. g.mem[w[n].cycle] \subseteq g.mem[w[i].cycle]
      BY <3>1 DEF Stacked
    <3> QED
      BY <1>2, <1>4, <2>3, <3>1, <3>2
  <2> QED
    BY <2>1, <2>2, <2>3
<1>10. v[1].mode = "top" /\ v[1].cycle = NoCycle
  BY <1>1, <1>2 DEF Stacked
<1>11. Stacked(g, v)
  <2>1. Len(v) - 1 = n
    BY <1>1, <1>2
  <2> QED
    BY <1>2, <1>6, <1>7, <1>8, <1>9, <1>10, <2>1 DEF Stacked
<1> QED
  BY <1>3, <1>11 DEF v

(* Going back to the activation around. *)
LEMMA PopStacked ==
  ASSUME NEW g, NEW w, Stacked(g, w), Len(w) >= 2
  PROVE  Stacked(g, Pop(w))
<1> DEFINE n == Len(w)
           v == Pop(w)
<1>1. w \in Seq(Frame) /\ w # <<>> /\ n \in Nat /\ n >= 2
  BY DEF Stacked
<1>2. v \in Seq(Frame) /\ Len(v) = n - 1 /\ \A i \in 1 .. n - 1 : v[i] = w[i]
  BY <1>1, PopFacts
<1> HIDE DEF v
<1>3. v # <<>> /\ v[1] = w[1]
  BY <1>1, <1>2
<1>4. \A i \in 1 .. n - 1 : i \in 1 .. n
  BY <1>1
<1>5. \A i \in 2 .. n - 1 : i \in 2 .. n /\ v[i] = w[i]
  BY <1>1, <1>2
<1>6. \A i \in 1 .. n - 2 : i \in 1 .. n - 1 /\ v[i] = w[i] /\ v[i + 1] = w[i + 1]
  BY <1>1, <1>2
<1>7. Stacked(g, v)
  <2>1. Len(v) - 1 = n - 2
    BY <1>1, <1>2
  <2> QED
    BY <1>2, <1>3, <1>4, <1>5, <1>6, <2>1 DEF Stacked
<1> QED
  BY <1>7 DEF v

(* A new iteration of a cycle has its whole partition to do. *)
LEMMA IterateOK ==
  ASSUME NEW g, WellOrdered(g), NEW f \in Frame, f.todo = g.parts[f.cycle]
  PROVE  FrameOK(g, f) /\ At(g, f) = 0
<1>1. f.cycle \in Cycles
  BY DEF Frame
<1>2. Len(g.parts[f.cycle]) \in Nat
  BY <1>1 DEF WellOrdered
<1>3. At(g, f) = 0
  <2> DEFINE a == Len(g.parts[f.cycle])
  <2>1. At(g, f) = a - a /\ a \in Nat
    BY <1>2 DEF At
  <2> HIDE DEF a
  <2> QED
    BY <2>1
<1> QED
  BY <1>2, <1>3 DEF FrameOK, Part

-----------------------------------------------------------------------------
(***************************************************************************)
(* The inductive invariant of a running analysis.                          *)
(***************************************************************************)

(* What an activation has achieved.  An increasing iteration, and the      *)
(* outermost loop, have made their first k components sound, each for what *)
(* enters it now; a decreasing iteration keeps the whole cycle sound, but  *)
(* for the labels S of the inner cycle that is being iterated.             *)
FrameSound(g, r, f, k, S) ==
  /\ f.mode = "desc" => Sound(g, r, g.mem[f.cycle], S)
  /\ f.mode # "desc" =>
       \A j \in 1 .. k : \/ IsHeadOf(f.cycle, Part(g, f.cycle, j))
                         \/ Sound(g, r, LabelsOf(g, Part(g, f.cycle, j)), {})

(* The activations around the current one. *)
BelowSound(g, r, w) ==
  \A i \in 1 .. Len(w) - 1 :
    FrameSound(g, r, w[i], At(g, w[i]) - 1, g.mem[w[i + 1].cycle])

(* The head of an iterated cycle has the invariant of the iteration. *)
HeadsHold(r, w) == \A i \in 2 .. Len(w) : r.pre[w[i].cycle] = w[i].invariant

Progress(g, r, w) ==
  /\ HeadsHold(r, w)
  /\ BelowSound(g, r, w)
  /\ FrameSound(g, r, w[Len(w)], At(g, w[Len(w)]), {})

(* The entry describes the initial values; every label, but the entry      *)
(* before it was visited, is transformed.                                  *)
Described(g, r, sk) ==
  /\ \A x \in EntryValues : InD(x, r.pre[EntryLabel])
  /\ \A l \in Labels : (sk => l # EntryLabel) => Transformed(g, r, l)

(* No edge leads back to an earlier component, but to the head. *)
LEMMA NoEdgeBack ==
  ASSUME NEW g, WellOrdered(g), NEW c \in Cycles,
         NEW k \in 1 .. Len(g.parts[c]), NEW l \in LabelsOf(g, Part(g, c, k)),
         NEW j \in 1 .. Len(g.parts[c]), j < k, ~IsHeadOf(c, Part(g, c, j))
  PROVE  /\ l \notin LabelsOf(g, Part(g, c, j))
         /\ g.ch[l] \cap LabelsOf(g, Part(g, c, j)) = {}
<1>0. g.parts[c] \in Seq(Component) /\ k \in Int /\ j \in Int
  BY DEF WellOrdered
<1>1. l \notin LabelsOf(g, Part(g, c, j))
  BY <1>0 DEF WellOrdered
<1>2. ASSUME NEW m \in g.ch[l] \cap LabelsOf(g, Part(g, c, j))
      PROVE  FALSE
  <2>1. CASE m # c
    <3>1. k < j \/ k = j
      BY <2>1 DEF WellOrdered
    <3> QED
      BY <1>0, <3>1
  <2>2. CASE m = c
    <3>1. c \in g.mem[c]
      BY <2>2 DEF WellOrdered
    <3>2. PICK h \in 1 .. Len(g.parts[c]) : IsHeadOf(c, Part(g, c, h))
      BY <3>1 DEF WellOrdered
    <3>3. c \in LabelsOf(g, Part(g, c, h))
      BY <3>2 DEF IsHeadOf, LabelsOf
    <3>4. h = j
      BY <2>2, <3>3 DEF WellOrdered
    <3> QED
      BY <3>2, <3>4
  <2> QED
    BY <2>1, <2>2
<1> QED
  BY <1>1, <1>2

(* Touching a label of component k leaves what the components before it    *)
(* have achieved.                                                          *)
LEMMA TouchFrame ==
  ASSUME NEW g, WellOrdered(g), NEW r, NEW r2, NEW f, f.cycle \in Cycles,
         NEW k \in 1 .. Len(g.parts[f.cycle]),
         NEW l \in LabelsOf(g, Part(g, f.cycle, k)), l \in Labels,
         NEW d, Touches(g, r, r2, l, d),
         NEW S, f.mode = "desc" => l \in S, FrameSound(g, r, f, k - 1, S)
  PROVE  FrameSound(g, r2, f, k - 1, S)
<1>1. CASE f.mode = "desc"
  <2>1. g.mem[f.cycle] \in SUBSET Labels /\ l \in g.mem[f.cycle]
    BY DEF WellOrdered
  <2>2. Sound(g, r2, g.mem[f.cycle], S)
    BY <1>1, <2>1, TouchActive DEF FrameSound
  <2> QED
    BY <1>1, <2>2 DEF FrameSound
<1>2. CASE f.mode # "desc"
  <2> SUFFICES ASSUME NEW j \in 1 .. k - 1, ~IsHeadOf(f.cycle, Part(g, f.cycle, j))
               PROVE  Sound(g, r2, LabelsOf(g, Part(g, f.cycle, j)), {})
    BY <1>2 DEF FrameSound
  <2>0. g.parts[f.cycle] \in Seq(Component)
    BY DEF WellOrdered
  <2>1. j \in 1 .. Len(g.parts[f.cycle]) /\ j < k
    BY <2>0
  <2>2. LabelsOf(g, Part(g, f.cycle, j)) \in SUBSET Labels
    BY <2>1 DEF WellOrdered
  <2>3. /\ l \in Labels \ LabelsOf(g, Part(g, f.cycle, j))
        /\ g.ch[l] \cap LabelsOf(g, Part(g, f.cycle, j)) = {}
    BY <2>1, NoEdgeBack
  <2>4. Sound(g, r, LabelsOf(g, Part(g, f.cycle, j)), {})
    BY <1>2 DEF FrameSound
  <2> QED
    BY <2>2, <2>3, <2>4, TouchOutside
<1> QED
  BY <1>1, <1>2

(* Touching a label of the current cycle leaves the activations around it. *)
LEMMA TouchBelow ==
  ASSUME NEW g, WellOrdered(g), NEW r, NEW r2, NEW w, Stacked(g, w),
         NEW l \in Labels, Len(w) >= 2 => l \in g.mem[w[Len(w)].cycle],
         NEW d, Touches(g, r, r2, l, d), BelowSound(g, r, w)
  PROVE  /\ BelowSound(g, r2, w)
         /\ \A i \in 2 .. Len(w) - 1 : r2.pre[w[i].cycle] = r.pre[w[i].cycle]
<1>0. Len(w) \in Nat /\ Len(w) >= 1
  BY StackedFacts
<1>1. ASSUME NEW i \in 1 .. Len(w) - 1
      PROVE  l \in g.mem[w[i + 1].cycle]
  <2>1. Len(w) >= 2 /\ i + 1 \in 2 .. Len(w) /\ Len(w) \in 2 .. Len(w) /\ i + 1 <= Len(w)
    BY <1>0
  <2>2. g.mem[w[Len(w)].cycle] \subseteq g.mem[w[i + 1].cycle]
    BY <2>1 DEF Stacked
  <2> QED
    BY <2>1, <2>2
<1>2. ASSUME NEW i \in 1 .. Len(w) - 1
      PROVE  FrameSound(g, r2, w[i], At(g, w[i]) - 1, g.mem[w[i + 1].cycle])
  <2>1. i \in 1 .. Len(w)
    BY <1>0
  <2>2. w[i].cycle \in Cycles /\ At(g, w[i]) \in 1 .. Len(g.parts[w[i].cycle])
    BY <2>1, StackedFacts
  <2>3. Entered(g, w[i], w[i + 1].cycle)
    BY DEF Stacked
  <2>4. l \in LabelsOf(g, Part(g, w[i].cycle, At(g, w[i])))
    BY <1>1, <2>3 DEF Entered, LabelsOf
  <2>5. FrameSound(g, r, w[i], At(g, w[i]) - 1, g.mem[w[i + 1].cycle])
    BY DEF BelowSound
  <2> QED
    BY <1>1, <2>2, <2>4, <2>5, TouchFrame
<1>3. ASSUME NEW i \in 2 .. Len(w) - 1
      PROVE  r2.pre[w[i].cycle] = r.pre[w[i].cycle]
  <2>1. i \in 1 .. Len(w) - 1 /\ i \in 2 .. Len(w)
    BY <1>0
  <2>2. w[i].cycle \notin g.mem[w[i + 1].cycle]
    BY StackedFacts
  <2>3. w[i].cycle # l /\ w[i].cycle \in Labels
    BY <1>1, <2>1, <2>2 DEF Stacked
  <2> QED
    BY <2>3 DEF Touches
<1> QED
  BY <1>2, <1>3 DEF BelowSound

(* Touching a label other than the entry, or the entry with its own        *)
(* pre-invariant.                                                          *)
LEMMA TouchDescribed ==
  ASSUME NEW g, WellOrdered(g), NEW r \in ResultType, NEW r2, NEW l \in Labels, NEW d \in D,
         Touches(g, r, r2, l, d), NEW sk, Described(g, r, sk),
         l = EntryLabel => d = r.pre[EntryLabel],
         sk => l = EntryLabel
  PROVE  Described(g, r2, FALSE)
<1>1. \A x \in EntryValues : InD(x, r2.pre[EntryLabel])
  <2>1. r2.pre[EntryLabel] = r.pre[EntryLabel]
    BY LabelsAssumption DEF Touches
  <2> QED
    BY <2>1 DEF Described
<1>2. \A k \in Labels : Transformed(g, r2, k)
  BY TouchTransforms DEF Described
<1> QED
  BY <1>1, <1>2 DEF Described

-----------------------------------------------------------------------------
(***************************************************************************)
(* Every operation of the iterator makes progress.                         *)
(***************************************************************************)

LEMMA OneOrMore ==
  ASSUME NEW n \in Nat, n >= 1
  PROVE  n = 1 \/ n \in 2 .. n
  OBVIOUS

(* The top activation changes, but not its cycle: what the ones around it  *)
(* have achieved stays.                                                    *)
LEMMA BelowSame ==
  ASSUME NEW g, NEW r, NEW w, Len(w) \in Nat, Len(w) >= 1, BelowSound(g, r, w),
         NEW v, Len(v) = Len(w), \A i \in 1 .. Len(w) - 1 : v[i] = w[i],
         v[Len(w)].cycle = w[Len(w)].cycle,
         r.pre[v[Len(w)].cycle] = v[Len(w)].invariant \/ Len(w) = 1,
         \A i \in 2 .. Len(w) - 1 : r.pre[w[i].cycle] = w[i].invariant
  PROVE  BelowSound(g, r, v) /\ HeadsHold(r, v)
<1>1. ASSUME NEW i \in 1 .. Len(w)
      PROVE  v[i].cycle = w[i].cycle
  BY i = Len(w) \/ i \in 1 .. Len(w) - 1
<1>2. BelowSound(g, r, v)
  <2> SUFFICES ASSUME NEW i \in 1 .. Len(w) - 1
               PROVE  FrameSound(g, r, v[i], At(g, v[i]) - 1, g.mem[v[i + 1].cycle])
    BY DEF BelowSound
  <2>1. v[i] = w[i] /\ i + 1 \in 1 .. Len(w)
    OBVIOUS
  <2>2. v[i + 1].cycle = w[i + 1].cycle
    BY <1>1, <2>1
  <2> QED
    BY <2>1, <2>2 DEF BelowSound
<1>3. HeadsHold(r, v)
  <2> SUFFICES ASSUME NEW i \in 2 .. Len(w)
               PROVE  r.pre[v[i].cycle] = v[i].invariant
    BY DEF HeadsHold
  <2>1. CASE i = Len(w)
    BY <2>1
  <2>2. CASE i # Len(w)
    <3>1. i \in 2 .. Len(w) - 1 /\ i \in 1 .. Len(w) - 1
      BY <2>2
    <3> QED
      BY <3>1
  <2> QED
    BY <2>1, <2>2
<1> QED
  BY <1>2, <1>3

(* What the operations have in common: where the next component is. *)
LEMMA NextComponent ==
  ASSUME NEW g, WellOrdered(g), NEW w, Stacked(g, w), w[Len(w)].todo # <<>>,
         NEW sk, sk => Len(w) = 1 /\ At(g, w[1]) = 0,
         NEW l \in LabelsOf(g, Head(w[Len(w)].todo))
  PROVE  LET n == Len(w)
             v == AdvanceOf(w)
         IN  /\ l \in LabelsOf(g, Part(g, v[n].cycle, At(g, v[n])))
             /\ l \in Labels
             /\ n >= 2 => l \in g.mem[w[n].cycle] /\ l # EntryLabel
             /\ sk => l = EntryLabel /\ Head(w[n].todo) = [label |-> EntryLabel, cycle |-> FALSE]
<1> DEFINE n == Len(w)
           v == AdvanceOf(w)
<1>1. n \in Nat /\ n >= 1 /\ w[n].cycle \in Cycles
  BY StackedFacts
<1>2. /\ v[n].cycle = w[n].cycle
      /\ At(g, v[n]) = At(g, w[n]) + 1
      /\ At(g, v[n]) \in 1 .. Len(g.parts[w[n].cycle])
      /\ Head(w[n].todo) = Part(g, w[n].cycle, At(g, v[n]))
  BY AdvanceStacked
<1>3. l \in LabelsOf(g, Part(g, w[n].cycle, At(g, v[n])))
  BY <1>2
<1> HIDE DEF v
<1>4. l \in g.mem[w[n].cycle] /\ l \in Labels
  BY <1>1, <1>2, <1>3 DEF WellOrdered
<1>5. n >= 2 => l # EntryLabel
  <2>1. n >= 2 => n \in 2 .. Len(w)
    BY <1>1
  <2> QED
    BY <1>4, <2>1, StackedFacts
<1>6. ASSUME sk
      PROVE  l = EntryLabel /\ Head(w[n].todo) = [label |-> EntryLabel, cycle |-> FALSE]
  <2>0. n = 1 /\ At(g, w[n]) = 0
    BY <1>6
  <2>1. n = 1 /\ w[n].cycle = NoCycle /\ At(g, v[n]) = 1
    BY <1>2, <2>0 DEF Stacked
  <2>2. Head(w[n].todo) = [label |-> EntryLabel, cycle |-> FALSE]
    BY <1>2, <2>1 DEF WellOrdered
  <2> QED
    BY <2>2 DEF LabelsOf
<1> QED
  BY <1>2, <1>3, <1>4, <1>5, <1>6 DEF v

(* operator()(const Label&) *)
LEMMA VisitStep ==
  ASSUME NEW g, WellOrdered(g), NEW r \in ResultType, NEW r2, NEW w, Stacked(g, w),
         Progress(g, r, w),
         NEW sk, sk => Len(w) = 1 /\ At(g, w[1]) = 0, Described(g, r, sk),
         w[Len(w)].todo # <<>>, NEW l \in Labels, l # w[Len(w)].cycle,
         Head(w[Len(w)].todo) = [label |-> l, cycle |-> FALSE],
         NEW d, d = IF l = EntryLabel THEN r.pre[l] ELSE PrevJoin(g, r, l),
         Touches(g, r, r2, l, d)
  PROVE  Progress(g, r2, AdvanceOf(w)) /\ Described(g, r2, FALSE)
<1> DEFINE n == Len(w)
           v == AdvanceOf(w)
           c == w[n].cycle
           k == At(g, v[n])
<1>1. n \in Nat /\ n >= 1 /\ n \in 1 .. n /\ c \in Cycles /\ Len(g.parts[c]) \in Nat
  BY StackedFacts
<1>2. /\ Len(v) = n
      /\ \A i \in 1 .. n - 1 : v[i] = w[i]
      /\ v[n].mode = w[n].mode
      /\ v[n].cycle = c
      /\ v[n].invariant = w[n].invariant
      /\ k = At(g, w[n]) + 1
      /\ k \in 1 .. Len(g.parts[c])
      /\ Part(g, c, k) = [label |-> l, cycle |-> FALSE]
  BY AdvanceStacked
<1>3. At(g, w[n]) = k - 1
  <2>1. At(g, w[n]) \in 0 .. Len(g.parts[c])
    BY <1>1, StackedFacts
  <2> QED
    BY <1>1, <1>2, <2>1
<1>4. /\ n >= 2 => l \in g.mem[c] /\ l # EntryLabel
      /\ sk => l = EntryLabel
  <2>1. l \in LabelsOf(g, Head(w[n].todo))
    BY DEF LabelsOf
  <2> QED
    BY <2>1, NextComponent
<1> HIDE DEF v
<1>5. LabelsOf(g, Part(g, c, k)) = {l}
  BY <1>2 DEF LabelsOf
<1>6. d \in D
  BY PrevJoinCovers DEF ResultType
<1>7. Described(g, r2, FALSE)
  BY <1>4, <1>6, TouchDescribed
<1>8. BelowSound(g, r2, v) /\ HeadsHold(r2, v)
  <2>1. /\ BelowSound(g, r2, w)
        /\ \A i \in 2 .. n - 1 : r2.pre[w[i].cycle] = r.pre[w[i].cycle]
    BY <1>4, TouchBelow DEF Progress
  <2>2. \A i \in 2 .. n : r.pre[w[i].cycle] = w[i].invariant
    BY DEF Progress, HeadsHold
  <2>3. \A i \in 2 .. n - 1 : r2.pre[w[i].cycle] = w[i].invariant
    BY <1>1, <2>1, <2>2
  <2>4. n = 1 \/ r2.pre[c] = w[n].invariant
    <3>0. n = 1 \/ n \in 2 .. n
      BY <1>1, OneOrMore
    <3>1. n = 1 \/ (n \in 2 .. n /\ c \in Labels)
      BY <3>0 DEF Stacked
    <3> QED
      BY <2>2, <3>1 DEF Touches
  <2> QED
    BY <1>1, <1>2, <2>1, <2>3, <2>4, BelowSame
<1>9. FrameSound(g, r, w[n], k - 1, {})
  BY <1>3 DEF Progress
<1>10. FrameSound(g, r2, v[n], k, {})
  <2>1. CASE w[n].mode = "desc"
    <3>1. n >= 2 /\ ~sk
      BY <1>1, <2>1 DEF Stacked
    <3>2. /\ g.mem[c] \in SUBSET Labels
          /\ l \in g.mem[c] /\ l # EntryLabel
          /\ \A m \in g.mem[c] : Transformed(g, r, m)
      BY <1>1, <1>4, <3>1 DEF WellOrdered, Described
    <3>3. Sound(g, r, g.mem[c], {})
      BY <1>9, <2>1 DEF FrameSound
    <3>4. d = PrevJoin(g, r, l)
      BY <3>2
    <3>5. Sound(g, r2, g.mem[c], {})
      BY <3>2, <3>3, <3>4, DescendIsSound
    <3> QED
      BY <1>2, <2>1, <3>5 DEF FrameSound
  <2>2. CASE w[n].mode # "desc"
    <3>1. FrameSound(g, r2, w[n], k - 1, {})
      BY <1>1, <1>2, <1>5, <1>9, <2>2, TouchFrame
    <3>2. Sound(g, r2, {l}, {})
      <4>1. CASE l = EntryLabel
        BY <4>1, VisitEntryIsSound DEF Described
      <4>2. CASE l # EntryLabel
        <5>1. ~sk
          BY <1>4, <4>2
        <5>2. l \notin g.ch[l]
          BY <1>1, <1>2, <1>5 DEF WellOrdered
        <5>3. Transformed(g, r, l)
          BY <5>1 DEF Described
        <5> QED
          BY <4>2, <5>2, <5>3, VisitIsSound
      <4> QED
        BY <4>1, <4>2
    <3>3. \A j \in 1 .. k : j \in 1 .. k - 1 \/ j = k
      BY <1>1, <1>2
    <3> QED
      BY <1>2, <1>5, <2>2, <3>1, <3>2, <3>3 DEF FrameSound
  <2> QED
    BY <2>1, <2>2
<1> QED
  BY <1>2, <1>7, <1>8, <1>10 DEF Progress, v

(* The head of the cycle is left out. *)
LEMMA SkipHeadStep ==
  ASSUME NEW g, WellOrdered(g), NEW r \in ResultType, NEW w, Stacked(g, w),
         Progress(g, r, w),
         w[Len(w)].todo # <<>>, IsHeadOf(w[Len(w)].cycle, Head(w[Len(w)].todo))
  PROVE  Progress(g, r, AdvanceOf(w))
<1> DEFINE n == Len(w)
           v == AdvanceOf(w)
           c == w[n].cycle
           k == At(g, v[n])
<1>1. n \in Nat /\ n >= 1 /\ n \in 1 .. n /\ c \in Cycles /\ Len(g.parts[c]) \in Nat
  BY StackedFacts
<1>2. /\ Len(v) = n
      /\ \A i \in 1 .. n - 1 : v[i] = w[i]
      /\ v[n].mode = w[n].mode
      /\ v[n].cycle = c
      /\ v[n].invariant = w[n].invariant
      /\ k = At(g, w[n]) + 1
      /\ k \in 1 .. Len(g.parts[c])
      /\ IsHeadOf(c, Part(g, c, k))
  BY AdvanceStacked
<1>3. At(g, w[n]) = k - 1
  <2>1. At(g, w[n]) \in 0 .. Len(g.parts[c])
    BY <1>1, StackedFacts
  <2> QED
    BY <1>1, <1>2, <2>1
<1> HIDE DEF v
<1>4. BelowSound(g, r, v) /\ HeadsHold(r, v)
  <2>1. n = 1 \/ n \in 2 .. n
    BY <1>1, OneOrMore
  <2>2. \A i \in 2 .. n : r.pre[w[i].cycle] = w[i].invariant
    BY DEF Progress, HeadsHold
  <2>3. /\ n = 1 \/ r.pre[c] = w[n].invariant
        /\ \A i \in 2 .. n - 1 : r.pre[w[i].cycle] = w[i].invariant
    BY <1>1, <2>1, <2>2
  <2> QED
    BY <1>1, <1>2, <2>3, BelowSame DEF Progress
<1>5. FrameSound(g, r, v[n], k, {})
  <2>1. FrameSound(g, r, w[n], k - 1, {})
    BY <1>3 DEF Progress
  <2>2. \A j \in 1 .. k : j \in 1 .. k - 1 \/ j = k
    BY <1>1, <1>2
  <2> QED
    BY <1>2, <2>1, <2>2 DEF FrameSound
<1> QED
  BY <1>2, <1>4, <1>5 DEF Progress, v

(* operator()(const std::shared_ptr<WtoCycle>&), up to its first           *)
(* iteration: whatever the invariant it starts from.                       *)
LEMMA EnterStep ==
  ASSUME NEW g, WellOrdered(g), NEW r \in ResultType, NEW r2, NEW w, Stacked(g, w),
         Progress(g, r, w),
         NEW sk, sk => Len(w) = 1 /\ At(g, w[1]) = 0, Described(g, r, sk),
         w[Len(w)].todo # <<>>, NEW c \in Labels,
         Head(w[Len(w)].todo) = [label |-> c, cycle |-> TRUE],
         NEW d \in D, Touches(g, r, r2, c, d),
         NEW f \in Frame, f.mode = "asc", f.cycle = c, f.invariant = d,
         f.todo = g.parts[c]
  PROVE  /\ Stacked(g, Append(AdvanceOf(w), f))
         /\ Progress(g, r2, Append(AdvanceOf(w), f))
         /\ Described(g, r2, FALSE)
<1> DEFINE n == Len(w)
           u == AdvanceOf(w)
           v == Append(u, f)
           b == w[n].cycle
           k == At(g, u[n])
<1>1. n \in Nat /\ n >= 1 /\ n \in 1 .. n /\ b \in Cycles /\ Len(g.parts[b]) \in Nat
  BY StackedFacts
<1>2. /\ Stacked(g, u)
      /\ Len(u) = n
      /\ \A i \in 1 .. n - 1 : u[i] = w[i]
      /\ u[n].mode = w[n].mode
      /\ u[n].cycle = b
      /\ u[n].invariant = w[n].invariant
      /\ k = At(g, w[n]) + 1
      /\ k \in 1 .. Len(g.parts[b])
      /\ Part(g, b, k) = [label |-> c, cycle |-> TRUE]
  BY AdvanceStacked
<1>3. At(g, w[n]) = k - 1
  <2>1. At(g, w[n]) \in 0 .. Len(g.parts[b])
    BY <1>1, StackedFacts
  <2> QED
    BY <1>1, <1>2, <2>1
<1>4. c \in g.mem[c] /\ c # b
  BY <1>1, <1>2 DEF WellOrdered
<1>5. c \in LabelsOf(g, Head(w[n].todo))
  BY <1>4 DEF LabelsOf
<1>6. /\ n >= 2 => c \in g.mem[b] /\ c # EntryLabel
      /\ ~sk
  <2>1. [label |-> c, cycle |-> TRUE] # [label |-> EntryLabel, cycle |-> FALSE]
    OBVIOUS
  <2> QED
    BY <1>5, <2>1, NextComponent
<1> HIDE DEF u
<1>7. u \in Seq(Frame)
  BY <1>2 DEF Stacked
<1>8. /\ Len(v) = n + 1
      /\ \A i \in 1 .. n : v[i] = u[i]
      /\ v[n + 1] = f
  BY <1>1, <1>2, <1>7
<1> HIDE DEF v
<1>9. FrameOK(g, f) /\ At(g, f) = 0
  BY IterateOK
<1>10. Entered(g, u[n], c)
  BY <1>1, <1>2 DEF Entered
<1>11. Stacked(g, v) /\ g.mem[c] = LabelsOf(g, Part(g, b, k))
  BY <1>2, <1>9, <1>10, PushStacked DEF v
<1>12. c # EntryLabel
  <2>1. n + 1 \in 2 .. Len(v)
    BY <1>1, <1>8
  <2> QED
    BY <1>4, <1>8, <1>11, <2>1, StackedFacts
<1>13. Described(g, r2, FALSE)
  BY <1>6, <1>12, TouchDescribed
<1>14. BelowSound(g, r2, u) /\ HeadsHold(r2, u)
  <2>1. /\ BelowSound(g, r2, w)
        /\ \A i \in 2 .. n - 1 : r2.pre[w[i].cycle] = r.pre[w[i].cycle]
    BY <1>6, TouchBelow DEF Progress
  <2>2. \A i \in 2 .. n : r.pre[w[i].cycle] = w[i].invariant
    BY DEF Progress, HeadsHold
  <2>3. \A i \in 2 .. n - 1 : r2.pre[w[i].cycle] = w[i].invariant
    BY <1>1, <2>1, <2>2
  <2>4. n = 1 \/ r2.pre[b] = w[n].invariant
    <3>0. n = 1 \/ n \in 2 .. n
      BY <1>1, OneOrMore
    <3>1. n = 1 \/ (n \in 2 .. n /\ b \in Labels)
      BY <3>0 DEF Stacked
    <3> QED
      BY <1>4, <2>2, <3>1 DEF Touches
  <2> QED
    BY <1>1, <1>2, <2>1, <2>3, <2>4, BelowSame
<1>15. FrameSound(g, r2, u[n], k - 1, g.mem[c])
  <2>1. FrameSound(g, r, w[n], k - 1, {})
    BY <1>3 DEF Progress
  <2>2. FrameSound(g, r, u[n], k - 1, g.mem[c])
    BY <1>2, <2>1 DEF FrameSound, Sound
  <2> QED
    BY <1>1, <1>2, <1>4, <1>11, <2>2, TouchFrame
<1>16. BelowSound(g, r2, v)
  <2> SUFFICES ASSUME NEW i \in 1 .. n
               PROVE  FrameSound(g, r2, v[i], At(g, v[i]) - 1, g.mem[v[i + 1].cycle])
    <3>1. Len(v) - 1 = n
      BY <1>1, <1>8
    <3> QED
      BY <3>1 DEF BelowSound
  <2>1. CASE i = n
    BY <1>1, <1>8, <1>15, <2>1
  <2>2. CASE i # n
    <3>1. i \in 1 .. n - 1 /\ v[i] = u[i] /\ v[i + 1] = u[i + 1]
      BY <1>1, <1>8, <2>2
    <3> QED
      BY <1>2, <1>14, <3>1 DEF BelowSound
  <2> QED
    BY <2>1, <2>2
<1>17. HeadsHold(r2, v)
  <2> SUFFICES ASSUME NEW i \in 2 .. n + 1
               PROVE  r2.pre[v[i].cycle] = v[i].invariant
    BY <1>8 DEF HeadsHold
  <2>1. CASE i = n + 1
    BY <1>8, <2>1 DEF Touches
  <2>2. CASE i # n + 1
    <3>1. i \in 2 .. n /\ v[i] = u[i]
      BY <1>1, <1>8, <2>2
    <3> QED
      BY <1>2, <1>14, <3>1 DEF HeadsHold
  <2> QED
    BY <2>1, <2>2
<1>18. FrameSound(g, r2, f, 0, {})
  BY DEF FrameSound
<1> QED
  BY <1>8, <1>9, <1>11, <1>13, <1>16, <1>17, <1>18 DEF Progress, v, u

(* The activation of a cycle. *)
LEMMA CycleFacts ==
  ASSUME NEW g, WellOrdered(g), NEW w, Stacked(g, w), w[Len(w)].mode # "top"
  PROVE  LET n == Len(w)
             c == w[n].cycle
         IN  /\ w \in Seq(Frame) /\ w # <<>> /\ n \in Nat /\ n >= 1 /\ n >= 2
             /\ n \in 1 .. n /\ n \in 2 .. n
             /\ c \in Cycles /\ c \in Labels /\ c # EntryLabel
             /\ Len(g.parts[c]) \in Nat
             /\ g.mem[c] \in SUBSET Labels
             /\ c \in g.mem[c] /\ EntryLabel \notin g.mem[c]
<1> DEFINE n == Len(w)
           c == w[n].cycle
<1>1. n \in Nat /\ n >= 1
  BY StackedFacts
<1>2. n \in 1 .. n
  BY <1>1
<1>3. n = 1 \/ n \in 2 .. n
  BY <1>1, OneOrMore
<1>4. w \in Seq(Frame) /\ w # <<>> /\ w[1].mode = "top"
  BY DEF Stacked
<1>5. n \in 2 .. n
  BY <1>3, <1>4
<1>6. c \in Labels
  BY <1>5 DEF Stacked
<1>7. c \in g.mem[c] /\ EntryLabel \notin g.mem[c]
  BY <1>5, StackedFacts
<1>8. c \in Cycles /\ Len(g.parts[c]) \in Nat
  BY <1>2, StackedFacts
<1>9. g.mem[c] \in SUBSET Labels
  BY <1>8 DEF WellOrdered
<1>10. n >= 2
  BY <1>5
<1> QED
  BY <1>1, <1>2, <1>4, <1>5, <1>6, <1>7, <1>8, <1>9, <1>10

(* A new iteration of the current cycle starts from its head. *)
LEMMA IterateStep ==
  ASSUME NEW g, WellOrdered(g), NEW r \in ResultType, NEW r2, NEW w, Stacked(g, w),
         Progress(g, r, w), Described(g, r, FALSE),
         w[Len(w)].mode # "top", NEW c \in Labels, w[Len(w)].cycle = c,
         NEW d \in D, Touches(g, r, r2, c, d),
         NEW f \in Frame, f.mode # "top", f.cycle = c, f.invariant = d,
         f.todo = g.parts[c],
         f.mode = "desc" => Sound(g, r2, g.mem[c], {})
  PROVE  /\ Stacked(g, Append(Pop(w), f))
         /\ Progress(g, r2, Append(Pop(w), f))
         /\ Described(g, r2, FALSE)
<1> DEFINE n == Len(w)
           v == Append(Pop(w), f)
<1>1. n \in Nat /\ n >= 1 /\ n >= 2 /\ w \in Seq(Frame) /\ w # <<>>
  BY CycleFacts
<1>3. c \in g.mem[c] /\ c \in Labels /\ c # EntryLabel
  BY CycleFacts
<1>5. FrameOK(g, f) /\ At(g, f) = 0
  BY IterateOK
<1>6. Stacked(g, v)
  BY <1>5, ReplaceStacked
<1>7. /\ Len(v) = n
      /\ \A i \in 1 .. n - 1 : v[i] = w[i]
      /\ v[n] = f
  BY <1>1, ReplaceFacts
<1> HIDE DEF v
<1>8. Described(g, r2, FALSE)
  BY <1>3, TouchDescribed
<1>9. BelowSound(g, r2, v) /\ HeadsHold(r2, v)
  <2>1. /\ BelowSound(g, r2, w)
        /\ \A i \in 2 .. n - 1 : r2.pre[w[i].cycle] = r.pre[w[i].cycle]
    <3>1. BelowSound(g, r, w)
      BY DEF Progress
    <3>2. c \in Labels /\ (n >= 2 => c \in g.mem[w[n].cycle])
      BY <1>3
    <3>3. ASSUME NEW l \in Labels, n >= 2 => l \in g.mem[w[n].cycle],
                 Touches(g, r, r2, l, d)
          PROVE  /\ BelowSound(g, r2, w)
                 /\ \A i \in 2 .. n - 1 : r2.pre[w[i].cycle] = r.pre[w[i].cycle]
      BY <3>1, <3>3, TouchBelow, SMTT(30)
    <3> QED
      BY <3>2, <3>3
  <2>2. \A i \in 2 .. n : r.pre[w[i].cycle] = w[i].invariant
    BY DEF Progress, HeadsHold
  <2>3. \A i \in 2 .. n - 1 : r2.pre[w[i].cycle] = w[i].invariant
    BY <1>1, <2>1, <2>2
  <2>4. r2.pre[c] = d
    BY DEF Touches
  <2> QED
    BY <1>1, <1>7, <2>1, <2>3, <2>4, BelowSame
<1>10. FrameSound(g, r2, f, 0, {})
  BY DEF FrameSound
<1> QED
  BY <1>5, <1>6, <1>7, <1>8, <1>9, <1>10 DEF Progress, v

(* The increasing sequence ends: the whole cycle is sound. *)
LEMMA AscendStableStep ==
  ASSUME NEW g, WellOrdered(g), NEW r \in ResultType, NEW r2, NEW w, Stacked(g, w),
         Progress(g, r, w), Described(g, r, FALSE),
         w[Len(w)].mode = "asc", w[Len(w)].todo = <<>>, NEW c, c = w[Len(w)].cycle,
         LeqD(PrevJoin(g, r, c), w[Len(w)].invariant),
         Touches(g, r, r2, c, PrevJoin(g, r, c))
  PROVE  Sound(g, r2, g.mem[c], {})
<1> DEFINE n == Len(w)
<1>1. n \in 2 .. n /\ Len(g.parts[c]) \in Nat
  BY CycleFacts
<1>3. c \in g.mem[c] /\ EntryLabel \notin g.mem[c] /\ c \in Labels
  BY CycleFacts
<1>4. r.pre[c] = w[n].invariant
  BY <1>1 DEF Progress, HeadsHold
<1>5. At(g, w[n]) = Len(g.parts[c])
  <2> DEFINE a == Len(g.parts[c])
  <2>1. At(g, w[n]) = a - 0 /\ a \in Nat
    BY <1>1 DEF At
  <2> HIDE DEF a
  <2>2. a - 0 = a
    BY <2>1
  <2> QED
    BY <2>1, <2>2 DEF a
<1>6. \A i \in 1 .. Len(g.parts[c]) :
        IsHeadOf(c, Part(g, c, i)) \/ Sound(g, r, LabelsOf(g, Part(g, c, i)), {})
  BY <1>5 DEF Progress, FrameSound
<1> QED
  BY <1>3, <1>4, <1>6, StableIsSound DEF Described

(* A step of the decreasing sequence: the cycle stays sound. *)
LEMMA DescendRefineStep ==
  ASSUME NEW g, WellOrdered(g), NEW r \in ResultType, NEW r2, NEW w, Stacked(g, w),
         Progress(g, r, w), Described(g, r, FALSE),
         w[Len(w)].mode = "desc", NEW c, c = w[Len(w)].cycle,
         NEW d, Touches(g, r, r2, c, d),
         d \in {MeetD(w[Len(w)].invariant, PrevJoin(g, r, c)),
                NarrowD(w[Len(w)].invariant, PrevJoin(g, r, c))}
  PROVE  Sound(g, r2, g.mem[c], {})
<1> DEFINE n == Len(w)
<1>1. n \in 2 .. n
  BY CycleFacts
<1>3. c \in g.mem[c] /\ c \in Labels /\ g.mem[c] \in SUBSET Labels /\ c # EntryLabel
  BY CycleFacts
<1>4. r.pre[c] = w[n].invariant
  BY <1>1 DEF Progress, HeadsHold
<1>5. Sound(g, r, g.mem[c], {})
  BY DEF Progress, FrameSound
<1>6. \A x \in Values : InD(x, r.pre[c]) /\ InD(x, PrevJoin(g, r, c)) => InD(x, d)
  <2>1. r.pre[c] \in D /\ PrevJoin(g, r, c) \in D
    BY <1>3, PrevJoinCovers DEF ResultType
  <2> QED
    BY <1>4, <2>1, SoundDomainAssumption
<1>7. \A k \in g.mem[c] : Transformed(g, r, k)
  BY <1>3 DEF Described
<1> QED
  BY <1>3, <1>5, <1>6, <1>7, DescendIsSound

(* The decreasing sequence ends: the activation around goes on with a      *)
(* sound component.                                                        *)
LEMMA DescendEndStep ==
  ASSUME NEW g, WellOrdered(g), NEW r \in ResultType, NEW w, Stacked(g, w),
         Progress(g, r, w), Described(g, r, FALSE), w[Len(w)].mode = "desc"
  PROVE  Stacked(g, Pop(w)) /\ Progress(g, r, Pop(w))
<1> DEFINE n == Len(w)
           v == Pop(w)
           c == w[n].cycle
           p == w[n - 1]
           k == At(g, p)
<1>1. n \in Nat /\ n >= 2 /\ c \in Cycles /\ w \in Seq(Frame) /\ w # <<>>
  BY CycleFacts
<1>3. n - 1 \in 1 .. n - 1 /\ n - 1 \in 1 .. n /\ (n - 1) + 1 = n /\ n >= 2
  BY <1>1
<1>4. /\ Entered(g, p, c)
      /\ p.cycle \in Cycles
      /\ k \in 1 .. Len(g.parts[p.cycle])
      /\ Len(g.parts[p.cycle]) \in Nat
  BY <1>3, StackedFacts DEF Stacked
<1>5. /\ LabelsOf(g, Part(g, p.cycle, k)) = g.mem[c]
      /\ g.mem[c] \subseteq g.mem[p.cycle]
      /\ g.mem[p.cycle] \in SUBSET Labels
  <2>1. LabelsOf(g, Part(g, p.cycle, k)) = g.mem[c]
    BY <1>4 DEF Entered, LabelsOf
  <2> QED
    BY <1>4, <2>1 DEF WellOrdered
<1>6. Sound(g, r, g.mem[c], {})
  BY DEF Progress, FrameSound
<1>7. FrameSound(g, r, p, k - 1, g.mem[c])
  BY <1>3 DEF Progress, BelowSound
<1>8. FrameSound(g, r, p, k, {})
  <2>1. CASE p.mode = "desc"
    <3> DEFINE M == g.mem[p.cycle]
    <3>1. Sound(g, r, M, g.mem[c])
      BY <1>7, <2>1 DEF FrameSound
    <3>2. \A q \in M \ g.mem[c], x \in Values, m \in g.mem[c], y \in Values :
            Reached(g, r, M, q, x) /\ Follows(g, r, q, x, m, y) => InD(y, r.post[q])
      BY <1>5, <3>1 DEF Sound, Described, Transformed, Follows
    <3>3. ASSUME NEW l \in M, NEW x \in Values, Reached(g, r, M, l, x)
          PROVE  InD(x, r.pre[l])
      <4>1. CASE l \in g.mem[c]
        <5>1. Reached(g, r, g.mem[c], l, x)
          BY <1>5, <3>2, <3>3, <4>1, ReachedPart
        <5> QED
          BY <1>6, <4>1, <5>1 DEF Sound
      <4>2. CASE l \notin g.mem[c]
        BY <3>1, <3>3, <4>2 DEF Sound
      <4> QED
        BY <4>1, <4>2
    <3>4. Sound(g, r, M, {})
      BY <3>3 DEF Sound
    <3> QED
      BY <2>1, <3>4 DEF FrameSound
  <2>2. CASE p.mode # "desc"
    <3>1. \A j \in 1 .. k : j \in 1 .. k - 1 \/ j = k
      BY <1>4
    <3> QED
      BY <1>5, <1>6, <1>7, <2>2, <3>1 DEF FrameSound
  <2> QED
    BY <2>1, <2>2
<1>9. Stacked(g, v)
  BY <1>3, PopStacked
<1>10. Len(v) = n - 1 /\ \A i \in 1 .. n - 1 : v[i] = w[i]
  BY <1>1, PopFacts
<1> HIDE DEF v
<1>11. HeadsHold(r, v)
  <2>1. \A i \in 2 .. n - 1 : i \in 2 .. n /\ v[i] = w[i]
    BY <1>1, <1>10
  <2> QED
    BY <1>10, <2>1 DEF Progress, HeadsHold
<1>12. BelowSound(g, r, v)
  <2>1. \A i \in 1 .. n - 2 : i \in 1 .. n - 1 /\ v[i] = w[i] /\ v[i + 1] = w[i + 1]
    BY <1>1, <1>10
  <2>2. Len(v) - 1 = n - 2
    BY <1>1, <1>10
  <2> QED
    BY <2>1, <2>2 DEF Progress, BelowSound
<1>13. v[Len(v)] = p
  BY <1>3, <1>10
<1> QED
  BY <1>8, <1>9, <1>11, <1>12, <1>13 DEF Progress, v

-----------------------------------------------------------------------------
(***************************************************************************)
(* From the variables to the two records.                                  *)
(***************************************************************************)

(* No step after the Wto is built changes the program. *)
LEMMA SameProgram ==
  ASSUME UNCHANGED <<children, components>>
  PROVE  /\ TheProgram' = ProgramOf(instr')
         /\ UNCHANGED instr => TheProgram' = TheProgram
<1>1. Members' = Members
  BY DEF Members
<1>2. \A c \in Cycles : InOrder(c)' = InOrder(c)
  BY DEF InOrder
<1> QED
  BY <1>1, <1>2 DEF TheProgram, ProgramOf

(* The order of a partition is the reverse of how it is stored. *)
LEMMA InOrderType ==
  ASSUME components \in [Cycles -> Seq(Component)], NEW c \in Cycles
  PROVE  /\ InOrder(c) \in Seq(Component)
         /\ Len(InOrder(c)) = Len(components[c])
         /\ DOMAIN InOrder(c) = 1 .. Len(InOrder(c))
<1>1. components[c] \in Seq(Component)
  OBVIOUS
<1> QED
  BY <1>1 DEF InOrder, Reverse

(* The finished Wto of a graph is well ordered. *)
LEMMA ProgramIsWellOrdered ==
  ASSUME PartitionsAreOrdered, WtoDone,
         children \in [Labels -> SUBSET Labels],
         \A l \in Labels : EntryLabel \notin children[l],
         components \in [Cycles -> Seq(Component)],
         NEW ins \in [Labels -> Instructions]
  PROVE  WellOrdered(ProgramOf(ins))
<1> DEFINE g == ProgramOf(ins)
<1>1. /\ g.ch = children /\ g.ins = ins /\ g.mem = Members
      /\ g.parts = [c \in Cycles |-> InOrder(c)]
  BY DEF ProgramOf
<1>2. \A c \in Cycles : /\ g.parts[c] = InOrder(c)
                        /\ InOrder(c) \in Seq(Component)
                        /\ DOMAIN InOrder(c) = 1 .. Len(g.parts[c])
  BY <1>1, InOrderType
<1>3. /\ Members \in [Cycles -> SUBSET Labels]
      /\ \A c \in Cycles : IsPartition(c) /\ IsOrdered(c)
      /\ \A l \in Members[NoCycle] : children[l] \subseteq Members[NoCycle]
      /\ components[NoCycle] # <<>>
      /\ InOrder(NoCycle)[1] = [label |-> EntryLabel, cycle |-> FALSE]
  BY DEF PartitionsAreOrdered
<1>4. NoCycle \in Cycles
  BY DEF Cycles
<1>5. \A x : LabelsOf(g, x) = LabelsIn(x)
  BY <1>1 DEF LabelsOf, LabelsIn
<1>6. g.parts \in [Cycles -> Seq(Component)]
  BY <1>1, <1>2
<1>7. Len(g.parts[NoCycle]) > 0
  <2>1. components[NoCycle] \in Seq(Component)
    BY <1>4
  <2>2. Len(components[NoCycle]) > 0
    BY <1>3, <2>1
  <2> QED
    BY <1>2, <1>4, <2>2, InOrderType
<1>8. Part(g, NoCycle, 1) = [label |-> EntryLabel, cycle |-> FALSE]
  BY <1>2, <1>3, <1>4 DEF Part
<1> HIDE DEF g
<1>9. ASSUME NEW c \in Cycles
      PROVE  /\ \A i \in 1 .. Len(g.parts[c]) :
                  LabelsOf(g, Part(g, c, i)) \subseteq g.mem[c]
             /\ \A l \in g.mem[c] :
                  \E i \in 1 .. Len(g.parts[c]) : l \in LabelsOf(g, Part(g, c, i))
             /\ \A i, j \in 1 .. Len(g.parts[c]) :
                  i # j => LabelsOf(g, Part(g, c, i)) \cap LabelsOf(g, Part(g, c, j)) = {}
             /\ \A i \in 1 .. Len(g.parts[c]) :
                  Part(g, c, i).cycle =>
                    /\ Part(g, c, i).label # c
                    /\ Part(g, c, i).label \in g.mem[Part(g, c, i).label]
             /\ c \in g.mem[c] =>
                  \E i \in 1 .. Len(g.parts[c]) : IsHeadOf(c, Part(g, c, i))
             /\ \A i, j \in 1 .. Len(g.parts[c]) :
                  \A p \in LabelsOf(g, Part(g, c, i)), l \in LabelsOf(g, Part(g, c, j)) :
                    l \in g.ch[p] /\ l # c => i < j \/ (i = j /\ Part(g, c, i).cycle)
  <2> DEFINE K == InOrder(c)
             L(i) == LabelsIn(K[i])
  <2>1. /\ Members[c] = UNION {L(i) : i \in DOMAIN K}
        /\ \A i, j \in DOMAIN K : i # j => L(i) \cap L(j) = {}
        /\ \A i \in DOMAIN K : K[i].cycle => K[i].label # c /\ K[i].label \in Members[K[i].label]
        /\ c \in Members[c] => \E i \in DOMAIN K : K[i] = [label |-> c, cycle |-> FALSE]
    BY <1>3 DEF IsPartition
  <2>2. \A i, j \in DOMAIN K : \A p \in L(i), l \in L(j) :
          l \in children[p] /\ l # c => i < j \/ (i = j /\ K[i].cycle)
    BY <1>3 DEF IsOrdered
  <2>3. /\ DOMAIN K = 1 .. Len(g.parts[c])
        /\ \A i : Part(g, c, i) = K[i]
        /\ \A i : LabelsOf(g, Part(g, c, i)) = L(i)
    BY <1>2, <1>5 DEF Part
  <2> HIDE DEF K, L
  <2>4. \A i \in DOMAIN K : L(i) \subseteq Members[c]
    BY <2>1
  <2>5. \A l \in Members[c] : \E i \in DOMAIN K : l \in L(i)
    BY <2>1
  <2>6. \A i \in 1 .. Len(g.parts[c]) : LabelsOf(g, Part(g, c, i)) \subseteq g.mem[c]
    BY <1>1, <2>3, <2>4
  <2>7. \A l \in g.mem[c] :
          \E i \in 1 .. Len(g.parts[c]) : l \in LabelsOf(g, Part(g, c, i))
    BY <1>1, <2>3, <2>5
  <2>8. \A i, j \in 1 .. Len(g.parts[c]) :
          i # j => LabelsOf(g, Part(g, c, i)) \cap LabelsOf(g, Part(g, c, j)) = {}
    BY <2>1, <2>3
  <2>9. \A i \in 1 .. Len(g.parts[c]) :
          Part(g, c, i).cycle =>
            /\ Part(g, c, i).label # c
            /\ Part(g, c, i).label \in g.mem[Part(g, c, i).label]
    BY <1>1, <2>1, <2>3
  <2>10. c \in g.mem[c] => \E i \in 1 .. Len(g.parts[c]) : IsHeadOf(c, Part(g, c, i))
    BY <1>1, <2>1, <2>3 DEF IsHeadOf
  <2>11. \A i, j \in 1 .. Len(g.parts[c]) :
           \A p \in LabelsOf(g, Part(g, c, i)), l \in LabelsOf(g, Part(g, c, j)) :
             l \in g.ch[p] /\ l # c => i < j \/ (i = j /\ Part(g, c, i).cycle)
    BY <1>1, <2>2, <2>3
  <2> QED
    BY <2>6, <2>7, <2>8, <2>9, <2>10, <2>11
<1>10. WellOrdered(g)
  BY <1>1, <1>3, <1>6, <1>7, <1>8, <1>9 DEF WellOrdered
<1> QED
  BY <1>10 DEF g

(* set_pre and transform_to_post. *)
LEMMA TransformTouches ==
  ASSUME ErrorsInv, phase = "run", TheResults \in ResultType,
         instr \in [Labels -> Instructions],
         NEW l \in Labels, NEW d \in D, pre' = [pre EXCEPT ![l] = d],
         transform_to_post(l, d)
  PROVE  /\ TheResults' \in ResultType
         /\ Touches(TheProgram, TheResults, TheResults', l, d)
<1> DEFINE r == TheResults
           r2 == TheResults'
<1>1. /\ r.pre = pre /\ r.post = post /\ r.err = errors
      /\ r2.pre = pre' /\ r2.post = post' /\ r2.err = errors'
      /\ r2 = [pre |-> pre', post |-> post', err |-> errors']
      /\ TheProgram.ins = instr
  BY DEF TheResults, TheProgram, ProgramOf
<1>2. pre \in [Labels -> D] /\ post \in [Labels -> D] /\ errors \in SUBSET Labels
  BY <1>1 DEF ResultType
<1>3. instr[l] \in Instructions /\ TransformD(instr[l], d) \in D
  BY DomainAssumption
<1>4. /\ pre' \in [Labels -> D] /\ pre'[l] = d
      /\ \A k \in Labels \ {l} : pre'[k] = pre[k]
  BY <1>2
<1>5. /\ errors' \in SUBSET Labels
      /\ errors \subseteq errors'
      /\ \A k \in Labels \ {l} : k \in errors' => k \in errors
  BY <1>2 DEF transform_to_post
<1>6. /\ post' \in [Labels -> D]
      /\ \A k \in Labels \ {l} : post'[k] = post[k]
  BY <1>2, <1>3 DEF transform_to_post
<1>7. ASSUME l \notin errors'
      PROVE  /\ post'[l] = TransformD(instr[l], d)
             /\ IsCounter(instr[l]) \/ CheckD(instr[l], d)
  <2>1. ~NewError(l, d) /\ l \notin errors
    BY <1>5, <1>7 DEF transform_to_post
  <2>2. ~HasError(l)
    BY <2>1 DEF HasError
  <2>3. post'[l] = TransformD(instr[l], d)
    BY <1>2, <2>1, <2>2 DEF transform_to_post
  <2>4. IsCounter(instr[l]) \/ CheckD(instr[l], d)
    BY <2>1 DEF NewError
  <2> QED
    BY <2>3, <2>4
<1>8. r2 \in ResultType
  BY <1>1, <1>4, <1>5, <1>6 DEF ResultType
<1> HIDE DEF r, r2
<1>9. Touches(TheProgram, r, r2, l, d)
  BY <1>1, <1>4, <1>5, <1>6, <1>7, <1>8 DEF Touches
<1> QED
  BY <1>8, <1>9 DEF r, r2

(* join_all_prevs *)
LEMMA JoinAllPrevs ==
  ASSUME TheResults \in ResultType, NEW l \in Labels
  PROVE  /\ l # EntryLabel => join_all_prevs(l) = PrevJoin(TheProgram, TheResults, l)
         /\ join_all_prevs(l) = IF l = EntryLabel THEN TheResults.pre[l]
                                ELSE PrevJoin(TheProgram, TheResults, l)
         /\ join_all_prevs(l) \in D
<1>1. /\ TheResults.pre = pre /\ TheResults.post = post
      /\ TheProgram.ch = children
  BY DEF TheResults, TheProgram, ProgramOf
<1>2. join_all_prevs(l) = IF l = EntryLabel THEN TheResults.pre[l]
                          ELSE PrevJoin(TheProgram, TheResults, l)
  BY <1>1 DEF join_all_prevs, PrevJoin, parents_of
<1>3. TheResults.pre[l] \in D
  BY DEF ResultType
<1>4. PrevJoin(TheProgram, TheResults, l) \in D
  BY PrevJoinCovers
<1> QED
  BY <1>2, <1>3, <1>4

-----------------------------------------------------------------------------
(***************************************************************************)
(* The inductive invariant, and the steps of the analysis.                 *)
(***************************************************************************)

(* Before the analysis: nothing is known. *)
Untouched ==
  /\ pre = [l \in Labels |-> Bottom]
  /\ post = [l \in Labels |-> Bottom]
  /\ errors = {}
  /\ skip = TRUE

(* Until the entry is visited, no other component is started. *)
SkipsNothing == skip => Len(work) = 1 /\ At(TheProgram, work[1]) = 0

Running ==
  /\ skip \in BOOLEAN
  /\ Stacked(TheProgram, work)
  /\ Progress(TheProgram, TheResults, work)
  /\ Described(TheProgram, TheResults, skip)
  /\ SkipsNothing

(* The labels of the components at the top level. *)
TopLabels(g, i) == LabelsOf(g, Part(g, NoCycle, i))

TopIndexes(g) == 1 .. Len(g.parts[NoCycle])

(* After the analysis: every component is sound, for what the others send. *)
Finished ==
  /\ Described(TheProgram, TheResults, FALSE)
  /\ \A i \in TopIndexes(TheProgram) :
       Sound(TheProgram, TheResults, TopLabels(TheProgram, i), {})
  /\ exitValue = post[ExitLabel]
  /\ ~failed /\ termination => TerminationErrors = {} /\ maxLoopCount = max_loop_count

(* The run of the program stays inside what is described. *)
RunIsReached ==
  run # NoRun =>
    /\ run \in Labels \X Values
    /\ \E i \in TopIndexes(TheProgram) :
         Reached(TheProgram, TheResults, TopLabels(TheProgram, i), run[1], run[2])

SoundInv ==
  /\ ErrorsInv
  /\ BuilderTypes
  /\ phase = "build" => Untouched
  /\ phase # "build" => /\ WtoDone
                        /\ WellOrdered(TheProgram)
                        /\ TheResults \in ResultType
  /\ phase = "run" => Running
  /\ phase = "done" => Finished /\ RunIsReached
  /\ phase # "done" => run = NoRun

LEMMA SoundInvInit ==
  ASSUME RunInit
  PROVE  SoundInv
<1>1. ErrorsInv
  BY DEF RunInit, Init, ErrorsInv, FailedIffErrors
<1>2. BuilderTypes
  BY BuilderTypesInit DEF RunInit, Init
<1> QED
  BY <1>1, <1>2 DEF RunInit, Init, SoundInv, Untouched

(* The program and the domain, as the steps use them. *)
LEMMA ProgramFacts ==
  /\ TheProgram.ch = children
  /\ TheProgram.ins = instr
  /\ TheProgram.mem = Members
  /\ \A c \in Cycles : TheProgram.parts[c] = InOrder(c)
  /\ TheResults.pre = pre
  /\ TheResults.post = post
  /\ TheResults.err = errors
  BY DEF TheProgram, ProgramOf, TheResults

LEMMA StartSound ==
  ASSUME SoundInv, PartitionsAreOrdered, StartAnalysis, UNCHANGED run, ErrorsInv'
  PROVE  SoundInv'
<1> DEFINE g == ProgramOf(instr')
           r2 == TheResults'
           f == [mode |-> "top", cycle |-> NoCycle, todo |-> InOrder(NoCycle),
                 invariant |-> Bottom, iteration |-> 0]
<1>1. /\ phase = "build" /\ phase' = "run" /\ WtoDone
      /\ UNCHANGED <<children, components, visitStack, post, errors, failed, skip>>
      /\ work' = <<f>>
  BY DEF StartAnalysis, wtoVars, builderVars
<1>2. BuilderTypes /\ Untouched /\ run = NoRun
  BY <1>1 DEF SoundInv
<1>3. BuilderTypes' /\ WtoDone'
  BY <1>1, <1>2 DEF BuilderTypes, WtoDone
<1>4. instr' \in [Labels -> Instructions] /\ termination' \in BOOLEAN
  BY AnalyzerAssumption DEF StartAnalysis
<1>5. /\ children \in [Labels -> SUBSET Labels]
      /\ \A l \in Labels : EntryLabel \notin children[l]
      /\ components \in [Cycles -> Seq(Component)]
  BY <1>2, CfgAssumption DEF BuilderTypes
<1>6. WellOrdered(g)
  BY <1>1, <1>4, <1>5, ProgramIsWellOrdered
<1>7. TheProgram' = g
  BY <1>1, SameProgram
<1>8. NoCycle \in Cycles /\ g.parts[NoCycle] = InOrder(NoCycle)
  BY DEF Cycles, ProgramOf
<1>9. \E e \in D : /\ \A x \in EntryValues : InD(x, e)
                   /\ pre' = [pre EXCEPT ![EntryLabel] = e]
  <2>1. LoopHeads \in SUBSET Labels
    <3>1. components[NoCycle] \in Seq(Component)
      BY <1>5, <1>8
    <3>2. ToSet(components[NoCycle]) \subseteq Component
      BY <3>1 DEF ToSet
    <3> QED
      BY <3>2 DEF LoopHeads, Component
  <2>2. /\ InitCounters(EntryInv, LoopHeads) \in D
        /\ \A x \in EntryValues : InD(x, InitCounters(EntryInv, LoopHeads))
        /\ EntryInv \in D
        /\ \A x \in EntryValues : InD(x, EntryInv)
    BY <2>1, SoundDomainAssumption, DomainAssumption
  <2>3. CASE termination'
    BY <2>2, <2>3 DEF StartAnalysis
  <2>4. CASE ~termination'
    BY <2>2, <2>4 DEF StartAnalysis
  <2> QED
    BY <2>3, <2>4
<1>10. PICK e \in D : /\ \A x \in EntryValues : InD(x, e)
                      /\ pre' = [pre EXCEPT ![EntryLabel] = e]
  BY <1>9
<1>11. /\ pre' \in [Labels -> D]
       /\ pre'[EntryLabel] = e
       /\ \A l \in Labels : l # EntryLabel => pre'[l] = Bottom
       /\ post' \in [Labels -> D]
       /\ errors' = {}
  BY <1>1, <1>2, <1>10, LabelsAssumption, DomainAssumption DEF Untouched
<1>12. /\ r2 = [pre |-> pre', post |-> post', err |-> errors']
       /\ r2.pre = pre'
       /\ r2 \in ResultType
  BY <1>11 DEF TheResults, ResultType
<1>13. Described(g, r2, skip')
  <2>1. \A l \in Labels : l # EntryLabel => \A x \in Values : ~InD(x, r2.pre[l])
    BY <1>11, <1>12, SoundDomainAssumption
  <2>2. skip' = TRUE
    BY <1>1, <1>2 DEF Untouched
  <2> QED
    BY <1>10, <1>11, <1>12, <2>1, <2>2 DEF Described, Transformed
<1>14. f \in Frame
  <2>1. InOrder(NoCycle) \in Seq(Component)
    BY <1>5, <1>8, InOrderType
  <2> QED
    BY <1>8, <2>1, DomainAssumption DEF Frame
<1>15. FrameOK(g, f) /\ At(g, f) = 0
  BY <1>6, <1>8, <1>14, IterateOK
<1> HIDE DEF g, r2
<1>16. f.mode = "top" /\ f.cycle = NoCycle
  OBVIOUS
<1> HIDE DEF f
<1>17. work' \in Seq(Frame) /\ work' # <<>> /\ Len(work') = 1 /\ work'[1] = f
  BY <1>1, <1>14
<1>18. Stacked(g, work')
  BY <1>15, <1>16, <1>17 DEF Stacked
<1>19. Progress(g, r2, work')
  <2>1. FrameSound(g, r2, f, 0, {})
    BY <1>16 DEF FrameSound
  <2> QED
    BY <1>15, <1>17, <2>1 DEF Progress, HeadsHold, BelowSound
<1>20. Running'
  <2>1. skip' \in BOOLEAN
    BY <1>1, <1>2 DEF Untouched
  <2> QED
    BY <1>7, <1>13, <1>15, <1>17, <1>18, <1>19, <2>1 DEF Running, SkipsNothing, r2
<1> QED
  BY <1>1, <1>2, <1>3, <1>6, <1>7, <1>12, <1>20 DEF SoundInv, r2

(* A step that makes progress keeps the invariant. *)
LEMMA StillRunning ==
  ASSUME SoundInv, phase = "run", ErrorsInv',
         UNCHANGED <<children, components, visitStack, phase, instr, run>>,
         TheResults' \in ResultType,
         skip' \in BOOLEAN,
         Stacked(TheProgram, work'),
         Progress(TheProgram, TheResults', work'),
         Described(TheProgram, TheResults', skip'),
         skip' => Len(work') = 1 /\ At(TheProgram, work'[1]) = 0
  PROVE  SoundInv'
<1>1. TheProgram' = TheProgram
  BY SameProgram
<1>2. BuilderTypes' /\ WtoDone' /\ WellOrdered(TheProgram') /\ run' = NoRun
  BY <1>1 DEF SoundInv, BuilderTypes, WtoDone
<1>3. Running'
  BY <1>1 DEF Running, SkipsNothing
<1> QED
  BY <1>2, <1>3 DEF SoundInv

(* What a step of a running analysis starts from. *)
LEMMA RunningFacts ==
  ASSUME SoundInv, phase = "run"
  PROVE  /\ WellOrdered(TheProgram) /\ TheResults \in ResultType /\ ErrorsInv
         /\ Stacked(TheProgram, work)
         /\ Progress(TheProgram, TheResults, work)
         /\ Described(TheProgram, TheResults, skip)
         /\ skip => Len(work) = 1 /\ At(TheProgram, work[1]) = 0
         /\ skip \in BOOLEAN
         /\ work \in Seq(Frame) /\ work # <<>>
         /\ Current = work[Len(work)] /\ Current \in Frame
         /\ Callers = Pop(work)
         /\ Advance = AdvanceOf(work)
         /\ instr \in [Labels -> Instructions]
<1>1. /\ WellOrdered(TheProgram) /\ TheResults \in ResultType /\ Running /\ ErrorsInv
  BY DEF SoundInv
<1>2. work \in Seq(Frame) /\ work # <<>>
  BY <1>1 DEF Running, Stacked
<1>3. Current \in Frame
  BY <1>2 DEF Current
<1>4. instr \in [Labels -> Instructions]
  BY <1>1, ProgramFacts DEF WellOrdered
<1> QED
  BY <1>1, <1>2, <1>3, <1>4
  DEF Running, SkipsNothing, Current, Callers, Advance, AdvanceOf, Pop

LEMMA VisitLabelSound ==
  ASSUME SoundInv, NEW l \in Labels, VisitLabel(l), UNCHANGED run, ErrorsInv'
  PROVE  SoundInv'
<1> DEFINE g == TheProgram
           r == TheResults
           r2 == TheResults'
           d == join_all_prevs(l)
<1>1. /\ phase = "run"
      /\ UNCHANGED <<children, components, visitStack, phase, instr, run>>
      /\ Current.todo # <<>> /\ Current.cycle # l
      /\ Head(Current.todo) = [label |-> l, cycle |-> FALSE]
      /\ skip' = (skip /\ l # EntryLabel)
      /\ work' = Advance
  BY DEF VisitLabel, wtoVars, builderVars
<1>2. /\ WellOrdered(g) /\ r \in ResultType /\ ErrorsInv
      /\ Stacked(g, work) /\ Progress(g, r, work) /\ Described(g, r, skip)
      /\ skip => Len(work) = 1 /\ At(g, work[1]) = 0
      /\ skip \in BOOLEAN
      /\ instr \in [Labels -> Instructions]
  BY <1>1, RunningFacts
<1>3. /\ work' = AdvanceOf(work)
      /\ work[Len(work)].todo # <<>> /\ l # work[Len(work)].cycle
      /\ Head(work[Len(work)].todo) = [label |-> l, cycle |-> FALSE]
  BY <1>1, RunningFacts
<1>4. d = (IF l = EntryLabel THEN r.pre[l] ELSE PrevJoin(g, r, l)) /\ d \in D
  BY <1>2, JoinAllPrevs
<1>5. skip' = FALSE
  <2>1. l \in LabelsOf(g, Head(work[Len(work)].todo))
    BY <1>3 DEF LabelsOf
  <2>2. skip => l = EntryLabel
    BY <1>2, <1>3, <2>1, NextComponent
  <2> QED
    BY <1>1, <1>2, <2>2
<1>6. pre' = [pre EXCEPT ![l] = d] /\ transform_to_post(l, d)
  BY <1>5 DEF VisitLabel
<1> HIDE DEF d
<1>7. r2 \in ResultType /\ Touches(g, r, r2, l, d)
  BY <1>1, <1>2, <1>4, <1>6, TransformTouches
<1> HIDE DEF g, r, r2
<1>8. Progress(g, r2, AdvanceOf(work)) /\ Described(g, r2, FALSE)
  BY <1>2, <1>3, <1>4, <1>7, VisitStep
<1>9. Stacked(g, AdvanceOf(work))
  BY <1>2, <1>3, AdvanceStacked
<1> QED
  BY <1>1, <1>3, <1>5, <1>7, <1>8, <1>9, StillRunning DEF g, r2

LEMMA SkipHeadSound ==
  ASSUME SoundInv, NEW c \in Labels, SkipHead(c), UNCHANGED run, ErrorsInv'
  PROVE  SoundInv'
<1> DEFINE g == TheProgram
           r == TheResults
<1>1. /\ phase = "run"
      /\ UNCHANGED <<children, components, visitStack, phase, instr, run>>
      /\ UNCHANGED <<pre, post, errors, skip>>
      /\ Current.todo # <<>> /\ Current.cycle = c
      /\ Head(Current.todo) = [label |-> c, cycle |-> FALSE]
      /\ work' = Advance
  BY DEF SkipHead, wtoVars, builderVars, resultVars
<1>2. /\ WellOrdered(g) /\ r \in ResultType
      /\ Stacked(g, work) /\ Progress(g, r, work) /\ Described(g, r, skip)
      /\ skip => Len(work) = 1 /\ At(g, work[1]) = 0
      /\ skip \in BOOLEAN
  BY <1>1, RunningFacts
<1>3. /\ work' = AdvanceOf(work)
      /\ work[Len(work)].todo # <<>>
      /\ work[Len(work)].cycle = c
      /\ Head(work[Len(work)].todo) = [label |-> c, cycle |-> FALSE]
  BY <1>1, RunningFacts
<1>4. IsHeadOf(work[Len(work)].cycle, Head(work[Len(work)].todo))
  BY <1>3 DEF IsHeadOf
<1>5. TheResults' = r
  BY <1>1 DEF TheResults
<1> HIDE DEF g, r
<1>6. Progress(g, r, AdvanceOf(work)) /\ Stacked(g, AdvanceOf(work))
  BY <1>2, <1>3, <1>4, SkipHeadStep, AdvanceStacked
<1>7. skip = FALSE
  <2>1. work[1].cycle = NoCycle
    BY <1>2 DEF Stacked
  <2>2. skip => c = NoCycle
    BY <1>2, <1>3, <2>1
  <2> QED
    BY <1>2, <2>2, SentinelAssumption
<1> QED
  BY <1>1, <1>2, <1>3, <1>5, <1>6, <1>7, StillRunning DEF g

(* Whatever a cycle starts from is an abstract value. *)
LEMMA EnteringType ==
  ASSUME TheResults \in ResultType, NEW c, ~skip
  PROVE  EnteringInvariant(c) \in D
<1> DEFINE P == {q \in parents_of(c) : ~DeeperNesting(nesting[q], nesting[c])}
           S == {post[p] : p \in P}
<1>1. P \subseteq Labels
  BY DEF parents_of
<1>2. IsFiniteSet(P)
  BY <1>1, LabelsAssumption, FS_Subset
<1>3. EnteringInvariant(c) = JoinOver(S)
  BY DEF EnteringInvariant
<1> HIDE DEF P
<1>4. IsFiniteSet(S)
  BY <1>2, FiniteValues
<1>5. S \subseteq D
  BY <1>1, ProgramFacts DEF ResultType
<1> HIDE DEF S
<1> QED
  BY <1>3, <1>4, <1>5, JoinIsSound

(* A new iteration of a cycle is an activation. *)
LEMMA IterateType ==
  ASSUME SoundInv, phase = "run", NEW mode \in {"asc", "desc"}, NEW c \in Labels,
         NEW d \in D, NEW i \in Nat
  PROVE  LET f == Iterate(mode, c, d, i)
         IN  /\ f \in Frame /\ f.mode = mode /\ f.cycle = c /\ f.invariant = d
             /\ f.todo = TheProgram.parts[c]
<1>1. c \in Cycles
  BY DEF Cycles
<1>2. TheProgram.parts[c] = InOrder(c)
  BY <1>1, ProgramFacts
<1>3. InOrder(c) \in Seq(Component)
  BY <1>1, InOrderType DEF SoundInv, BuilderTypes
<1> QED
  BY <1>1, <1>2, <1>3 DEF Iterate, Frame

LEMMA EnterCycleSound ==
  ASSUME SoundInv, NEW c \in Labels, EnterCycle(c), UNCHANGED run, ErrorsInv'
  PROVE  SoundInv'
<1> DEFINE g == TheProgram
           r == TheResults
           r2 == TheResults'
           d == EnteringInvariant(c)
           f == Iterate("asc", c, d, 1)
<1>1. /\ phase = "run"
      /\ UNCHANGED <<children, components, visitStack, phase, instr, run>>
      /\ Current.todo # <<>>
      /\ Head(Current.todo) = [label |-> c, cycle |-> TRUE]
      /\ skip' = (skip /\ EntryLabel \notin Members[c])
  BY DEF EnterCycle, wtoVars, builderVars
<1>2. /\ WellOrdered(g) /\ r \in ResultType /\ ErrorsInv
      /\ Stacked(g, work) /\ Progress(g, r, work) /\ Described(g, r, skip)
      /\ skip => Len(work) = 1 /\ At(g, work[1]) = 0
      /\ skip \in BOOLEAN
      /\ instr \in [Labels -> Instructions]
  BY <1>1, RunningFacts
<1>3. /\ Advance = AdvanceOf(work)
      /\ work[Len(work)].todo # <<>>
      /\ Head(work[Len(work)].todo) = [label |-> c, cycle |-> TRUE]
  BY <1>1, RunningFacts
<1>4. ~skip
  <2> DEFINE n == Len(work)
  <2>1. /\ At(g, AdvanceOf(work)[n]) \in 1 .. Len(g.parts[work[n].cycle])
        /\ Head(work[n].todo) = Part(g, work[n].cycle, At(g, AdvanceOf(work)[n]))
    BY <1>2, <1>3, AdvanceStacked
  <2>2. n \in Nat /\ n >= 1
    BY <1>2, StackedFacts
  <2>3. n \in 1 .. n
    BY <2>2
  <2>4. work[n].cycle \in Cycles
    BY <1>2, <2>3, StackedFacts
  <2>5. c \in g.mem[c]
    BY <1>2, <1>3, <2>1, <2>4 DEF WellOrdered
  <2>6. c \in LabelsOf(g, Head(work[n].todo))
    BY <1>3, <2>5 DEF LabelsOf
  <2>7. skip => Head(work[n].todo) = [label |-> EntryLabel, cycle |-> FALSE]
    BY <1>2, <1>3, <2>6, NextComponent
  <2>8. [label |-> EntryLabel, cycle |-> FALSE] # [label |-> c, cycle |-> TRUE]
    OBVIOUS
  <2> QED
    BY <1>3, <2>7, <2>8
<1>5. d \in D
  BY <1>2, <1>4, EnteringType
<1>6. /\ skip' = FALSE
      /\ pre' = [pre EXCEPT ![c] = d]
      /\ transform_to_post(c, d)
      /\ work' = Append(AdvanceOf(work), f)
  BY <1>1, <1>3, <1>4 DEF EnterCycle
<1>7. f \in Frame /\ f.mode = "asc" /\ f.cycle = c /\ f.invariant = d /\ f.todo = g.parts[c]
  BY <1>1, <1>5, IterateType
<1> HIDE DEF d, f
<1>8. r2 \in ResultType /\ Touches(g, r, r2, c, d)
  BY <1>1, <1>2, <1>5, <1>6, TransformTouches
<1> HIDE DEF g, r, r2
<1>9. /\ Stacked(g, Append(AdvanceOf(work), f))
      /\ Progress(g, r2, Append(AdvanceOf(work), f))
      /\ Described(g, r2, FALSE)
  BY <1>2, <1>3, <1>5, <1>7, <1>8, EnterStep
<1> QED
  BY <1>1, <1>6, <1>8, <1>9, StillRunning DEF g, r2

(* The end of an iteration of a cycle. *)
LEMMA EndOfIterationFacts ==
  ASSUME SoundInv, NEW c \in Labels, NEW mode \in {"asc", "desc"}, EndOfIteration(c, mode)
  PROVE  /\ phase = "run" /\ WellOrdered(TheProgram) /\ TheResults \in ResultType
         /\ ErrorsInv /\ instr \in [Labels -> Instructions]
         /\ Stacked(TheProgram, work)
         /\ Progress(TheProgram, TheResults, work)
         /\ Described(TheProgram, TheResults, FALSE)
         /\ skip = FALSE /\ UNCHANGED skip
         /\ UNCHANGED <<children, components, visitStack, phase, instr>>
         /\ work[Len(work)].todo = <<>>
         /\ work[Len(work)].cycle = c
         /\ work[Len(work)].mode = mode
         /\ Current = work[Len(work)] /\ Callers = Pop(work)
         /\ Current.iteration \in Nat /\ Current.invariant \in D
         /\ c # EntryLabel
         /\ join_all_prevs(c) = PrevJoin(TheProgram, TheResults, c)
         /\ join_all_prevs(c) \in D
<1>1. /\ phase = "run" /\ UNCHANGED skip
      /\ UNCHANGED <<children, components, visitStack, phase, instr>>
      /\ Current.todo = <<>> /\ Current.cycle = c /\ Current.mode = mode
  BY DEF EndOfIteration, wtoVars, builderVars
<1>2. /\ WellOrdered(TheProgram) /\ TheResults \in ResultType /\ ErrorsInv
      /\ Stacked(TheProgram, work)
      /\ Progress(TheProgram, TheResults, work)
      /\ Described(TheProgram, TheResults, skip)
      /\ skip => Len(work) = 1 /\ At(TheProgram, work[1]) = 0
      /\ skip \in BOOLEAN
      /\ Current = work[Len(work)] /\ Current \in Frame /\ Callers = Pop(work)
      /\ instr \in [Labels -> Instructions]
  BY <1>1, RunningFacts
<1>3. Current.iteration \in Nat /\ Current.invariant \in D
  BY <1>2 DEF Frame
<1>4. work[Len(work)].mode # "top"
  BY <1>1, <1>2
<1>5. c # EntryLabel
  BY <1>1, <1>2, <1>4, CycleFacts
<1>6. skip = FALSE
  <2>1. work[1].mode = "top"
    BY <1>2 DEF Stacked
  <2> QED
    BY <1>2, <1>4, <2>1
<1>7. join_all_prevs(c) = PrevJoin(TheProgram, TheResults, c) /\ join_all_prevs(c) \in D
  BY <1>2, <1>5, JoinAllPrevs
<1> QED
  BY <1>1, <1>2, <1>3, <1>5, <1>6, <1>7

(* The next iteration, in either direction: the value the head gets must   *)
(* keep a decreasing iteration sound.                                      *)
LEMMA NextIterationSound ==
  ASSUME SoundInv, NEW c \in Labels, NEW mode \in {"asc", "desc"}, EndOfIteration(c, mode),
         NEW next \in {"asc", "desc"}, NEW d \in D, NEW i \in Nat,
         pre' = [pre EXCEPT ![c] = d],
         transform_to_post(c, d),
         work' = Append(Callers, Iterate(next, c, d, i)),
         ASSUME next = "desc",
                Touches(TheProgram, TheResults, TheResults', c, d)
         PROVE  Sound(TheProgram, TheResults', TheProgram.mem[c], {}),
         UNCHANGED run, ErrorsInv'
  PROVE  SoundInv'
<1> DEFINE g == TheProgram
           r == TheResults
           r2 == TheResults'
           f == Iterate(next, c, d, i)
<1>1. /\ phase = "run" /\ WellOrdered(g) /\ r \in ResultType /\ ErrorsInv
      /\ instr \in [Labels -> Instructions]
      /\ Stacked(g, work) /\ Progress(g, r, work) /\ Described(g, r, FALSE)
      /\ skip' = FALSE
      /\ UNCHANGED <<children, components, visitStack, phase, instr>>
      /\ work[Len(work)].cycle = c /\ work[Len(work)].mode # "top"
      /\ Callers = Pop(work)
  BY EndOfIterationFacts
<1>2. f \in Frame /\ f.mode = next /\ f.cycle = c /\ f.invariant = d /\ f.todo = g.parts[c]
  BY <1>1, IterateType
<1>3. r2 \in ResultType /\ Touches(g, r, r2, c, d)
  BY <1>1, TransformTouches
<1>4. f.mode = "desc" => Sound(g, r2, g.mem[c], {})
  BY <1>2, <1>3
<1>5. work' = Append(Pop(work), f) /\ f.mode # "top"
  BY <1>1, <1>2
<1> HIDE DEF f, g, r, r2
<1>6. /\ Stacked(g, Append(Pop(work), f))
      /\ Progress(g, r2, Append(Pop(work), f))
      /\ Described(g, r2, FALSE)
  BY <1>1, <1>2, <1>3, <1>4, <1>5, IterateStep
<1> QED
  BY <1>1, <1>3, <1>5, <1>6, StillRunning DEF g, r2

LEMMA AscendStableSound ==
  ASSUME SoundInv, NEW c \in Labels, AscendStable(c), UNCHANGED run, ErrorsInv'
  PROVE  SoundInv'
<1> DEFINE g == TheProgram
           r == TheResults
           d == join_all_prevs(c)
<1>1. EndOfIteration(c, "asc") /\ Stable(c)
  BY DEF AscendStable
<1>2. /\ pre' = [pre EXCEPT ![c] = d]
      /\ transform_to_post(c, d)
      /\ work' = Append(Callers, Iterate("desc", c, d, 1))
  BY DEF AscendStable
<1>3. /\ WellOrdered(g) /\ r \in ResultType
      /\ Stacked(g, work) /\ Progress(g, r, work) /\ Described(g, r, FALSE)
      /\ work[Len(work)].todo = <<>>
      /\ work[Len(work)].cycle = c
      /\ work[Len(work)].mode = "asc"
      /\ Current = work[Len(work)]
      /\ d = PrevJoin(g, r, c) /\ d \in D
  BY <1>1, EndOfIterationFacts
<1>4. LeqD(PrevJoin(g, r, c), work[Len(work)].invariant)
  BY <1>1, <1>3 DEF Stable
<1> HIDE DEF d, g, r
<1>5. ASSUME Touches(g, r, TheResults', c, d)
      PROVE  Sound(g, TheResults', g.mem[c], {})
  BY <1>3, <1>4, <1>5, AscendStableStep
<1> QED
  BY <1>1, <1>2, <1>3, <1>5, NextIterationSound DEF g, r

LEMMA AscendGrowSound ==
  ASSUME SoundInv, NEW c \in Labels, AscendGrow(c), UNCHANGED run, ErrorsInv'
  PROVE  SoundInv'
<1> DEFINE d == extrapolate(Current.invariant, join_all_prevs(c), Current.iteration)
<1>1. EndOfIteration(c, "asc")
  BY DEF AscendGrow
<1>2. /\ pre' = [pre EXCEPT ![c] = d]
      /\ transform_to_post(c, d)
      /\ work' = Append(Callers, Iterate("asc", c, d, Current.iteration + 1))
  BY DEF AscendGrow
<1>3. Current.iteration \in Nat /\ Current.invariant \in D /\ join_all_prevs(c) \in D
  BY <1>1, EndOfIterationFacts
<1>4. d \in D
  BY <1>3, DomainAssumption DEF extrapolate
<1>5. Current.iteration + 1 \in Nat
  BY <1>3
<1> HIDE DEF d
<1> QED
  BY <1>1, <1>2, <1>4, <1>5, NextIterationSound

LEMMA DescendRefineSound ==
  ASSUME SoundInv, NEW c \in Labels, DescendRefine(c), UNCHANGED run, ErrorsInv'
  PROVE  SoundInv'
<1> DEFINE g == TheProgram
           r == TheResults
           d == refine(Current.invariant, join_all_prevs(c), Current.iteration)
<1>1. EndOfIteration(c, "desc")
  BY DEF DescendRefine
<1>2. /\ pre' = [pre EXCEPT ![c] = d]
      /\ transform_to_post(c, d)
      /\ work' = Append(Callers, Iterate("desc", c, d, Current.iteration + 1))
  BY DEF DescendRefine
<1>3. /\ WellOrdered(g) /\ r \in ResultType
      /\ Stacked(g, work) /\ Progress(g, r, work) /\ Described(g, r, FALSE)
      /\ work[Len(work)].cycle = c
      /\ work[Len(work)].mode = "desc"
      /\ Current = work[Len(work)]
      /\ Current.iteration \in Nat /\ Current.invariant \in D
      /\ join_all_prevs(c) = PrevJoin(g, r, c) /\ join_all_prevs(c) \in D
  BY <1>1, EndOfIterationFacts
<1>4. /\ d \in {MeetD(work[Len(work)].invariant, PrevJoin(g, r, c)),
                NarrowD(work[Len(work)].invariant, PrevJoin(g, r, c))}
      /\ d \in D
  BY <1>3, DomainAssumption DEF refine
<1>5. Current.iteration + 1 \in Nat
  BY <1>3
<1> HIDE DEF d, g, r
<1>6. ASSUME Touches(g, r, TheResults', c, d)
      PROVE  Sound(g, TheResults', g.mem[c], {})
  BY <1>3, <1>4, <1>6, DescendRefineStep
<1> QED
  BY <1>1, <1>2, <1>4, <1>5, <1>6, NextIterationSound DEF g, r

LEMMA DescendEndSound ==
  ASSUME SoundInv, NEW c \in Labels, DescendEnd(c), UNCHANGED run, ErrorsInv'
  PROVE  SoundInv'
<1> DEFINE g == TheProgram
           r == TheResults
<1>1. /\ EndOfIteration(c, "desc")
      /\ work' = Callers
      /\ UNCHANGED <<pre, post, errors>>
  BY DEF DescendEnd, resultVars
<1>2. /\ phase = "run" /\ WellOrdered(g) /\ r \in ResultType
      /\ Stacked(g, work) /\ Progress(g, r, work) /\ Described(g, r, FALSE)
      /\ skip' = FALSE
      /\ UNCHANGED <<children, components, visitStack, phase, instr>>
      /\ work[Len(work)].mode = "desc"
      /\ Callers = Pop(work)
  BY <1>1, EndOfIterationFacts
<1>3. TheResults' = r
  BY <1>1 DEF TheResults
<1> HIDE DEF g, r
<1>4. Stacked(g, Pop(work)) /\ Progress(g, r, Pop(work))
  BY <1>2, DescendEndStep
<1> QED
  BY <1>1, <1>2, <1>3, <1>4, StillRunning DEF g

(* More errors leave less to describe. *)
LEMMA MoreErrors ==
  ASSUME NEW g, NEW r, NEW r2, r2.pre = r.pre, r2.post = r.post, r.err \subseteq r2.err
  PROVE  /\ Described(g, r, FALSE) => Described(g, r2, FALSE)
         /\ \A M : Sound(g, r, M, {}) => Sound(g, r2, M, {})
<1>1. Described(g, r, FALSE) => Described(g, r2, FALSE)
  BY DEF Described, Transformed
<1>2. ASSUME NEW M, Sound(g, r, M, {})
      PROVE  Sound(g, r2, M, {})
  <2>1. \A m \in M, y \in Values : Enters(g, r2, M, m, y) => Enters(g, r, M, m, y)
    BY DEF Enters
  <2>2. \A l, x : Reached(g, r2, M, l, x) => Reached(g, r, M, l, x)
    BY <2>1, ReachedShrinks
  <2> QED
    BY <1>2, <2>2 DEF Sound
<1> QED
  BY <1>1, <1>2

LEMMA FinishSound ==
  ASSUME SoundInv, Finish, UNCHANGED run, ErrorsInv'
  PROVE  SoundInv'
<1> DEFINE g == TheProgram
           r == TheResults
           r2 == TheResults'
           found == IF ~failed /\ termination THEN TerminationErrors ELSE {}
<1>1. /\ phase = "run" /\ phase' = "done"
      /\ Current.mode = "top" /\ Current.todo = <<>>
      /\ UNCHANGED <<children, components, visitStack, instr, termination, pre, post, run>>
      /\ exitValue' = post[ExitLabel]
      /\ errors' = errors \cup found
      /\ failed' = (failed \/ found # {})
      /\ maxLoopCount' = IF ~failed' /\ termination THEN max_loop_count ELSE maxLoopCount
  BY DEF Finish, wtoVars, builderVars
<1>2. /\ WellOrdered(g) /\ r \in ResultType
      /\ Stacked(g, work) /\ Progress(g, r, work) /\ Described(g, r, skip)
      /\ skip => Len(work) = 1 /\ At(g, work[1]) = 0
      /\ skip \in BOOLEAN
      /\ Current = work[Len(work)]
      /\ run = NoRun
      /\ failed \in BOOLEAN
  BY <1>1, RunningFacts DEF SoundInv, ErrorsInv
<1>3. TheProgram' = g
  BY <1>1, SameProgram
<1>4. /\ r.pre = pre /\ r.post = post /\ r.err = errors
      /\ r2 = [pre |-> pre', post |-> post', err |-> errors']
      /\ r2.pre = r.pre /\ r2.post = r.post /\ r2.err = errors'
  BY <1>1 DEF TheResults
<1>5. found \subseteq Labels
  BY DEF TerminationErrors
<1>6. r2 \in ResultType /\ r.err \subseteq r2.err
  BY <1>1, <1>2, <1>4, <1>5 DEF ResultType
<1>7. Len(work) = 1 /\ work[1].mode = "top" /\ work[1].cycle = NoCycle /\ work[1].todo = <<>>
  <2>1. Len(work) \in Nat /\ Len(work) >= 1
    BY <1>2, StackedFacts
  <2>2. Len(work) = 1 \/ Len(work) \in 2 .. Len(work)
    BY <2>1, OneOrMore
  <2>3. Len(work) = 1
    BY <1>1, <1>2, <2>2 DEF Stacked
  <2> QED
    BY <1>1, <1>2, <2>3 DEF Stacked
<1>8. At(g, work[1]) = Len(g.parts[NoCycle]) /\ Len(g.parts[NoCycle]) > 0
  <2> DEFINE a == Len(g.parts[NoCycle])
  <2>1. a \in Nat /\ a > 0
    BY <1>2 DEF WellOrdered, Cycles
  <2>2. At(g, work[1]) = a - 0
    BY <1>7 DEF At
  <2> HIDE DEF a
  <2>3. a - 0 = a
    BY <2>1
  <2> QED
    BY <2>1, <2>2, <2>3 DEF a
<1>9. ~skip
  <2>1. Len(g.parts[NoCycle]) # 0
    BY <1>8
  <2> QED
    BY <1>2, <1>8, <2>1
<1>10. Described(g, r, FALSE)
  BY <1>2, <1>9 DEF Described
<1>11. ASSUME NEW i \in TopIndexes(g)
       PROVE  Sound(g, r, TopLabels(g, i), {})
  <2>1. FrameSound(g, r, work[1], Len(g.parts[NoCycle]), {})
    BY <1>2, <1>7, <1>8 DEF Progress
  <2>2. IsHeadOf(NoCycle, Part(g, NoCycle, i)) \/ Sound(g, r, TopLabels(g, i), {})
    BY <1>7, <2>1 DEF FrameSound, TopIndexes, TopLabels
  <2>3. Part(g, NoCycle, i) \in Component
    <3>1. g.parts[NoCycle] \in Seq(Component)
      BY <1>2 DEF WellOrdered, Cycles
    <3> QED
      BY <3>1 DEF TopIndexes, Part
  <2>4. ~IsHeadOf(NoCycle, Part(g, NoCycle, i))
    BY <2>3, SentinelAssumption DEF IsHeadOf, Component
  <2> QED
    BY <2>2, <2>4
<1>12. TerminationErrors' = TerminationErrors /\ max_loop_count' = max_loop_count
  BY <1>1 DEF TerminationErrors, max_loop_count
<1>13. ASSUME ~failed', termination'
       PROVE  TerminationErrors' = {} /\ maxLoopCount' = max_loop_count'
  <2>1. ~failed /\ found = {} /\ termination
    BY <1>1, <1>2, <1>13
  <2> QED
    BY <1>1, <1>12, <1>13, <2>1
<1>14. exitValue' = post'[ExitLabel]
  BY <1>1
<1> HIDE DEF g, r, r2, found
<1>15. Described(g, r2, FALSE) /\ \A i \in TopIndexes(g) : Sound(g, r2, TopLabels(g, i), {})
  BY <1>4, <1>6, <1>10, <1>11, MoreErrors
<1>16. Finished'
  BY <1>3, <1>13, <1>14, <1>15 DEF Finished, r2
<1>17. RunIsReached' /\ BuilderTypes' /\ WtoDone' /\ WellOrdered(TheProgram')
  BY <1>1, <1>2, <1>3 DEF SoundInv, RunIsReached, BuilderTypes, WtoDone
<1> QED
  BY <1>1, <1>6, <1>16, <1>17 DEF SoundInv, r2

(* Nothing of the analysis changes while the program runs. *)
LEMMA SameAnalysis ==
  ASSUME SoundInv, phase = "done", UNCHANGED vars, RunIsReached'
  PROVE  SoundInv'
<1>1. /\ UNCHANGED <<children, components, visitStack, phase, instr, termination>>
      /\ UNCHANGED <<pre, post, errors, failed, exitValue, maxLoopCount>>
  BY DEF vars, wtoVars, builderVars, fwdVars, resultVars
<1>2. TheProgram' = TheProgram /\ TheResults' = TheResults
  BY <1>1, SameProgram DEF TheResults
<1>3. TerminationErrors' = TerminationErrors /\ max_loop_count' = max_loop_count
  BY <1>1 DEF TerminationErrors, max_loop_count
<1>4. Finished'
  BY <1>1, <1>2, <1>3 DEF SoundInv, Finished
<1>5. ErrorsInv' /\ BuilderTypes' /\ WtoDone' /\ WellOrdered(TheProgram') /\ TheResults' \in ResultType
  BY <1>1, <1>2 DEF SoundInv, ErrorsInv, FailedIffErrors, BuilderTypes, WtoDone
<1> QED
  BY <1>1, <1>4, <1>5 DEF SoundInv

LEMMA StartRunSound ==
  ASSUME SoundInv, StartRun
  PROVE  SoundInv'
<1> DEFINE g == TheProgram
           r == TheResults
<1>1. phase = "done" /\ UNCHANGED vars
  BY DEF StartRun, Done
<1>2. WellOrdered(g)
  BY <1>1 DEF SoundInv
<1>3. TheProgram' = g /\ TheResults' = r
  BY <1>1, SameProgram DEF TheResults, vars, wtoVars, builderVars, fwdVars, resultVars
<1>4. PICK x \in EntryValues : run' = <<EntryLabel, x>>
  BY DEF StartRun
<1>5. x \in Values /\ EntryLabel \in Labels
  BY SoundDomainAssumption, LabelsAssumption
<1>6. 1 \in TopIndexes(g) /\ TopLabels(g, 1) = {EntryLabel}
  <2>1. Len(g.parts[NoCycle]) \in Nat /\ Len(g.parts[NoCycle]) > 0
    BY <1>2 DEF WellOrdered, Cycles
  <2>2. Part(g, NoCycle, 1) = [label |-> EntryLabel, cycle |-> FALSE]
    BY <1>2 DEF WellOrdered
  <2> QED
    BY <2>1, <2>2 DEF TopIndexes, TopLabels, LabelsOf
<1> HIDE DEF g, r
<1>7. Reached(g, r, TopLabels(g, 1), EntryLabel, x)
  BY <1>5, <1>6, ReachedEnters DEF Enters
<1>8. RunIsReached'
  BY <1>3, <1>4, <1>5, <1>6, <1>7 DEF RunIsReached
<1> QED
  BY <1>1, <1>8, SameAnalysis

LEMMA RunStepSound ==
  ASSUME SoundInv, RunStep
  PROVE  SoundInv'
<1> DEFINE g == TheProgram
           r == TheResults
           l == run[1]
           x == run[2]
<1>1. phase = "done" /\ UNCHANGED vars /\ run # NoRun
  BY DEF RunStep, Done
<1>2. WellOrdered(g) /\ Finished /\ r \in ResultType
  BY <1>1 DEF SoundInv
<1>3. TheProgram' = g /\ TheResults' = r
  BY <1>1, SameProgram DEF TheResults, vars, wtoVars, builderVars, fwdVars, resultVars
<1>4. run \in Labels \X Values /\ l \in Labels /\ x \in Values
  BY <1>1 DEF SoundInv, RunIsReached
<1>5. PICK i \in TopIndexes(g) : Reached(g, r, TopLabels(g, i), l, x)
  BY <1>1 DEF SoundInv, RunIsReached
<1>6. l \notin errors /\ run' \in children[l] \X Exec(instr[l], x)
  BY DEF RunStep, Successors
<1>7. PICK m \in children[l], y \in Exec(instr[l], x) : run' = <<m, y>>
  BY <1>6
<1>8. m \in Labels /\ y \in Values /\ l \in TopLabels(g, i)
  <2>1. children[l] \in SUBSET Labels /\ instr[l] \in Instructions
    BY <1>2, <1>4, ProgramFacts DEF WellOrdered
  <2> QED
    BY <1>4, <1>5, <2>1, SoundDomainAssumption DEF Reached
<1>9. Follows(g, r, l, x, m, y)
  BY <1>6, ProgramFacts DEF Follows
<1>10. InD(x, r.pre[l])
  BY <1>2, <1>4, <1>5, <1>8 DEF Finished, Sound
<1>11. InD(y, r.post[l])
  BY <1>2, <1>4, <1>9, <1>10 DEF Finished, Described, Transformed, Follows
<1>12. PICK j \in TopIndexes(g) : m \in TopLabels(g, j)
  <2>1. NoCycle \in Cycles
    BY DEF Cycles
  <2>2. l \in g.mem[NoCycle]
    BY <1>2, <1>8, <2>1 DEF WellOrdered, TopIndexes, TopLabels
  <2>3. m \in g.mem[NoCycle]
    BY <1>2, <2>2, ProgramFacts DEF WellOrdered
  <2> QED
    BY <1>2, <2>1, <2>3 DEF WellOrdered, TopIndexes, TopLabels
<1>13. m \in g.ch[l]
  BY ProgramFacts
<1> HIDE DEF g, r, l, x
<1>14. Reached(g, r, TopLabels(g, j), m, y)
  <2>1. CASE l \in TopLabels(g, j)
    <3>1. i = j
      BY <1>2, <1>8, <1>12, <2>1 DEF WellOrdered, TopIndexes, TopLabels, Cycles
    <3> QED
      BY <1>5, <1>8, <1>9, <1>12, <3>1, ReachedFollows
  <2>2. CASE l \notin TopLabels(g, j)
    <3>1. Enters(g, r, TopLabels(g, j), m, y)
      BY <1>4, <1>11, <1>13, <2>2 DEF Enters
    <3> QED
      BY <1>8, <1>12, <3>1, ReachedEnters
  <2> QED
    BY <2>1, <2>2
<1>15. RunIsReached'
  BY <1>3, <1>7, <1>8, <1>12, <1>14 DEF RunIsReached
<1> QED
  BY <1>1, <1>15, SameAnalysis

LEMMA SoundInvStutter ==
  ASSUME SoundInv, UNCHANGED runVars
  PROVE  SoundInv'
<1>1. /\ UNCHANGED <<children, components, visitStack, phase, instr, termination>>
      /\ UNCHANGED <<pre, post, errors, failed, skip, work, exitValue, maxLoopCount, run>>
  BY DEF runVars, vars, wtoVars, builderVars, fwdVars, resultVars
<1>2. TheProgram' = TheProgram /\ TheResults' = TheResults
  BY <1>1, SameProgram DEF TheResults
<1>3. TerminationErrors' = TerminationErrors /\ max_loop_count' = max_loop_count
  BY <1>1 DEF TerminationErrors, max_loop_count
<1>4. (Finished => Finished') /\ (RunIsReached => RunIsReached')
  BY <1>1, <1>2, <1>3 DEF Finished, RunIsReached
<1>5. (Untouched => Untouched') /\ (Running => Running')
  BY <1>1, <1>2 DEF Untouched, Running, SkipsNothing
<1>6. ErrorsInv' /\ BuilderTypes' /\ (WtoDone => WtoDone')
  BY <1>1 DEF SoundInv, ErrorsInv, FailedIffErrors, BuilderTypes, WtoDone
<1> QED
  BY <1>1, <1>2, <1>4, <1>5, <1>6 DEF SoundInv

LEMMA BuildSound ==
  ASSUME SoundInv, BuildWto, UNCHANGED run, ErrorsInv'
  PROVE  SoundInv'
<1>1. /\ phase = "build" /\ BuildStep
      /\ UNCHANGED <<phase, pre, post, errors, skip, run>>
  BY DEF BuildWto, fwdVars, resultVars
<1>2. BuilderTypes'
  BY <1>1, BuilderTypesStep DEF SoundInv
<1> QED
  BY <1>1, <1>2 DEF SoundInv, Untouched

LEMMA SoundInvStep ==
  ASSUME SoundInv, PartitionsAreOrdered, [RunNext]_runVars
  PROVE  SoundInv'
<1>1. CASE UNCHANGED runVars
  BY <1>1, SoundInvStutter
<1>2. CASE StartRun
  BY <1>2, StartRunSound
<1>3. CASE RunStep
  BY <1>3, RunStepSound
<1>4. CASE Next /\ UNCHANGED run
  <2>1. ErrorsInv'
    BY <1>4, ErrorsStep DEF SoundInv
  <2>2. CASE UNCHANGED vars
    BY <1>4, <2>2, SoundInvStutter DEF runVars
  <2>3. CASE BuildWto
    BY <1>4, <2>1, <2>3, BuildSound
  <2>4. CASE StartAnalysis
    BY <1>4, <2>1, <2>4, StartSound
  <2>5. CASE Finish
    BY <1>4, <2>1, <2>5, FinishSound
  <2>6. ASSUME NEW l \in Labels,
               SkipHead(l) \/ VisitLabel(l) \/ EnterCycle(l) \/ AscendStable(l)
                 \/ AscendGrow(l) \/ DescendEnd(l) \/ DescendRefine(l)
        PROVE  SoundInv'
    BY <1>4, <2>1, <2>6, SkipHeadSound, VisitLabelSound, EnterCycleSound, AscendStableSound,
       AscendGrowSound, DescendEndSound, DescendRefineSound
  <2> QED
    BY <1>4, <2>2, <2>3, <2>4, <2>5, <2>6 DEF Next, AnalysisStep
<1> QED
  BY <1>1, <1>2, <1>3, <1>4 DEF RunNext

-----------------------------------------------------------------------------
(***************************************************************************)
(* What the invariant says of the finished analysis.                       *)
(***************************************************************************)
LEMMA RunIsDescribed ==
  ASSUME SoundInv, run # NoRun
  PROVE  LET l == run[1]
             x == run[2]
         IN  /\ phase = "done" /\ Finished
             /\ l \in Labels /\ x \in Values
             /\ instr[l] \in Instructions /\ pre[l] \in D /\ post[l] \in D
             /\ InD(x, pre[l])
             /\ l \notin errors =>
                  /\ \A y \in Exec(instr[l], x) : y \in Values /\ InD(y, post[l])
                  /\ IsCounter(instr[l]) \/ Safe(instr[l], x)
<1> DEFINE g == TheProgram
           r == TheResults
           l == run[1]
           x == run[2]
<1>1. phase = "done" /\ Finished /\ WellOrdered(g) /\ r \in ResultType /\ RunIsReached
  BY DEF SoundInv
<1>2. l \in Labels /\ x \in Values
  BY <1>1 DEF RunIsReached
<1>3. instr[l] \in Instructions /\ pre[l] \in D /\ post[l] \in D
  BY <1>1, <1>2, ProgramFacts DEF WellOrdered, ResultType
<1>4. PICK i \in TopIndexes(g) : Reached(g, r, TopLabels(g, i), l, x)
  BY <1>1 DEF RunIsReached
<1>5. l \in TopLabels(g, i)
  BY <1>4 DEF Reached
<1>6. InD(x, pre[l])
  BY <1>1, <1>2, <1>4, <1>5, ProgramFacts DEF Finished, Sound
<1>7. Transformed(g, r, l)
  BY <1>1, <1>2 DEF Finished, Described
<1>8. ASSUME l \notin errors
      PROVE  /\ \A y \in Exec(instr[l], x) : y \in Values /\ InD(y, post[l])
             /\ IsCounter(instr[l]) \/ Safe(instr[l], x)
  <2>1. Exec(instr[l], x) \subseteq Values
    BY <1>2, <1>3, SoundDomainAssumption
  <2> QED
    BY <1>2, <1>6, <1>7, <1>8, <2>1, ProgramFacts DEF Transformed
<1> QED
  BY <1>1, <1>2, <1>3, <1>6, <1>8

LEMMA SoundInvDescribes ==
  ASSUME SoundInv
  PROVE  SoundUpToErrors
<1> SUFFICES ASSUME run # NoRun
             PROVE  /\ InD(run[2], pre[run[1]])
                    /\ run[1] \notin errors =>
                         IsCounter(instr[run[1]]) \/ Safe(instr[run[1]], run[2])
                    /\ run[1] = ExitLabel /\ ExitLabel \notin errors =>
                         \A y \in Exec(instr[ExitLabel], run[2]) : InD(y, exitValue)
  BY DEF SoundUpToErrors
<1>1. exitValue = post[ExitLabel]
  BY RunIsDescribed DEF Finished
<1> QED
  BY <1>1, RunIsDescribed

LEMMA MaxLoopCountCovers ==
  ASSUME \A l \in Labels : post[l] \in D, NEW l \in Labels
  PROVE  max_loop_count \in Nat /\ LoopCountUb(post[l]) <= max_loop_count
<1> DEFINE S == {LoopCountUb(post[k]) : k \in Labels}
           T == {0} \cup S
<1>1. S \subseteq Nat /\ T \subseteq Nat /\ T # {}
  BY DomainAssumption
<1>2. IsFiniteSet(S)
  <2> DEFINE f == [k \in Labels |-> LoopCountUb(post[k])]
  <2>1. IsFiniteSet({f[k] : k \in Labels})
    <3> HIDE DEF f
    <3> QED
      BY LabelsAssumption, FiniteValues
  <2>2. {f[k] : k \in Labels} = S
    OBVIOUS
  <2> QED
    BY <2>1, <2>2
<1>3. IsFiniteSet(T)
  BY <1>2, FS_Union, FS_Singleton
<1>4. LoopCountUb(post[l]) \in T
  OBVIOUS
<1>5. max_loop_count = Max(T)
  BY DEF max_loop_count
<1> HIDE DEF S, T
<1>6. \E m \in T : \A k \in T : k <= m
  BY <1>1, <1>3, GreatestNatural
<1>7. Max(T) \in T /\ \A k \in T : Max(T) >= k
  BY <1>1, <1>6 DEF Max
<1> QED
  BY <1>1, <1>4, <1>5, <1>7

LEMMA SoundInvCounts ==
  ASSUME SoundInv
  PROVE  LoopCountIsABound
<1> DEFINE l == run[1]
           x == run[2]
<1> SUFFICES ASSUME run # NoRun, ~failed, termination, IsCounter(instr[l])
             PROVE  /\ Safe(instr[l], x)
                    /\ \A y \in Exec(instr[l], x) : Count(y) <= maxLoopCount
  BY DEF LoopCountIsABound
<1>1. /\ phase = "done" /\ Finished
      /\ l \in Labels /\ x \in Values
      /\ instr[l] \in Instructions /\ pre[l] \in D /\ post[l] \in D
      /\ InD(x, pre[l])
      /\ l \notin errors => \A y \in Exec(instr[l], x) : y \in Values /\ InD(y, post[l])
  BY RunIsDescribed
<1>2. l \notin errors
  BY DEF SoundInv, ErrorsInv, FailedIffErrors
<1>3. TerminationErrors = {} /\ maxLoopCount = max_loop_count
  BY <1>1 DEF Finished
<1>4. Safe(instr[l], x)
  <2>1. pre[l] # Bottom
    BY <1>1, SoundDomainAssumption
  <2>2. CheckD(instr[l], pre[l])
    BY <1>1, <1>3, <2>1 DEF TerminationErrors
  <2> QED
    BY <1>1, <2>2, SoundDomainAssumption
<1>5. ASSUME NEW y \in Exec(instr[l], x)
      PROVE  Count(y) <= maxLoopCount
  <2>1. y \in Values /\ InD(y, post[l])
    BY <1>1, <1>2
  <2>2. Count(y) \in Nat /\ Count(y) <= LoopCountUb(post[l])
    BY <1>1, <2>1, SoundDomainAssumption
  <2>3. \A k \in Labels : post[k] \in D
    BY <1>1, ProgramFacts DEF SoundInv, ResultType
  <2>4. LoopCountUb(post[l]) \in Nat
    BY <1>1, DomainAssumption
  <2>5. max_loop_count \in Nat /\ LoopCountUb(post[l]) <= max_loop_count
    BY <1>1, <2>3, MaxLoopCountCovers
  <2> QED
    BY <1>3, <2>2, <2>4, <2>5
<1> QED
  BY <1>4, <1>5

-----------------------------------------------------------------------------
(***************************************************************************)
(* The results.                                                            *)
(***************************************************************************)

(* The analysis leaves WtoBuilder alone: its invariant holds throughout.   *)
LEMMA BuilderUndisturbed ==
  ASSUME BuilderInv, [RunNext]_runVars
  PROVE  BuilderInv'
<1>1. CASE UNCHANGED vars
  BY <1>1, BuilderInvStutter DEF vars
<1>2. CASE Next
  <2>1. CASE BuildWto
    BY <2>1, BuilderInvStep DEF BuildWto
  <2>2. CASE ~BuildWto
    <3>1. UNCHANGED wtoVars
      BY <1>2, <2>2 DEF Next, AnalysisStep, StartAnalysis, SkipHead, VisitLabel, EnterCycle,
                        AscendStable, AscendGrow, DescendEnd, DescendRefine, EndOfIteration,
                        Finish, vars
    <3> QED
      BY <3>1, BuilderInvStutter
  <2> QED
    BY <2>1, <2>2
<1> QED
  BY <1>1, <1>2 DEF RunNext, StartRun, RunStep, runVars

(* The inductive invariant of the iterator: at every moment the stack of   *)
(* visitors, the pre- and post-invariants and the partitions fit together  *)
(* so that what is not described yet will still be visited.                *)
THEOREM SoundInvariance == RunSpec => []SoundInv
<1>1. RunInit => SoundInv /\ BuilderInv
  BY SoundInvInit, BuilderInvInit DEF RunInit, Init
<1>2. BuilderInv => PartitionsAreOrdered
  BY FinishedIsOrdered
<1>3. SoundInv /\ BuilderInv /\ [RunNext]_runVars => SoundInv' /\ BuilderInv'
  BY <1>2, SoundInvStep, BuilderUndisturbed
<1> QED
  BY <1>1, <1>3, PTL DEF RunSpec

(* run_forward_analyzer is sound, for every control-flow graph and every   *)
(* abstract domain that satisfies the assumptions: a concrete run of the   *)
(* program that has not gone past a label with an error is described by    *)
(* the pre-invariant of the label it is at and fails no assertion there,   *)
(* whatever widening does and however early narrowing stops.               *)
THEOREM AnalysisIsSound == RunSpec => []SoundUpToErrors
<1>1. SoundInv => SoundUpToErrors
  BY SoundInvDescribes
<1> QED
  BY <1>1, SoundInvariance, PTL

(* If the termination check passes, max_loop_count bounds how often every  *)
(* run of the program increments a loop counter.                           *)
THEOREM LoopCountBounds == RunSpec => []LoopCountIsABound
<1>1. SoundInv => LoopCountIsABound
  BY SoundInvCounts
<1> QED
  BY <1>1, SoundInvariance, PTL
=============================================================================
